---------------------- MODULE KnowledgeProcessingProofs ----------------------
(***************************************************************************)
(* Proofs about KnowledgeProcessing, for any images, subtasks, retries and *)
(* attempts.                                                               *)
(***************************************************************************)
EXTENDS KnowledgeProcessing, FiniteSetTheorems, TLAPS

USE KnowledgeAssumption

Record == [at : Phases, attempt : 0 .. MaxAttempt, tries : 0 .. MaxRetry, seen : Statuses,
           text : SUBSET Attempts, short : 0 .. Cardinality(Subtasks), signalled : BOOLEAN]
Others == Tasks \ Documents

-----------------------------------------------------------------------------
(* The tasks and what the helpers of the actions do to them. *)

\* The sizes that bound the counters.
LEMMA Sizes ==
  /\ Cardinality(Images) \in Nat /\ Cardinality(Subtasks) \in Nat
  /\ \A S \in SUBSET Images : IsFiniteSet(S) /\ Cardinality(S) \in 0 .. Cardinality(Images)
  /\ \A S \in SUBSET Subtasks : IsFiniteSet(S) /\ Cardinality(S) \in 0 .. Cardinality(Subtasks)
<1>1. Cardinality(Images) \in Nat /\ Cardinality(Subtasks) \in Nat
  BY FS_CardinalityType
<1>2. ASSUME NEW S \in SUBSET Images
      PROVE  IsFiniteSet(S) /\ Cardinality(S) \in 0 .. Cardinality(Images)
  <2>1. IsFiniteSet(S) /\ Cardinality(S) <= Cardinality(Images)
    BY FS_Subset
  <2> QED BY <2>1, <1>1, FS_CardinalityType
<1>3. ASSUME NEW S \in SUBSET Subtasks
      PROVE  IsFiniteSet(S) /\ Cardinality(S) \in 0 .. Cardinality(Subtasks)
  <2>1. IsFiniteSet(S) /\ Cardinality(S) <= Cardinality(Subtasks)
    BY FS_Subset
  <2> QED BY <2>1, <1>1, FS_CardinalityType
<1> QED BY <1>1, <1>2, <1>3

\* The kinds of tasks are told apart by their field, and a task is known by
\* its fields.
LEMMA TaskFacts ==
  /\ \A t \in Documents : t \in Tasks /\ t.kind = "document" /\ t.item = None
  /\ \A t \in ImageTasks : t \in Tasks /\ t.kind = "image" /\ t.run \in Attempts
                           /\ t.item \in Images /\ t = Image(t.run, t.item)
  /\ \A t \in PostTasks : t \in Tasks /\ t.kind = "post" /\ t.run \in Attempts
                          /\ t.item \in Images \cup {None} /\ t = Post(t.run, t.item)
  /\ \A t \in SubTasks : t \in Tasks /\ t.kind = "sub" /\ t.run \in Attempts
                         /\ t.item \in Subtasks /\ t = Sub(t.run, t.item)
  /\ \A t \in Tasks : \/ t \in Documents \/ t \in ImageTasks \/ t \in PostTasks
                      \/ t \in SubTasks
  /\ \A t \in Documents : t = Document(1) \/ t = Document(2)
  /\ Document(1) \in Documents /\ Document(2) \in Documents /\ Document(1) # Document(2)
  /\ \A a \in Attempts, i \in Images : Image(a, i) \in ImageTasks /\ Image(a, i).run = a
                                       /\ Image(a, i).item = i
  /\ \A a \in Attempts, i \in Images \cup {None} :
        Post(a, i) \in PostTasks /\ Post(a, i).run = a /\ Post(a, i).item = i
  /\ \A a \in Attempts, s \in Subtasks : Sub(a, s) \in SubTasks /\ Sub(a, s).run = a
                                         /\ Sub(a, s).item = s
BY DEF Tasks, Documents, ImageTasks, PostTasks, SubTasks, Document, Image, Post, Sub

LEMMA RunFacts ==
  \A u \in Others : u \in Tasks /\ u.run \in Attempts /\ u.kind # "document"
                    /\ u # Document(1) /\ u # Document(2)
BY TaskFacts DEF Others

Only(t) == /\ task' \in [Tasks -> Record]
           /\ \A u \in Tasks \ {t} : task'[u] = task[u]

LEMMA PayloadFacts ==
  ASSUME TypeOK, NEW t \in Tasks
  PROVE  /\ Payload(t) \in 0 .. MaxAttempt
         /\ t \in Others => Payload(t) = t.run
         /\ Payload(Document(1)) = 0
         /\ Payload(Document(2)) = task[Document(2)].attempt
<1>1. task[t].attempt \in 0 .. MaxAttempt
  BY DEF TypeOK
<1>2. t \in Documents \/ t.run \in Attempts
  BY TaskFacts
<1>3. t \in Others => t # Document(1) /\ t # Document(2)
  BY RunFacts
<1>4. t \notin Others => t = Document(1) \/ t = Document(2)
  BY TaskFacts DEF Others
<1> QED BY <1>1, <1>2, <1>3, <1>4, TaskFacts DEF Payload, Attempts

LEMMA MovedRecord ==
  ASSUME NEW x \in Record, NEW at \in Phases
  PROVE  LET y == [x EXCEPT !.at = at]
         IN /\ y \in Record /\ y.at = at /\ y.attempt = x.attempt /\ y.tries = x.tries
            /\ y.seen = x.seen /\ y.text = x.text /\ y.short = x.short
            /\ y.signalled = x.signalled
BY DEF Record

LEMMA RecordFacts ==
  /\ Fresh \in Record /\ Queued \in Record /\ Ended \in Record
  /\ Queued.at = "queued" /\ Ended.at = "done"
<1>1. 0 \in 0 .. MaxAttempt /\ 0 \in 0 .. MaxRetry /\ 0 \in 0 .. Cardinality(Subtasks)
  BY Sizes
<1>2. Fresh \in Record
  BY <1>1 DEF Fresh, Record, Phases, Statuses
<1>3. "queued" \in Phases /\ "done" \in Phases
  BY DEF Phases
<1> QED BY <1>2, <1>3, MovedRecord DEF Queued, Ended

\* A task that moves to another step keeps the rest.
LEMMA MoveFacts ==
  ASSUME TypeOK, NEW t \in Tasks, NEW at \in Phases, Move(t, at)
  PROVE  /\ Only(t) /\ task'[t].at = at /\ task'[t].attempt = task[t].attempt
         /\ task'[t].tries = task[t].tries /\ task'[t].seen = task[t].seen
         /\ task'[t].text = task[t].text /\ task'[t].short = task[t].short
         /\ task'[t].signalled = task[t].signalled
<1>1. task \in [Tasks -> Record]
  BY DEF TypeOK, Record
<1>2. task' = [task EXCEPT ![t] = [task[t] EXCEPT !.at = at]]
  BY <1>1 DEF Move
<1>3. task[t] \in Record
  BY <1>1
<1>4. task'[t] = [task[t] EXCEPT !.at = at] /\ [task[t] EXCEPT !.at = at] \in Record
  BY <1>1, <1>2, <1>3, MovedRecord
<1>5. Only(t)
  BY <1>1, <1>2, <1>4 DEF Only
<1> QED BY <1>3, <1>4, <1>5, MovedRecord

LEMMA EndFacts ==
  ASSUME TypeOK, NEW t \in Tasks, End(t)
  PROVE  Only(t) /\ task'[t] = Ended
<1>1. Ended \in Record
  BY RecordFacts
<1> QED BY <1>1 DEF End, Only, Record, TypeOK

LEMMA FinishedFacts ==
  /\ Finished \in Record /\ Finished.at \in {"done", "ending"}
  /\ "crash" \notin setting => Finished.at = "done"
  /\ Finished.attempt = 0 /\ Finished.seen = "pending" /\ Finished.text = {}
  /\ Finished.short = 0 /\ Finished.signalled = FALSE
<1>1. [Fresh EXCEPT !.at = "ending"] \in Record
  BY RecordFacts, MovedRecord DEF Phases
<1> QED BY <1>1, RecordFacts DEF Finished, Fresh, Ended

LEMMA FinishFacts ==
  ASSUME TypeOK, NEW t \in Tasks, Finish(t)
  PROVE  /\ Only(t)
         /\ task'[t].at \in {"done", "ending"}
         /\ "crash" \notin setting => task'[t].at = "done"
         /\ task'[t].tries = task[t].tries /\ task'[t].attempt = task[t].attempt
         /\ task'[t].seen = "pending" /\ task'[t].text = {} /\ task'[t].short = 0
         /\ task'[t].signalled = FALSE
<1> DEFINE z == [Finished EXCEPT !.tries = task[t].tries, !.attempt = task[t].attempt]
<1>1. task[t].tries \in 0 .. MaxRetry /\ task[t].attempt \in 0 .. MaxAttempt
  BY DEF TypeOK
<1>2. z \in Record /\ z.at = Finished.at /\ z.tries = task[t].tries
        /\ z.attempt = task[t].attempt /\ z.seen = Finished.seen /\ z.text = Finished.text
        /\ z.short = Finished.short /\ z.signalled = Finished.signalled
  BY <1>1, FinishedFacts DEF Record
<1>3. task' = [task EXCEPT ![t] = z]
  BY DEF Finish
<1> HIDE DEF z
<1>4. task'[t] = z /\ Only(t)
  BY <1>2, <1>3 DEF Only, Record, TypeOK
<1> QED BY <1>2, <1>4, FinishedFacts

LEMMA RequeueFacts ==
  ASSUME TypeOK, NEW t \in Tasks, Requeue(t)
  PROVE  /\ Only(t)
         /\ task'[t].at = "queued" /\ task'[t].tries = task[t].tries + 1
         /\ t \in Documents => task'[t].attempt = Payload(t)
         /\ task'[t].seen = "pending" /\ task'[t].text = {} /\ task'[t].short = 0
         /\ task'[t].signalled = FALSE
<1> DEFINE z == Requeued(t)
<1>1. task[t].tries + 1 \in 0 .. MaxRetry
  BY DEF TypeOK, Requeue
<1>2. z \in Record
  <2> DEFINE a == IF t.kind = "document" THEN Payload(t) ELSE 0
  <2>1. a \in 0 .. MaxAttempt
    BY PayloadFacts
  <2> HIDE DEF a
  <2>2. [Queued EXCEPT !.tries = task[t].tries + 1, !.attempt = a] \in Record
    BY <1>1, <2>1, RecordFacts DEF Record
  <2> QED BY <2>2 DEF Requeued, a
<1>3. /\ z.at = "queued" /\ z.tries = task[t].tries + 1 /\ z.seen = "pending"
      /\ z.text = {} /\ z.short = 0 /\ z.signalled = FALSE
      /\ t \in Documents => z.attempt = Payload(t)
  BY TaskFacts DEF Requeued, Queued, Fresh
<1>4. task' = [task EXCEPT ![t] = z]
  BY DEF Requeue
<1> HIDE DEF z
<1>5. task'[t] = z /\ Only(t)
  BY <1>2, <1>4 DEF Only, Record, TypeOK
<1> QED BY <1>3, <1>5

Rows == [status : Statuses, count : 0 .. Cardinality(Subtasks)]

LEMMA RowFacts ==
  ASSUME TypeOK, NEW s \in Statuses, UpdateKnowledge(s)
  PROVE  /\ row' \in Rows /\ row'.count = row.count
         /\ row'.status = IF row.status = "deleted" THEN "deleted" ELSE s
BY DEF TypeOK, UpdateKnowledge, Written, Rows

Held == {"marked", "cleaned", "writing", "written", "indexing", "indexed", "checked", "saved"}

\* A document task that holds an attempt knows its number.
HeldOK == \A d \in Documents : task[d].at \in Held => task[d].attempt \in Attempts

\* A request that is under way is of one of the kinds.
AskedOK == request.at # "idle" => request.kind \in Requests

TypeInv == TypeOK /\ HeldOK /\ AskedOK

\* The type of what the steps leave to be checked.
LEMMA TypeFromParts ==
  ASSUME TypeOK, UNCHANGED <<setting, request, sweep, crashes>>, row' \in Rows,
         attempt' \in 0 .. MaxAttempt, chunks' \subseteq Attempts, index' \subseteq Attempts,
         pendingImages' \in 0 .. Cardinality(Images), task' \in [Tasks -> Record]
  PROVE  TypeOK' /\ (AskedOK => AskedOK')
BY DEF TypeOK, Rows, Record, AskedOK

\* A document task learns its attempt when it starts to work.
LEMMA MarkFacts ==
  ASSUME TypeInv, NEW t \in Documents, MarkProcessing(t)
  PROVE  /\ Only(t) /\ task'[t].at = "marked" /\ task'[t].attempt \in Attempts
         /\ task'[t].attempt = IF Payload(t) = 0 THEN attempt + 1 ELSE task[t].attempt
         /\ task'[t].signalled = task[t].signalled
<1> DEFINE a == IF Payload(t) = 0 THEN attempt + 1 ELSE task[t].attempt
           x == task[t]
<1>1. /\ t \in Tasks /\ task \in [Tasks -> Record] /\ attempt \in 0 .. MaxAttempt
      /\ x \in Record /\ "marked" \in Phases /\ TypeOK
  BY TaskFacts DEF TypeInv, TypeOK, Record, Phases
<1>2. a \in Attempts
  <2>1. Payload(t) # 0 => Payload(t) = task[t].attempt
    BY <1>1, PayloadFacts, TaskFacts
  <2>2. Payload(t) \in 0 .. MaxAttempt
    BY <1>1, PayloadFacts
  <2>3. CASE Payload(t) = 0
    BY <1>1, <2>3 DEF MarkProcessing, Attempts
  <2>4. CASE Payload(t) # 0
    BY <2>1, <2>2, <2>4 DEF Attempts
  <2> QED BY <2>3, <2>4
<1>3. task' = [task EXCEPT ![t] = [x EXCEPT !.at = "marked", !.attempt = a]]
  BY <1>1 DEF MarkProcessing, Record
<1>4. PICK b \in 0 .. MaxAttempt : b = a
  BY <1>2 DEF Attempts
<1> HIDE DEF x, a
<1>5. LET y == [x EXCEPT !.at = "marked", !.attempt = b]
      IN /\ y \in Record /\ y.at = "marked" /\ y.attempt = b /\ y.signalled = x.signalled
  BY <1>1 DEF Record
<1>6. Only(t) /\ task'[t] = [x EXCEPT !.at = "marked", !.attempt = b]
  BY <1>1, <1>3, <1>4, <1>5 DEF Only
<1> QED BY <1>2, <1>4, <1>5, <1>6 DEF a, x

LEMMA DocumentType ==
  ASSUME TypeInv, NEW t \in Documents, DocumentStep(t),
         UNCHANGED <<setting, request, sweep, crashes>>
  PROVE  TypeInv'
<1> t \in Tasks
  BY TaskFacts
<1>1. /\ TypeOK
      /\ row \in Rows /\ attempt \in 0 .. MaxAttempt /\ chunks \subseteq Attempts
      /\ index \subseteq Attempts /\ pendingImages \in 0 .. Cardinality(Images)
      /\ task \in [Tasks -> Record]
      /\ task[t].at \in Held => task[t].attempt \in Attempts
  BY DEF TypeInv, HeldOK, TypeOK, Rows, Record
<1>2. ASSUME NEW at \in Phases, Move(t, at) PROVE Only(t) /\ task'[t].at = at
        /\ task'[t].attempt = task[t].attempt
  BY <1>1, <1>2, MoveFacts
<1>3. ASSUME End(t) \/ Finish(t) \/ Requeue(t)
      PROVE Only(t) /\ task'[t].at \in {"queued", "done", "ending"}
  BY <1>1, <1>3, EndFacts, FinishFacts, RequeueFacts DEF Ended, Fresh
<1>4. ASSUME NEW s \in Statuses, UpdateKnowledge(s) PROVE row' \in Rows
  BY <1>1, <1>4, RowFacts
<1>5. ASSUME Only(t), task'[t].at \in Held => task'[t].attempt \in Attempts
      PROVE task' \in [Tasks -> Record] /\ HeldOK'
  BY <1>5, TaskFacts DEF Only, TypeInv, HeldOK
<1> USE DEF TypeInv
<1>6. CASE StartDocument(t)
  <2>1. Only(t) /\ task'[t].at \notin Held
    BY <1>2, <1>3, <1>6 DEF StartDocument, Phases, Held
  <2> QED BY <1>1, <1>5, <1>6, <2>1, TypeFromParts DEF StartDocument
<1>7. CASE MarkProcessing(t)
  <2>1. attempt' \in 0 .. MaxAttempt
    BY <1>1, <1>7 DEF MarkProcessing
  <2>2. Only(t) /\ task'[t].attempt \in Attempts
    BY <1>7, MarkFacts
  <2>3. row' \in Rows
    BY <1>4, <1>7 DEF MarkProcessing, Statuses
  <2> QED BY <1>1, <1>5, <1>7, <2>1, <2>2, <2>3, TypeFromParts DEF MarkProcessing
<1>8. CASE ConvertFails(t) \/ Reject(t) \/ BatchIndexFails(t)
  <2>1. row' \in Rows
    BY <1>1, <1>4, <1>8 DEF ConvertFails, Reject, BatchIndexFails, Statuses
  <2>2. Only(t) /\ task'[t].at \notin Held
    BY <1>2, <1>3, <1>8 DEF ConvertFails, Reject, BatchIndexFails, Held
  <2> QED BY <1>1, <1>5, <1>8, <2>1, <2>2, TypeFromParts
          DEF ConvertFails, Reject, BatchIndexFails
<1>9. CASE CleanUp(t) \/ CheckBeforeWrite(t) \/ CheckBeforeIndex(t) \/ CheckAfterIndex(t)
  <2>1. Only(t) /\ task[t].at \in Held
           /\ (task'[t].at \in Held => task'[t].attempt = task[t].attempt)
    BY <1>2, <1>3, <1>9
       DEF CleanUp, CheckBeforeWrite, CheckBeforeIndex, CheckAfterIndex, Phases, Held
  <2> QED BY <1>1, <1>5, <1>9, <2>1, TypeFromParts
          DEF CleanUp, CheckBeforeWrite, CheckBeforeIndex, CheckAfterIndex
<1>10. CASE WriteChunks(t) \/ BatchIndex(t) \/ FinishIndexing(t)
  <2>1. Only(t) /\ task[t].at \in Held /\ task'[t].attempt = task[t].attempt
    BY <1>2, <1>10 DEF WriteChunks, BatchIndex, FinishIndexing, Phases, Held
  <2>2. row' \in Rows
    BY <1>1, <1>4, <1>10 DEF WriteChunks, BatchIndex, FinishIndexing, Statuses
  <2>3. chunks' \subseteq Attempts /\ index' \subseteq Attempts
    BY <1>1, <1>10, <2>1 DEF WriteChunks, BatchIndex, FinishIndexing
  <2> QED BY <1>1, <1>5, <1>10, <2>1, <2>2, <2>3, TypeFromParts
          DEF WriteChunks, BatchIndex, FinishIndexing
<1>11. CASE EnqueueNext(t)
  <2> DEFINE next == IF Pictures = {} THEN {Post(task[t].attempt, None)}
                     ELSE {Image(task[t].attempt, i) : i \in Pictures}
             z == [Finished EXCEPT !.tries = task[t].tries, !.attempt = task[t].attempt]
  <2>1. PICK refused \in Refused(next) :
             task' = [u \in Tasks |-> CASE u = t -> z
                                        [] u \in next \ refused -> Queued
                                        [] OTHER -> task[u]]
    BY <1>11 DEF EnqueueNext
  <2>2. z \in Record /\ z.at \notin Held
    BY <1>1, FinishedFacts DEF Record, Held
  <2>3. Queued \in Record /\ Queued.at \notin Held
    BY RecordFacts DEF Queued, Fresh, Held
  <2> HIDE DEF z, next
  <2>4. task' \in [Tasks -> Record] /\ HeldOK'
    BY <1>1, <2>1, <2>2, <2>3, TaskFacts DEF HeldOK
  <2>5. pendingImages' \in 0 .. Cardinality(Images)
    BY <1>1, <1>11, Sizes DEF EnqueueNext, Pictures
  <2> QED BY <1>1, <1>11, <2>4, <2>5, TypeFromParts DEF EnqueueNext
<1> QED BY <1>6, <1>7, <1>8, <1>9, <1>10, <1>11 DEF DocumentStep

LEMMA ImageType ==
  ASSUME TypeInv, NEW t \in ImageTasks, ImageStep(t),
         UNCHANGED <<setting, request, sweep, crashes>>
  PROVE  TypeInv'
<1>1. /\ TypeOK /\ t \in Tasks \ Documents
      /\ row \in Rows /\ attempt \in 0 .. MaxAttempt /\ chunks \subseteq Attempts
      /\ index \subseteq Attempts /\ pendingImages \in 0 .. Cardinality(Images)
      /\ task \in [Tasks -> Record]
  BY TaskFacts DEF TypeInv, TypeOK, Rows, Record
<1>2. ASSUME Only(t) PROVE task' \in [Tasks -> Record] /\ HeldOK'
  BY <1>1, <1>2, TaskFacts DEF Only, TypeInv, HeldOK
<1> USE DEF TypeInv
<1>3. CASE StartImage(t) \/ ImageEnds(t) \/ ImageFails(t)
  <2>1. Only(t)
    BY <1>1, <1>3, MoveFacts, RequeueFacts DEF StartImage, ImageEnds, ImageFails, Phases
  <2> QED BY <1>1, <1>2, <1>3, <2>1, TypeFromParts DEF StartImage, ImageEnds, ImageFails
<1>4. CASE CountImage(t)
  <2>1. Post(t.run, t.item) \in Tasks \ Documents /\ Post(t.run, t.item) # t
    BY TaskFacts
  <2> DEFINE z == [Finished EXCEPT !.tries = task[t].tries]
  <2>2. z \in Record
    BY <1>1, FinishedFacts DEF Record
  <2>3. PICK b \in BOOLEAN : task' = [task EXCEPT ![t] = z,
                                ![Post(t.run, t.item)] = IF b THEN Queued ELSE @]
    BY <1>4 DEF CountImage
  <2> HIDE DEF z
  <2>4. task' \in [Tasks -> Record]
           /\ \A u \in Documents : task'[u] = task[u]
    BY <1>1, <2>1, <2>2, <2>3, RecordFacts, TaskFacts
  <2>5. HeldOK'
    BY <2>4 DEF HeldOK
  <2>6. pendingImages' \in 0 .. Cardinality(Images)
    BY <1>1, <1>4, Sizes DEF CountImage
  <2> QED BY <1>1, <1>4, <2>4, <2>5, <2>6, TypeFromParts DEF CountImage
<1> QED BY <1>3, <1>4 DEF ImageStep

\* The two statements of FinalizeSubtask.
LEMMA FinalizeType ==
  ASSUME TypeOK, NEW t \in Tasks, Decrement(t) \/ Promote(t)
  PROVE  Only(t) /\ row' \in Rows
<1>1. task \in [Tasks -> Record] /\ row \in Rows
  BY DEF TypeOK, Rows, Record
<1>2. CASE Decrement(t)
  <2>1. Only(t)
    BY <1>2, MoveFacts DEF Decrement, Phases
  <2>2. row.count > 0 => [row EXCEPT !.count = @ - 1] \in Rows
    BY <1>1, Sizes DEF Rows
  <2> QED BY <1>1, <1>2, <2>1, <2>2 DEF Decrement, Written
<1>3. CASE Promote(t)
  <2>1. row' \in Rows
    BY <1>1, <1>3 DEF Promote, Rows, Statuses
  <2>2. CASE task[t].short > 1
    <3>1. task[t] \in Record
      BY <1>1
    <3>2. task[t].short - 1 \in 0 .. Cardinality(Subtasks) /\ "releasing" \in Phases
      BY <2>2, <3>1, Sizes DEF Record, Phases
    <3>3. [task[t] EXCEPT !.at = "releasing", !.short = task[t].short - 1] \in Record
      BY <3>1, <3>2 DEF Record
    <3>4. task' = [task EXCEPT ![t] = [task[t] EXCEPT !.at = "releasing",
                                                      !.short = task[t].short - 1]]
      BY <1>1, <1>3, <2>2 DEF Promote
    <3> QED BY <1>1, <2>1, <3>3, <3>4 DEF Only
  <2>3. CASE ~(task[t].short > 1)
    BY <1>3, <2>1, <2>3, FinishFacts DEF Promote
  <2> QED BY <2>2, <2>3
<1> QED BY <1>2, <1>3

\* A fan-out cannot lose more subtasks than there are.
LEMMA RefusedSubs ==
  ASSUME NEW a \in Attempts, NEW R \in SUBSET {Sub(a, s) : s \in Subtasks}
  PROVE  /\ IsFiniteSet(R)
         /\ Cardinality(R) \in 0 .. Cardinality(Subtasks)
         /\ Cardinality(R) = Cardinality({s \in Subtasks : Sub(a, s) \in R})
<1> DEFINE S == {s \in Subtasks : Sub(a, s) \in R}
           f == [s \in S |-> Sub(a, s)]
<1>1. \A s \in Subtasks : Sub(a, s).item = s
  BY TaskFacts
<1>2. f \in Bijection(S, R)
  <2>1. f \in [S -> R]
    OBVIOUS
  <2>2. \A x, y \in S : f[x] = f[y] => x = y
    BY <1>1
  <2>3. \A r \in R : \E s \in S : f[s] = r
    OBVIOUS
  <2> QED BY <2>1, <2>2, <2>3 DEF Bijection, Injection, Surjection, IsInjective
<1>3. ExistsBijection(S, R)
  BY <1>2 DEF ExistsBijection
<1>4. IsFiniteSet(S) /\ Cardinality(S) \in 0 .. Cardinality(Subtasks)
  BY Sizes
<1>5. IsFiniteSet(R) /\ Cardinality(R) = Cardinality(S)
  BY <1>3, <1>4, FS_Bijection
<1> QED BY <1>4, <1>5

LEMMA PostType ==
  ASSUME TypeInv, NEW t \in PostTasks, PostStep(t),
         UNCHANGED <<setting, request, sweep, crashes>>
  PROVE  TypeInv'
<1>1. /\ TypeOK /\ t \in Tasks \ Documents
      /\ row \in Rows /\ attempt \in 0 .. MaxAttempt /\ chunks \subseteq Attempts
      /\ index \subseteq Attempts /\ pendingImages \in 0 .. Cardinality(Images)
      /\ task \in [Tasks -> Record]
  BY TaskFacts DEF TypeInv, TypeOK, Rows, Record
<1>2. ASSUME Only(t) PROVE task' \in [Tasks -> Record] /\ HeldOK'
  BY <1>1, <1>2, TaskFacts DEF Only, TypeInv, HeldOK
<1> USE DEF TypeInv
<1>3. CASE StartPost(t) \/ ListChunks(t)
  <2>1. Only(t)
    BY <1>1, <1>3, MoveFacts, FinishFacts DEF StartPost, ListChunks, Phases
  <2> QED BY <1>1, <1>2, <1>3, <2>1, TypeFromParts DEF StartPost, ListChunks
<1>4. CASE PostFails(t) \/ CompleteEmpty(t)
  <2>1. Only(t)
    BY <1>1, <1>4, EndFacts, RequeueFacts, FinishFacts DEF PostFails, CompleteEmpty
  <2>2. row' \in Rows
    BY <1>1, <1>4, RowFacts DEF PostFails, CompleteEmpty, Statuses
  <2> QED BY <1>1, <1>2, <1>4, <2>1, <2>2, TypeFromParts DEF PostFails, CompleteEmpty
<1>5. CASE SetFinalizing(t)
  <2>1. Only(t)
    BY <1>1, <1>5, MoveFacts, FinishFacts DEF SetFinalizing, Phases
  <2>2. row' \in Rows
    BY <1>1, <1>5, Sizes DEF SetFinalizing, Rows, Statuses
  <2> QED BY <1>1, <1>2, <1>5, <2>1, <2>2, TypeFromParts DEF SetFinalizing
<1>6. CASE FanOut(t)
  <2> DEFINE subs == {Sub(t.run, s) : s \in Subtasks}
             z == [Finished EXCEPT !.tries = task[t].tries]
  <2>1. PICK refused \in Refused(subs) :
             task' = [u \in Tasks |->
                        CASE u = t /\ refused = {} -> z
                          [] u = t /\ refused # {} ->
                                [task[t] EXCEPT !.at = "releasing", !.short = Cardinality(refused)]
                          [] u \in subs \ refused -> Queued
                          [] OTHER -> task[u]]
    BY <1>6 DEF FanOut
  <2>2. z \in Record
    BY <1>1, FinishedFacts DEF Record
  <2>3. refused \subseteq subs
    BY DEF Refused
  <2>4. [task[t] EXCEPT !.at = "releasing", !.short = Cardinality(refused)] \in Record
    <3> DEFINE x == task[t]
               n == Cardinality(refused)
    <3>1. n \in 0 .. Cardinality(Subtasks)
      <4>1. t.run \in Attempts
        BY TaskFacts
      <4>2. refused \in SUBSET {Sub(t.run, s) : s \in Subtasks}
        BY <2>3
      <4> HIDE DEF subs
      <4> QED BY <4>1, <4>2, RefusedSubs
    <3>2. x \in Record /\ "releasing" \in Phases
      BY <1>1 DEF Phases
    <3> HIDE DEF x, n
    <3>3. [x EXCEPT !.at = "releasing", !.short = n] \in Record
      BY <3>1, <3>2 DEF Record
    <3> QED BY <3>3 DEF x, n
  <2>5. subs \cap Documents = {}
    BY <1>1, TaskFacts
  <2> HIDE DEF z, subs
  <2>6. task' \in [Tasks -> Record] /\ \A u \in Documents : task'[u] = task[u]
    BY <1>1, <2>1, <2>2, <2>3, <2>4, <2>5, RecordFacts, TaskFacts
  <2>7. HeldOK'
    BY <2>6 DEF HeldOK
  <2> QED BY <1>1, <1>6, <2>6, <2>7, TypeFromParts DEF FanOut
<1>7. CASE Decrement(t) \/ Promote(t)
  <2>1. Only(t) /\ row' \in Rows
    BY <1>1, <1>7, FinalizeType
  <2> QED BY <1>1, <1>2, <1>7, <2>1, TypeFromParts DEF Decrement, Promote
<1> QED BY <1>3, <1>4, <1>5, <1>6, <1>7 DEF PostStep

LEMMA SubType ==
  ASSUME TypeInv, NEW t \in SubTasks, SubStep(t),
         UNCHANGED <<setting, request, sweep, crashes>>
  PROVE  TypeInv'
<1>1. /\ TypeOK /\ t \in Tasks \ Documents
      /\ row \in Rows /\ attempt \in 0 .. MaxAttempt /\ chunks \subseteq Attempts
      /\ index \subseteq Attempts /\ pendingImages \in 0 .. Cardinality(Images)
      /\ task \in [Tasks -> Record]
  BY TaskFacts DEF TypeInv, TypeOK, Rows, Record
<1>2. ASSUME Only(t) PROVE task' \in [Tasks -> Record] /\ HeldOK'
  BY <1>1, <1>2, TaskFacts DEF Only, TypeInv, HeldOK
<1>3. task[t].seen \in Statuses /\ task[t] \in Record
  BY <1>1 DEF Record
<1> USE DEF TypeInv
<1>4. CASE StartSubtask(t)
  <2>1. CASE task' = [task EXCEPT ![t].at = "loaded", ![t].seen = row.status]
    <3> DEFINE x == task[t]
               v == row.status
    <3>1. v \in Statuses /\ x \in Record /\ "loaded" \in Phases
      BY <1>1, <1>3 DEF Rows, Phases
    <3>2. task' = [task EXCEPT ![t] = [x EXCEPT !.at = "loaded", !.seen = v]]
      BY <1>1, <2>1
    <3> HIDE DEF x, v
    <3>3. [x EXCEPT !.at = "loaded", !.seen = v] \in Record
      BY <3>1 DEF Record
    <3>4. Only(t)
      BY <1>1, <3>2, <3>3 DEF Only
    <3> QED BY <1>1, <1>2, <1>4, <3>4, TypeFromParts DEF StartSubtask
  <2>2. CASE Finish(t) \/ Move(t, "draining") \/ Move(t, "working")
    <3>1. Only(t)
      BY <1>1, <2>2, MoveFacts, FinishFacts DEF Phases
    <3> QED BY <1>1, <1>2, <1>4, <3>1, TypeFromParts DEF StartSubtask
  <2> QED BY <1>4, <2>1, <2>2 DEF StartSubtask
<1>5. CASE MarkSummary(t)
  <2> DEFINE x == task[t]
  <2>1. x \in Record /\ "working" \in Phases
    BY <1>3 DEF Phases
  <2>2. task' = [task EXCEPT ![t] = [x EXCEPT !.at = "working", !.text = chunks]]
    BY <1>1, <1>5 DEF MarkSummary
  <2> HIDE DEF x
  <2>3. [x EXCEPT !.at = "working", !.text = chunks] \in Record
    BY <1>1, <2>1 DEF Record
  <2>4. Only(t)
    BY <1>1, <2>2, <2>3 DEF Only
  <2>5. row' \in Rows
    BY <1>1, <1>3, <1>5, RowFacts DEF MarkSummary
  <2> QED BY <1>1, <1>2, <1>5, <2>4, <2>5, TypeFromParts DEF MarkSummary
<1>6. CASE WorkEnds(t)
  <2>1. Only(t)
    BY <1>1, <1>6, MoveFacts DEF WorkEnds, Phases
  <2> QED BY <1>1, <1>2, <1>6, <2>1, TypeFromParts DEF WorkEnds
<1>7. CASE SaveSummary(t) \/ WorkFails(t)
  <2>1. Only(t)
    BY <1>1, <1>7, MoveFacts, RequeueFacts DEF SaveSummary, WorkFails, Phases
  <2>2. row' \in Rows
    BY <1>1, <1>3, <1>7, RowFacts DEF SaveSummary, WorkFails
  <2> QED BY <1>1, <1>2, <1>7, <2>1, <2>2, TypeFromParts DEF SaveSummary, WorkFails
<1>8. CASE Decrement(t) \/ Promote(t)
  <2>1. Only(t) /\ row' \in Rows
    BY <1>1, <1>8, FinalizeType
  <2> QED BY <1>1, <1>2, <1>8, <2>1, TypeFromParts DEF Decrement, Promote
<1> QED BY <1>4, <1>5, <1>6, <1>7, <1>8 DEF SubStep

\* The queue: what it does to a task that ended, died or was stopped.
LEMMA QueueType ==
  ASSUME TypeInv, NEW t \in Tasks, Acknowledge(t) \/ Stop(t) \/ Crash(t),
         UNCHANGED <<setting, request, sweep>>, crashes' \in 0 .. MaxCrash
  PROVE  TypeInv'
<1>1. Only(t) /\ task'[t].at \notin Held
  BY EndFacts, RequeueFacts, RecordFacts DEF TypeInv, Acknowledge, Stop, Crash, Held
<1>2. HeldOK' /\ AskedOK'
  BY <1>1, TaskFacts DEF TypeInv, HeldOK, AskedOK, Only
<1>3. UNCHANGED <<row, attempt, chunks, index, pendingImages>>
  BY DEF Acknowledge, Stop, Crash
<1>4. TypeOK'
  BY <1>1, <1>3 DEF TypeInv, TypeOK, Only, Record
<1> QED BY <1>2, <1>4 DEF TypeInv

\* What a request does to the tasks it finds.
LEMMA DequeuedFacts ==
  ASSUME TypeOK, NEW t \in Tasks
  PROVE  \/ Dequeued(t) = task[t]
         \/ /\ task[t].at = "queued" /\ Dequeued(t) = Ended
         \/ /\ Running(t) /\ "signal" \in setting
            /\ Dequeued(t) = [task[t] EXCEPT !.signalled = TRUE]
BY DEF Dequeued

LEMMA RequestType ==
  ASSUME TypeInv, RequestStep
  PROVE  TypeInv'
<1> DEFINE Kinds == {"cancel", "delete", "reparse"} \cup {None}
           Ats == {"idle", "write", "dequeue", "open", "clean", "zero", "enqueue", "remove"}
<1>1. /\ TypeOK
      /\ row \in Rows /\ attempt \in 0 .. MaxAttempt /\ chunks \subseteq Attempts
      /\ index \subseteq Attempts
      /\ task \in [Tasks -> Record]
      /\ request \in [kind : Kinds, at : Ats, seen : Statuses, made : SUBSET Requests]
      /\ UNCHANGED <<setting, sweep, crashes, pendingImages>>
  BY DEF TypeInv, TypeOK, Rows, Record, Requests, RequestStep, Ask, WriteStatus, Dequeue,
         OpenAttempt, CleanResources, RemoveRow, ResetCount, EnqueueReparse
<1>2. ASSUME request' \in [kind : Kinds, at : Ats, seen : Statuses, made : SUBSET Requests],
             request'.at # "idle" => request'.kind \in Requests, row' \in Rows, attempt' \in 0 .. MaxAttempt, chunks' \subseteq Attempts,
             index' \subseteq Attempts, task' \in [Tasks -> Record]
      PROVE  TypeOK' /\ AskedOK'
  BY <1>1, <1>2 DEF TypeOK, Rows, Record, Requests, AskedOK
<1>3. UNCHANGED task => HeldOK'
  BY DEF TypeInv, HeldOK
<1>4. ASSUME NEW at \in Ats, Reached(at) \/ Answered
      PROVE  /\ request' \in [kind : Kinds, at : Ats, seen : Statuses, made : SUBSET Requests]
             /\ request'.at # "idle" /\ request.at # "idle" => request'.kind \in Requests
  <2>1. "pending" \in Statuses /\ "idle" \in Ats /\ None \in Kinds
    BY DEF Statuses
  <2> HIDE DEF Kinds, Ats
  <2> QED BY <1>1, <1>4, <2>1 DEF Reached, Answered, TypeInv, AskedOK
<1> USE DEF TypeInv
<1>5. ASSUME NEW kind \in Requests, Ask(kind) PROVE TypeInv'
  <2> DEFINE first == CASE kind = "cancel" -> CancelKnowledgeParse
                        [] kind = "delete" -> DeleteKnowledge
                        [] kind = "reparse" -> ReparseKnowledge
             k == IF first = "idle" THEN None ELSE kind
             n == IF first = "idle" THEN "pending" ELSE row.status
  <2>1. first \in Ats
    BY <1>5 DEF CancelKnowledgeParse, DeleteKnowledge, ReparseKnowledge, Requests
  <2>2. k \in Kinds /\ n \in Statuses
    BY <1>1 DEF Requests, Rows, Statuses
  <2>3. request' = [kind |-> k, at |-> first, seen |-> n, made |-> request.made \cup {kind}]
    BY <1>5 DEF Ask
  <2> HIDE DEF k, n, first, Kinds, Ats
  <2>4. request' \in [kind : Kinds, at : Ats, seen : Statuses, made : SUBSET Requests]
           /\ (request'.at # "idle" => request'.kind \in Requests)
    BY <1>1, <1>5, <2>1, <2>2, <2>3 DEF k
  <2>5. UNCHANGED <<row, attempt, chunks, index, task>>
    BY <1>5 DEF Ask
  <2> QED BY <1>1, <1>2, <1>3, <2>4, <2>5
<1>6. CASE WriteStatus
  <2> USE DEF Requests, AskedOK
  <2>1. row' \in Rows
    <3>1. [status |-> "cancelled", count |-> 0] \in Rows
      BY Sizes DEF Rows, Statuses
    <3> QED BY <1>1, <1>6, <3>1, RowFacts DEF WriteStatus, Written, Statuses
  <2>2. request' \in [kind : Kinds, at : Ats, seen : Statuses, made : SUBSET Requests]
           /\ (request'.at # "idle" => request'.kind \in Requests)
    BY <1>1, <1>4, <1>6 DEF WriteStatus
  <2> QED BY <1>1, <1>2, <1>3, <1>6, <2>1, <2>2 DEF WriteStatus
<1>7. CASE Dequeue
  <2>1. ASSUME NEW t \in Tasks
        PROVE  /\ Dequeued(t) \in Record
               /\ Dequeued(t).at \in Held =>
                     Dequeued(t).at = task[t].at /\ Dequeued(t).attempt = task[t].attempt
    <3> DEFINE x == task[t]
    <3>1. x \in Record
      BY <1>1
    <3> HIDE DEF x
    <3>2. LET y == [x EXCEPT !.signalled = TRUE]
          IN y \in Record /\ y.at = x.at /\ y.attempt = x.attempt
      BY <3>1 DEF Record
    <3> QED BY <1>1, <3>1, <3>2, DequeuedFacts, RecordFacts DEF x, Held
  <2>2. task' = [t \in Tasks |-> Dequeued(t)]
    BY <1>7 DEF Dequeue
  <2> USE DEF Requests, AskedOK
  <2>3. HeldOK'
    <3> SUFFICES ASSUME NEW d \in Documents, task'[d].at \in Held
                 PROVE  task'[d].attempt \in Attempts
      BY DEF HeldOK
    <3>1. d \in Tasks /\ task'[d] = Dequeued(d)
      BY <2>2, TaskFacts
    <3> QED BY <2>1, <3>1 DEF HeldOK
  <2>4. request' \in [kind : Kinds, at : Ats, seen : Statuses, made : SUBSET Requests]
           /\ (request'.at # "idle" => request'.kind \in Requests)
    BY <1>1, <1>4, <1>7 DEF Dequeue
  <2> QED BY <1>1, <1>2, <1>7, <2>1, <2>2, <2>3, <2>4 DEF Dequeue
<1>8. CASE OpenAttempt \/ CleanResources
  <2>1. request' \in [kind : Kinds, at : Ats, seen : Statuses, made : SUBSET Requests]
           /\ (request'.at # "idle" => request'.kind \in Requests)
    BY <1>1, <1>4, <1>8 DEF OpenAttempt, CleanResources
  <2> QED BY <1>1, <1>2, <1>3, <1>8, <2>1 DEF OpenAttempt, CleanResources
<1>9. CASE RemoveRow \/ ResetCount
  <2>1. request' \in [kind : Kinds, at : Ats, seen : Statuses, made : SUBSET Requests]
           /\ (request'.at # "idle" => request'.kind \in Requests)
    BY <1>1, <1>4, <1>9 DEF RemoveRow, ResetCount
  <2>2. row' \in Rows
    BY <1>1, <1>9, Sizes DEF RemoveRow, ResetCount, Written, Rows, Statuses
  <2> QED BY <1>1, <1>2, <1>3, <1>9, <2>1, <2>2 DEF RemoveRow, ResetCount
<1>10. CASE EnqueueReparse
  <2>1. request' \in [kind : Kinds, at : Ats, seen : Statuses, made : SUBSET Requests]
           /\ (request'.at # "idle" => request'.kind \in Requests)
    BY <1>1, <1>4, <1>10 DEF EnqueueReparse
  <2>2. CASE UNCHANGED task /\ UpdateKnowledge("failed")
    BY <1>1, <1>2, <1>3, <1>10, <2>1, <2>2, RowFacts DEF EnqueueReparse, Statuses
  <2>3. CASE UNCHANGED row /\ task' = [task EXCEPT ![Document(2)]
                                         = [Queued EXCEPT !.attempt = attempt]]
    <3> DEFINE x == [Queued EXCEPT !.attempt = attempt]
    <3>1. x \in Record /\ x.at \notin Held
      BY <1>1, RecordFacts DEF Record, Held
    <3> HIDE DEF x
    <3>2. task' = [task EXCEPT ![Document(2)] = x]
      BY <2>3 DEF x
    <3>3. task' \in [Tasks -> Record] /\ HeldOK'
      BY <1>1, <3>1, <3>2, TaskFacts DEF HeldOK
    <3> QED BY <1>1, <1>2, <1>10, <2>1, <2>3, <3>3 DEF EnqueueReparse
  <2> QED BY <1>10, <2>2, <2>3 DEF EnqueueReparse
<1> QED BY <1>5, <1>6, <1>7, <1>8, <1>9, <1>10 DEF RequestStep

LEMMA SweepType ==
  ASSUME TypeInv, SweepStep
  PROVE  TypeInv'
<1>1. row \in Rows
  BY DEF TypeInv, TypeOK, Rows
<1>2. ASSUME NEW kind \in {"drained", "stale", "stuck"}, Recover(kind) PROVE row' \in Rows
  <2>1. [status |-> "completed", count |-> 0] \in Rows /\ [status |-> "failed", count |-> 0] \in Rows
    BY Sizes DEF Rows, Statuses
  <2>2. [row EXCEPT !.status = "completed"] \in Rows
    BY <1>1 DEF Rows, Statuses
  <2> QED BY <1>1, <1>2, <2>1, <2>2 DEF Recover, Written
<1>3. row' \in Rows /\ sweep' \in {"none", "drained", "stale", "stuck"}
  BY <1>1, <1>2 DEF SweepStep, Sweep, ApplySweep, TypeInv, TypeOK
<1>4. UNCHANGED <<setting, attempt, chunks, index, pendingImages, task, request, crashes>>
  BY DEF SweepStep
<1> QED BY <1>3, <1>4 DEF TypeInv, TypeOK, HeldOK, AskedOK, Rows

LEMMA TypeStep ==
  ASSUME TypeInv, [Next]_vars
  PROVE  TypeInv'
<1>1. CASE TaskStep
  <2>1. UNCHANGED <<setting, request, sweep, crashes>> /\ crashes' \in 0 .. MaxCrash
    BY <1>1 DEF TaskStep, TypeInv, TypeOK
  <2> QED BY <1>1, <2>1, DocumentType, ImageType, PostType, SubType, QueueType DEF TaskStep
<1>2. CASE CrashStep
  <2>1. UNCHANGED <<setting, request, sweep>> /\ crashes' \in 0 .. MaxCrash
    BY <1>2 DEF CrashStep, Crash, TypeInv, TypeOK
  <2> QED BY <1>2, <2>1, QueueType DEF CrashStep
<1>3. CASE UNCHANGED vars
  BY <1>3 DEF vars, TypeInv, TypeOK, HeldOK, AskedOK
<1> QED BY <1>1, <1>2, <1>3, RequestType, SweepType DEF Next

LEMMA TypeInit == Init => TypeInv
<1> SUFFICES ASSUME Init PROVE TypeInv
  OBVIOUS
<1>1. Fresh \in Record /\ Queued \in Record /\ Fresh.at \notin Held /\ Queued.at \notin Held
  BY RecordFacts DEF Fresh, Held
<1>2. task \in [Tasks -> Record] /\ \A t \in Tasks : task[t].at \notin Held
  <2> DEFINE f == [t \in Tasks |-> Fresh]
  <2>1. task = [f EXCEPT ![Document(1)] = Queued]
    BY DEF Init
  <2> QED BY <1>1, <2>1
<1>3. [status |-> "pending", count |-> 0] \in Rows
  BY Sizes DEF Rows, Statuses
<1>4. HeldOK
  BY <1>2, TaskFacts DEF HeldOK
<1> QED BY <1>2, <1>3, <1>4, Sizes DEF Init, TypeInv, TypeOK, AskedOK, Rows, Record, Statuses

\* The row, the counters, the tasks and the requests keep their types, and the
\* counters stay within what was fanned out.
THEOREM TypeCorrect == Spec => []TypeOK
<1>1. TypeInv => TypeOK
  BY DEF TypeInv
<1> QED BY <1>1, TypeInit, TypeStep, PTL DEF Spec

-----------------------------------------------------------------------------
(* Who is active with whom, as long as no worker dies and users wait before  *)
(* they reparse.                                                             *)

Steady == Without({"crash", "impatient"})
Reparsing == request.kind = "reparse" /\ request.at # "idle"
Untouched == \A u \in Others : u.run = attempt => task[u].at = "none"

\* The steps of a request follow from its kind.
RequestOK ==
  request.at # "idle" =>
    /\ request.kind \in Requests \cap setting
    /\ request.kind = "cancel" => request.at \in {"write", "dequeue"}
    /\ request.kind = "delete" => request.at \in {"write", "dequeue", "clean", "remove"}
    /\ request.kind = "reparse" =>
         request.at \in {"dequeue", "open", "clean", "write", "zero", "enqueue"}

FanPhases == {"fanning", "releasing", "promoting"}
PhaseFits(t) ==
  /\ t \in Documents => task[t].at \in {"none", "queued", "loaded", "done"} \cup Held
  /\ t \in ImageTasks => task[t].at \in {"none", "queued", "running", "counting", "done"}
  /\ t \in PostTasks => task[t].at \in {"none", "queued", "listing", "completing", "seeding",
                                        "done"} \cup FanPhases
  /\ t \in SubTasks => /\ task[t].at \in {"none", "queued", "loaded", "working", "saving",
                                          "draining", "promoting", "done"}
                       /\ task[t].short = 0
PhaseOK == \A t \in Tasks : PhaseFits(t) /\ (Free(t) => ~task[t].signalled)

\* A document task works alone, on an attempt that nothing else has worked
\* for; the other tasks work for the latest attempt.
AloneOK ==
  /\ \A d \in Documents : ~Free(d) => (\A u \in Tasks \ {d} : Free(u)) /\ Untouched
  /\ \A d \in Documents : task[d].at \in Held => task[d].attempt = attempt
  /\ ~Free(Document(2)) => task[Document(2)].attempt = attempt /\ attempt > 0
  /\ \A u \in Others : /\ ~Free(u) => u.run = attempt
                       /\ u.run > attempt => task[u].at = "none"
  /\ Reparsing => \A t \in Tasks : Free(t)
  /\ Reparsing /\ request.at \in {"clean", "write", "zero", "enqueue"} =>
       Untouched /\ attempt > 0

\* The row is seeded once in an attempt, by one post-process task, before any
\* subtask is there: from then on nobody takes it back to processing.
Fanned == \E s \in SubTasks : s.run = attempt /\ task[s].at # "none"
Fanning == \E p \in PostTasks : task[p].at \in FanPhases
Saves(s) == task[s].at \in {"loaded", "saving"} \/ (task[s].at = "working" /\ s.item = Summary)
Early == {"pending", "processing"}
Savable == {"finalizing", "completed", "failed"}
FanOK ==
  /\ Fanned \/ Fanning => row.status \notin Early
  /\ \A p, q \in PostTasks : task[p].at \in FanPhases /\ task[q].at \in FanPhases => p = q
  /\ (\E p \in PostTasks : task[p].at = "fanning") => ~Fanned
  /\ \A s \in SubTasks : Saves(s) => task[s].seen \in Savable

Base == PhaseOK /\ AloneOK /\ FanOK

LEMMA RequestKept ==
  ASSUME TypeInv, RequestOK, [Next]_vars
  PROVE  RequestOK'
<1>1. ASSUME NEW kind \in Requests, Ask(kind) PROVE RequestOK' \/ setting' # setting
  <2> DEFINE first == CASE kind = "cancel" -> CancelKnowledgeParse
                        [] kind = "delete" -> DeleteKnowledge
                        [] kind = "reparse" -> ReparseKnowledge
             k == IF first = "idle" THEN None ELSE kind
             n == IF first = "idle" THEN "pending" ELSE row.status
  <2>1. /\ kind = "cancel" => first \in {"idle", "write", "dequeue"}
        /\ kind = "delete" => first \in {"idle", "write"}
        /\ kind = "reparse" => first \in {"idle", "dequeue"}
    BY DEF CancelKnowledgeParse, DeleteKnowledge, ReparseKnowledge
  <2>2. request' = [kind |-> k, at |-> first, seen |-> n, made |-> request.made \cup {kind}]
    BY <1>1 DEF Ask
  <2>3. first = "idle" \/ k = kind
    OBVIOUS
  <2>4. kind \in setting
    BY <1>1 DEF Ask
  <2>5. request'.kind = k /\ request'.at = first
    BY <2>2
  <2> HIDE DEF n, first, k
  <2> QED BY <2>1, <2>3, <2>4, <2>5 DEF RequestOK, Requests
<1>2. request \in [kind : Requests \cup {None}, at : {"idle", "write", "dequeue", "open",
                    "clean", "zero", "enqueue", "remove"}, seen : Statuses,
                    made : SUBSET Requests]
  BY DEF TypeInv, TypeOK
<1>3. CASE RequestStep
  <2>1. setting' = setting
    BY <1>3 DEF RequestStep
  <2>2. ASSUME WriteStatus \/ Dequeue \/ OpenAttempt \/ CleanResources \/ RemoveRow
               \/ ResetCount \/ EnqueueReparse
        PROVE RequestOK'
    BY <1>2, <2>1, <2>2
       DEF RequestOK, Requests, WriteStatus, Dequeue, OpenAttempt, CleanResources, RemoveRow,
           ResetCount, EnqueueReparse, Reached, Answered
  <2> QED BY <1>1, <1>3, <2>1, <2>2 DEF RequestStep
<1>4. CASE UNCHANGED <<request, setting>>
  BY <1>4 DEF RequestOK
<1> QED BY <1>3, <1>4 DEF Next, TaskStep, CrashStep, SweepStep, vars

\* What the steps of one task have in common.
Local(t) ==
  /\ ~Free(t) /\ Only(t) /\ UNCHANGED <<setting, attempt, request>>
  /\ task'[t].at # "none"
  /\ PhaseFits(t)' /\ (Free(t)' => ~task'[t].signalled)
  /\ t \in Documents => /\ task'[t].at \in Held => task'[t].attempt = attempt
                        /\ t = Document(2) /\ ~Free(t)' => task'[t].attempt = attempt
  /\ row'.status \in Early => row.status \in Early \/ t \in Documents
  /\ t \in PostTasks =>
       /\ task'[t].at \in FanPhases =>
            task[t].at \in FanPhases \/ (row.status = "processing" /\ row'.status \notin Early)
       /\ task'[t].at = "fanning" => task[t].at = "fanning" \/ row.status = "processing"
  /\ t \in SubTasks /\ Saves(t)' => task'[t].seen \in Savable

LEMMA LocalBase ==
  ASSUME TypeInv, Base, NEW t \in Tasks, Local(t)
  PROVE  Base'
<1>1. /\ \A u \in Tasks \ {t} : task'[u] = task[u]
      /\ attempt' = attempt /\ request' = request /\ ~Free(t) /\ task'[t].at # "none"
  BY DEF Local, Only
<1>2. \A u \in Tasks \ {t} : (PhaseFits(u) => PhaseFits(u)') /\ (Free(u)' <=> Free(u))
                             /\ (Saves(u)' <=> Saves(u))
  BY <1>1 DEF PhaseFits, Free, Saves
<1>3. PhaseOK'
  BY <1>1, <1>2 DEF Base, PhaseOK, Local
<1>4. t \in Others => t.run = attempt
  BY <1>1 DEF Base, AloneOK
<1>5. t \in Documents => /\ \A u \in Tasks \ {t} : Free(u)
                         /\ Untouched /\ ~Fanned
                         /\ \A p \in PostTasks : task[p].at \notin FanPhases
  <2> SUFFICES ASSUME t \in Documents
               PROVE  /\ \A u \in Tasks \ {t} : Free(u)
                      /\ Untouched /\ ~Fanned
                      /\ \A p \in PostTasks : task[p].at \notin FanPhases
    OBVIOUS
  <2>1. (\A u \in Tasks \ {t} : Free(u)) /\ Untouched
    BY <1>1 DEF Base, AloneOK
  <2>2. \A u \in PostTasks \cup SubTasks : u \in Others /\ u # t /\ u \in Tasks
    BY TaskFacts DEF Others
  <2> QED BY <2>1, <2>2 DEF Untouched, Fanned, Free, Idle, FanPhases
<1>6. AloneOK'
  <2>1. ~Reparsing
    BY <1>1, TaskFacts DEF Base, AloneOK
  <2>2. \A d \in Documents : ~Free(d)' => (\A u \in Tasks \ {d} : Free(u)') /\ Untouched'
    <3> SUFFICES ASSUME NEW d \in Documents, ~Free(d)'
                 PROVE  (\A u \in Tasks \ {d} : Free(u)') /\ Untouched'
      OBVIOUS
    <3>1. d \in Tasks
      BY TaskFacts
    <3>2. t = d
      <4> SUFFICES ASSUME t # d PROVE FALSE
        OBVIOUS
      <4>1. ~Free(d)
        BY <1>2, <3>1
      <4> QED BY <1>1, <3>1, <4>1 DEF Base, AloneOK
    <3>3. \A u \in Others : task'[u] = task[u]
      BY <1>1, <3>2 DEF Others
    <3> QED BY <1>1, <1>2, <1>5, <3>2, <3>3 DEF Untouched
  <2>3. \A d \in Documents : task'[d].at \in Held => task'[d].attempt = attempt'
    BY <1>1, TaskFacts DEF Base, AloneOK, Local
  <2>4. ~Free(Document(2))' => task'[Document(2)].attempt = attempt' /\ attempt' > 0
    BY <1>1, <1>2, TaskFacts DEF Base, AloneOK, Local
  <2>5. \A u \in Others : /\ ~Free(u)' => u.run = attempt'
                          /\ u.run > attempt' => task'[u].at = "none"
    <3> SUFFICES ASSUME NEW u \in Others
                 PROVE  /\ ~Free(u)' => u.run = attempt
                        /\ u.run > attempt => task'[u].at = "none"
      BY <1>1
    <3>1. u \in Tasks /\ u.run \in Nat /\ attempt \in Nat
      BY RunFacts DEF Attempts, TypeInv, TypeOK
    <3>2. CASE u = t
      BY <1>4, <3>1, <3>2
    <3>3. CASE u # t
      BY <1>1, <1>2, <3>1, <3>3 DEF Base, AloneOK
    <3> QED BY <3>2, <3>3
  <2> QED BY <1>1, <2>1, <2>2, <2>3, <2>4, <2>5 DEF AloneOK, Reparsing
<1>7. FanOK'
  <2>1. CASE t \in Documents
    <3>1. \A u \in Others : task'[u] = task[u]
      BY <1>1, <2>1 DEF Others
    <3>2. \A u \in PostTasks \cup SubTasks : u \in Others
      BY TaskFacts DEF Others
    <3> QED BY <1>1, <1>5, <2>1, <3>1, <3>2 DEF Base, FanOK, Fanned, Fanning, Saves, FanPhases
  <2>2. CASE t \in ImageTasks
    <3>1. \A u \in PostTasks \cup SubTasks : task'[u] = task[u]
      BY <1>1, <2>2, TaskFacts
    <3>2. row'.status \in Early => row.status \in Early
      BY <2>2, TaskFacts DEF Local
    <3> QED BY <1>1, <3>1, <3>2 DEF Base, FanOK, Fanned, Fanning, Saves
  <2>3. CASE t \in PostTasks
    <3>1. \A u \in SubTasks : task'[u] = task[u]
      BY <1>1, <2>3, TaskFacts
    <3>2. \A u \in PostTasks \ {t} : task'[u] = task[u]
      BY <1>1, TaskFacts
    <3>3. row'.status \in Early => row.status \in Early
      BY <2>3, TaskFacts DEF Local
    <3>4. /\ task'[t].at \in FanPhases =>
               task[t].at \in FanPhases \/ (row.status = "processing" /\ row'.status \notin Early)
          /\ task'[t].at = "fanning" => task[t].at = "fanning" \/ row.status = "processing"
      BY <2>3 DEF Local
    <3>5. row.status = "processing" => ~Fanned /\ ~Fanning
      BY DEF Base, FanOK, Early
    <3>6. Fanned' <=> Fanned
      BY <1>1, <3>1 DEF Fanned
    <3>7. Fanning' => Fanning \/ (row.status = "processing" /\ row'.status \notin Early)
      BY <3>2, <3>4, <2>3 DEF Fanning
    <3>8. \A p, q \in PostTasks :
             task'[p].at \in FanPhases /\ task'[q].at \in FanPhases => p = q
      BY <3>2, <3>4, <3>5 DEF Base, FanOK, Fanning
    <3>9. (\E p \in PostTasks : task'[p].at = "fanning") => ~Fanned'
      BY <3>2, <3>4, <3>5, <3>6 DEF Base, FanOK, Fanning
    <3>10. \A s \in SubTasks : Saves(s)' => task'[s].seen \in Savable
      BY <3>1 DEF Base, FanOK, Saves
    <3> QED BY <3>3, <3>6, <3>7, <3>8, <3>9, <3>10 DEF Base, FanOK
  <2>4. CASE t \in SubTasks
    <3>1. \A u \in PostTasks : task'[u] = task[u]
      BY <1>1, <2>4, TaskFacts
    <3>2. \A u \in SubTasks \ {t} : task'[u] = task[u]
      BY <1>1, TaskFacts
    <3>3. row'.status \in Early => row.status \in Early
      BY <2>4, TaskFacts DEF Local
    <3>4. t \in Others
      BY <2>4, TaskFacts DEF Others
    <3>5. Fanned /\ Fanned'
      BY <1>1, <1>4, <2>4, <3>4 DEF Fanned, Free, Idle
    <3>6. \A s \in SubTasks : Saves(s)' => task'[s].seen \in Savable
      BY <2>4, <3>2 DEF Base, FanOK, Saves, Local
    <3> QED BY <3>1, <3>3, <3>5, <3>6 DEF Base, FanOK, Fanning
  <2> QED BY <2>1, <2>2, <2>3, <2>4, TaskFacts
<1> QED BY <1>3, <1>6, <1>7 DEF Base

\* The queue's own steps.
LEMMA QueueLocal ==
  ASSUME TypeInv, Steady, Base, NEW t \in Tasks, Acknowledge(t) \/ Stop(t),
         UNCHANGED <<setting, request>>
  PROVE  Local(t)
<1>1. ~Free(t)
  BY DEF Acknowledge, Stop, Base, PhaseOK, Free, Idle
<1>2. UNCHANGED <<row, attempt>>
  BY DEF Acknowledge, Stop
<1>3. CASE End(t)
  <2>1. Only(t) /\ task'[t] = Ended
    BY <1>3, EndFacts DEF TypeInv
  <2> QED BY <1>1, <1>2, <2>1
          DEF Local, PhaseFits, Free, Idle, Ended, Fresh, Held, FanPhases, Saves
<1>4. CASE Requeue(t)
  <2>1. /\ Only(t) /\ task'[t].at = "queued" /\ task'[t].short = 0
        /\ t \in Documents => task'[t].attempt = Payload(t)
        /\ task'[t].signalled = FALSE
    BY <1>4, RequeueFacts DEF TypeInv
  <2>2. t = Document(2) => Payload(t) = attempt
    BY <1>1, PayloadFacts DEF TypeInv, Base, AloneOK
  <2> QED BY <1>1, <1>2, <2>1, <2>2
          DEF Local, PhaseFits, Free, Idle, Held, FanPhases, Saves
<1> QED BY <1>3, <1>4 DEF Acknowledge, Stop

\* The steps of a document task that leave the attempt and the other tasks
\* alone.
LEMMA DocumentLocal ==
  ASSUME TypeInv, Steady, Base, NEW t \in Documents, DocumentStep(t), ~EnqueueNext(t),
         UNCHANGED <<setting, request>>, attempt' = attempt
  PROVE  Local(t)
<1>1. /\ TypeOK /\ t \in Tasks /\ t \notin ImageTasks /\ t \notin PostTasks /\ t \notin SubTasks
      /\ "crash" \notin setting /\ PhaseFits(t)
  BY TaskFacts DEF TypeInv, Steady, Without, Base, PhaseOK
<1>2. task[t].at \in {"queued", "loaded"} \cup Held
  BY DEF DocumentStep, StartDocument, MarkProcessing, ConvertFails, Reject, CleanUp,
         CheckBeforeWrite, WriteChunks, CheckBeforeIndex, BatchIndex, BatchIndexFails,
         CheckAfterIndex, FinishIndexing, EnqueueNext, Held
<1>3. ~Free(t) /\ (task[t].at \in Held \/ t = Document(2) => task[t].attempt = attempt)
  BY <1>2 DEF Free, Idle, Held, Base, AloneOK
<1>4. t = Document(2) => Payload(t) = attempt
  BY <1>1, <1>3, PayloadFacts
<1>5. ASSUME Only(t), task'[t].at \in {"queued", "loaded", "done"} \cup Held,
             Free(t)' => ~task'[t].signalled,
             task'[t].at \in Held => task'[t].attempt = attempt,
             t = Document(2) /\ task'[t].at # "done" => task'[t].attempt = attempt
      PROVE  Local(t)
  BY <1>1, <1>3, <1>5 DEF Local, PhaseFits, Free, Idle, Held
<1>6. ASSUME NEW at \in {"loaded"} \cup Held, Move(t, at), task[t].at \in Held \/ at = "loaded"
      PROVE  Local(t)
  <2>1. Only(t) /\ task'[t].at = at /\ task'[t].attempt = task[t].attempt
    BY <1>1, <1>6, MoveFacts DEF Held, Phases
  <2>2. ~Free(t)'
    BY <1>6, <2>1 DEF Free, Idle, Held
  <2> QED BY <1>3, <1>5, <1>6, <2>1, <2>2 DEF Held
<1>7. ASSUME End(t) \/ Finish(t) \/ Requeue(t)
      PROVE  Local(t)
  <2>1. CASE End(t)
    BY <1>1, <1>5, <2>1, EndFacts DEF Ended, Fresh, Held
  <2>2. CASE Finish(t)
    BY <1>1, <1>5, <2>2, FinishFacts DEF Held
  <2>3. CASE Requeue(t)
    BY <1>1, <1>4, <1>5, <2>3, RequeueFacts DEF Held, Free, Idle
  <2> QED BY <1>7, <2>1, <2>2, <2>3
<1>8. CASE StartDocument(t)
  BY <1>6, <1>7, <1>8 DEF StartDocument
<1>9. CASE MarkProcessing(t)
  <2>1. Payload(t) # 0 /\ Only(t) /\ task'[t].at = "marked"
           /\ task'[t].attempt = task[t].attempt
    <3>1. attempt \in Nat
      BY DEF TypeInv, TypeOK
    <3>2. Payload(t) # 0
      BY <1>9, <3>1 DEF MarkProcessing
    <3> QED BY <1>9, <3>2, MarkFacts
  <2>2. t = Document(2)
    BY <1>1, <2>1, PayloadFacts, TaskFacts
  <2> QED BY <1>3, <1>5, <2>1, <2>2 DEF Held, Free, Idle
<1>10. CASE ConvertFails(t) \/ Reject(t) \/ BatchIndexFails(t)
  BY <1>7, <1>10 DEF ConvertFails, Reject, BatchIndexFails
<1>11. CASE CleanUp(t) \/ CheckBeforeWrite(t) \/ CheckBeforeIndex(t) \/ CheckAfterIndex(t)
  BY <1>6, <1>7, <1>11
     DEF CleanUp, CheckBeforeWrite, CheckBeforeIndex, CheckAfterIndex, Held
<1>12. CASE WriteChunks(t) \/ BatchIndex(t) \/ FinishIndexing(t)
  BY <1>6, <1>12 DEF WriteChunks, BatchIndex, FinishIndexing, Held
<1> QED BY <1>8, <1>9, <1>10, <1>11, <1>12 DEF DocumentStep

LEMMA ImageLocal ==
  ASSUME TypeInv, Steady, Base, NEW t \in ImageTasks,
         StartImage(t) \/ ImageEnds(t) \/ ImageFails(t), UNCHANGED <<setting, request>>
  PROVE  Local(t)
<1>1. TypeOK /\ t \in Tasks /\ t \notin Documents /\ t \notin PostTasks /\ t \notin SubTasks
  BY TaskFacts DEF TypeInv
<1>2. ~Free(t) /\ UNCHANGED <<row, attempt>>
  BY DEF StartImage, ImageEnds, ImageFails, Free, Idle
<1>3. Only(t) /\ task'[t].at \in {"running", "counting", "queued"}
  BY <1>1, MoveFacts, RequeueFacts DEF StartImage, ImageEnds, ImageFails, Phases
<1> QED BY <1>1, <1>2, <1>3 DEF Local, PhaseFits, Free, Idle

\* The two statements of FinalizeSubtask, of a post-process task and of a
\* subtask.
LEMMA FinalizeLocal ==
  ASSUME TypeInv, Steady, Base, NEW t \in PostTasks \cup SubTasks, Decrement(t) \/ Promote(t),
         UNCHANGED <<setting, request>>
  PROVE  Local(t)
<1>1. /\ TypeOK /\ t \in Tasks /\ t \notin Documents /\ t \notin ImageTasks
      /\ t \in SubTasks <=> t \notin PostTasks
      /\ PhaseFits(t) /\ "crash" \notin setting
  BY TaskFacts DEF TypeInv, Base, PhaseOK, Steady, Without
<1>2. ~Free(t) /\ attempt' = attempt
  BY DEF Decrement, Promote, Free, Idle
<1>3. row'.status \in Early => row.status \in Early
  BY DEF Decrement, Promote, Written, Early, TypeInv, TypeOK
<1>4. task'[t].at \in FanPhases /\ t \in PostTasks => task[t].at \in FanPhases
  BY <1>1 DEF Decrement, Promote, PhaseFits, FanPhases, Held
<1>5. CASE Decrement(t)
  <2>1. Only(t) /\ task'[t].at = "promoting" /\ task'[t].short = task[t].short
    BY <1>1, <1>5, MoveFacts DEF Decrement, Phases
  <2> QED BY <1>1, <1>2, <1>3, <1>4, <2>1
          DEF Local, PhaseFits, Free, Idle, FanPhases, Saves
<1>6. CASE Promote(t)
  <2>1. CASE task[t].short > 1
    <3>1. t \in PostTasks /\ task[t].at = "promoting"
      BY <1>1, <1>6, <2>1 DEF PhaseFits, Promote
    <3>2. Only(t)
      BY <1>1, <1>6, FinalizeType
    <3>3. task'[t].at = "releasing"
      BY <1>1, <1>6, <2>1 DEF Promote, TypeOK
    <3> QED BY <1>1, <1>2, <1>3, <3>1, <3>2, <3>3
            DEF Local, PhaseFits, Free, Idle, FanPhases
  <2>2. CASE ~(task[t].short > 1)
    <3>1. Only(t) /\ task'[t].at = "done" /\ ~task'[t].signalled /\ task'[t].short = 0
      BY <1>1, <1>6, <2>2, FinishFacts DEF Promote
    <3> QED BY <1>1, <1>2, <1>3, <3>1
            DEF Local, PhaseFits, Free, Idle, FanPhases, Saves
  <2> QED BY <2>1, <2>2
<1> QED BY <1>5, <1>6

LEMMA PostLocal ==
  ASSUME TypeInv, Steady, Base, NEW t \in PostTasks, PostStep(t), ~FanOut(t),
         UNCHANGED <<setting, request>>
  PROVE  Local(t)
<1>1. /\ TypeOK /\ t \in Tasks /\ t \notin Documents /\ t \notin ImageTasks /\ t \notin SubTasks
      /\ "crash" \notin setting /\ PhaseFits(t)
  BY TaskFacts DEF TypeInv, Steady, Without, Base, PhaseOK
<1>2. ASSUME ~Free(t), Only(t), UNCHANGED <<setting, request, attempt>>,
             task'[t].at \in {"queued", "listing", "completing", "seeding", "done"},
             Free(t)' => ~task'[t].signalled,
             row'.status \in Early => row.status \in Early
      PROVE  Local(t)
  BY <1>1, <1>2 DEF Local, PhaseFits, Free, Idle, FanPhases
<1>3. ASSUME End(t) \/ Finish(t) \/ Requeue(t)
      PROVE  /\ Only(t) /\ task'[t].at \in {"queued", "done"}
             /\ ~task'[t].signalled
  BY <1>1, <1>3, EndFacts, FinishFacts, RequeueFacts DEF Ended, Fresh
<1>4. CASE StartPost(t) \/ ListChunks(t)
  <2>1. \/ Finish(t)
        \/ Only(t) /\ task'[t].at \in {"listing", "completing", "seeding"}
    BY <1>1, <1>4, MoveFacts DEF StartPost, ListChunks, Phases
  <2>2. ~Free(t) /\ UNCHANGED <<row, attempt>>
    BY <1>4 DEF StartPost, ListChunks, Free, Idle
  <2> QED BY <1>2, <1>3, <2>1, <2>2 DEF Free, Idle
<1>5. CASE PostFails(t) \/ CompleteEmpty(t)
  <2>1. ~Free(t) /\ UNCHANGED attempt /\ (End(t) \/ Finish(t) \/ Requeue(t))
    BY <1>5 DEF PostFails, CompleteEmpty, Free, Idle
  <2>2. row'.status \in Early => row.status \in Early
    BY <1>1, <1>5, RowFacts DEF PostFails, CompleteEmpty, Statuses, Early
  <2> QED BY <1>2, <1>3, <2>1, <2>2
<1>6. CASE SetFinalizing(t)
  <2>1. ~Free(t) /\ UNCHANGED attempt
    BY <1>6 DEF SetFinalizing, Free, Idle
  <2>2. CASE row.status = "processing"
    <3>1. Only(t) /\ task'[t].at = "fanning" /\ row'.status = "finalizing"
      BY <1>1, <1>6, <2>2, MoveFacts DEF SetFinalizing, Phases
    <3> QED BY <1>1, <2>1, <2>2, <3>1 DEF Local, PhaseFits, Free, Idle, FanPhases, Early
  <2>3. CASE row.status # "processing"
    BY <1>2, <1>3, <1>6, <2>1, <2>3 DEF SetFinalizing
  <2> QED BY <2>2, <2>3
<1> QED BY <1>4, <1>5, <1>6, FinalizeLocal DEF PostStep

LEMMA SubLocal ==
  ASSUME TypeInv, Steady, Base, NEW t \in SubTasks, SubStep(t), UNCHANGED <<setting, request>>
  PROVE  Local(t)
<1>1. /\ TypeOK /\ t \in Tasks /\ t \notin Documents /\ t \notin ImageTasks /\ t \notin PostTasks
      /\ "crash" \notin setting /\ PhaseFits(t) /\ t \in Others
      /\ task[t].seen \in Statuses
  BY TaskFacts DEF TypeInv, TypeOK, Steady, Without, Base, PhaseOK, Others
<1>2. ~Free(t) => row.status \notin Early
  BY <1>1 DEF Base, AloneOK, FanOK, Fanned, Free, Idle
<1>3. ASSUME ~Free(t), Only(t), UNCHANGED attempt, task'[t].short = 0,
             task'[t].at \in {"queued", "loaded", "working", "saving", "draining", "done"},
             Free(t)' => ~task'[t].signalled,
             row'.status \notin Early,
             Saves(t)' => task'[t].seen \in Savable
      PROVE  Local(t)
  BY <1>1, <1>3 DEF Local, PhaseFits, Free, Idle
<1>4. CASE StartSubtask(t)
  <2>1. ~Free(t) /\ UNCHANGED <<row, attempt>>
    BY <1>4 DEF StartSubtask, Free, Idle
  <2>2. CASE Finish(t)
    BY <1>1, <1>2, <1>3, <2>1, <2>2, FinishFacts DEF Saves
  <2>3. CASE Move(t, "draining") \/ (t.item # Summary /\ Move(t, "working"))
    <3>1. /\ Only(t) /\ task'[t].at \in {"draining", "working"}
          /\ task'[t].short = task[t].short /\ ~Saves(t)'
      BY <1>1, <2>3, MoveFacts DEF Phases, Saves
    <3> QED BY <1>1, <1>2, <1>3, <2>1, <3>1 DEF PhaseFits, Free, Idle
  <2>4. CASE task' = [task EXCEPT ![t].at = "loaded", ![t].seen = row.status]
    <3>1. Only(t)
      <4> DEFINE x == task[t]
                 v == row.status
      <4>1. v \in Statuses /\ x \in Record /\ "loaded" \in Phases /\ task \in [Tasks -> Record]
        BY <1>1 DEF TypeOK, Record, Phases
      <4>2. task' = [task EXCEPT ![t] = [x EXCEPT !.at = "loaded", !.seen = v]]
        BY <1>1, <2>4, <4>1
      <4> HIDE DEF x, v
      <4>3. [x EXCEPT !.at = "loaded", !.seen = v] \in Record
        BY <4>1 DEF Record
      <4> QED BY <4>1, <4>2, <4>3 DEF Only
    <3>2. task'[t].at = "loaded" /\ task'[t].seen = row.status /\ task'[t].short = task[t].short
      BY <1>1, <2>4 DEF TypeOK
    <3>3. row.status \in Savable \/ Aborted \/ Finish(t)
      BY <1>1, <1>2, <2>1 DEF Savable, Early, Statuses, Aborted, TypeOK
    <3>4. Superseded(t) => Finish(t)
      BY <1>4 DEF StartSubtask
    <3>5. ~Superseded(t) /\ Aborted => Move(t, "draining")
      BY <1>4 DEF StartSubtask
    <3>6. Finish(t) \/ Move(t, "draining") => Local(t)
      BY <2>2, <2>3
    <3> QED BY <1>1, <1>2, <1>3, <2>1, <3>1, <3>2, <3>3, <3>4, <3>5, <3>6 DEF PhaseFits, Free, Idle
  <2> QED BY <1>4, <2>2, <2>3, <2>4 DEF StartSubtask
<1>5. CASE MarkSummary(t)
  <2>1. ~Free(t) /\ Saves(t) /\ UNCHANGED attempt
    BY <1>5 DEF MarkSummary, Free, Idle, Saves
  <2>2. task[t].seen \in Savable /\ row'.status \notin Early
    BY <1>1, <1>2, <1>5, <2>1, RowFacts DEF MarkSummary, Base, FanOK, Early, Savable, Statuses
  <2>3. Only(t)
    <3> DEFINE x == task[t]
    <3>1. x \in Record /\ "working" \in Phases /\ task \in [Tasks -> Record]
             /\ chunks \subseteq Attempts
      BY <1>1 DEF TypeOK, Record, Phases
    <3>2. task' = [task EXCEPT ![t] = [x EXCEPT !.at = "working", !.text = chunks]]
      BY <1>1, <1>5, <3>1 DEF MarkSummary
    <3> HIDE DEF x
    <3>3. [x EXCEPT !.at = "working", !.text = chunks] \in Record
      BY <3>1 DEF Record
    <3> QED BY <3>1, <3>2, <3>3 DEF Only
  <2>4. /\ task'[t].at = "working" /\ task'[t].seen = task[t].seen
        /\ task'[t].short = task[t].short
    BY <1>1, <1>5 DEF MarkSummary, TypeOK
  <2> QED BY <1>1, <1>3, <2>1, <2>2, <2>3, <2>4 DEF PhaseFits, Free, Idle
<1>6. CASE WorkEnds(t)
  <2>1. ~Free(t) /\ UNCHANGED <<row, attempt>> /\ task[t].at = "working"
    BY <1>6 DEF WorkEnds, Free, Idle
  <2>2. /\ Only(t) /\ task'[t].at \in {"saving", "draining"}
        /\ task'[t].at = "saving" => t.item = Summary
        /\ task'[t].seen = task[t].seen /\ task'[t].short = task[t].short
    BY <1>1, <1>6, MoveFacts DEF WorkEnds, Phases
  <2>3. Saves(t)' => task'[t].seen \in Savable
    BY <1>1, <2>1, <2>2 DEF Saves, Base, FanOK
  <2> QED BY <1>1, <1>2, <1>3, <2>1, <2>2, <2>3 DEF PhaseFits, Free, Idle
<1>7. CASE SaveSummary(t)
  <2>1. ~Free(t) /\ UNCHANGED attempt /\ Saves(t)
    BY <1>7 DEF SaveSummary, Free, Idle, Saves
  <2>2. /\ Only(t) /\ task'[t].at = "draining" /\ task'[t].short = task[t].short
    BY <1>1, <1>7, MoveFacts DEF SaveSummary, Phases
  <2>3. row'.status \notin Early
    BY <1>1, <1>2, <1>7, <2>1, RowFacts DEF SaveSummary, Base, FanOK, Early, Savable, Statuses
  <2> QED BY <1>1, <1>3, <2>1, <2>2, <2>3 DEF PhaseFits, Free, Idle, Saves
<1>8. CASE WorkFails(t)
  <2>1. ~Free(t) /\ UNCHANGED attempt /\ (t.item = Summary => Saves(t))
    BY <1>8 DEF WorkFails, Free, Idle, Saves
  <2>2. Only(t) /\ task'[t].at = "queued" /\ task'[t].short = 0
    BY <1>1, <1>8, RequeueFacts DEF WorkFails
  <2>3. row'.status \notin Early
    BY <1>1, <1>2, <1>8, <2>1, RowFacts DEF WorkFails, Base, FanOK, Early, Savable, Statuses
  <2> QED BY <1>1, <1>3, <2>1, <2>2, <2>3 DEF Free, Idle, Saves
<1> QED BY <1>4, <1>5, <1>6, <1>7, <1>8, FinalizeLocal DEF SubStep

\* The tasks that are idle with a document task, or with any other.
LEMMA IdleFacts ==
  ASSUME TypeInv, Base
  PROVE  /\ \A d \in Documents : ~Free(d) =>
               /\ \A u \in Tasks \ {d} : Free(u)
               /\ Untouched /\ ~Fanned /\ ~Fanning /\ ~Reparsing
         /\ (\E u \in Others : ~Free(u)) => (\A d \in Documents : Free(d)) /\ ~Reparsing
         /\ \A u \in PostTasks \cup SubTasks \cup ImageTasks : u \in Others /\ u \in Tasks
<1>1. \A u \in PostTasks \cup SubTasks \cup ImageTasks : u \in Others /\ u \in Tasks
  BY TaskFacts DEF Others
<1>2. \A u \in Others : u \in Tasks /\ u \notin Documents
  BY DEF Others
<1>3. ASSUME NEW d \in Documents, ~Free(d)
      PROVE  /\ \A u \in Tasks \ {d} : Free(u)
             /\ Untouched /\ ~Fanned /\ ~Fanning /\ ~Reparsing
  <2>1. (\A u \in Tasks \ {d} : Free(u)) /\ Untouched /\ d \in Tasks
    BY <1>3, TaskFacts DEF Base, AloneOK
  <2>2. ~Reparsing
    BY <1>3, <2>1 DEF Base, AloneOK
  <2>3. ~Fanned
    BY <1>1, <2>1 DEF Untouched, Fanned
  <2>4. ~Fanning
    BY <1>1, <1>2, <1>3, <2>1 DEF Fanning, FanPhases, Free, Idle
  <2> QED BY <2>1, <2>2, <2>3, <2>4
<1>4. ASSUME NEW u \in Others, ~Free(u)
      PROVE  (\A d \in Documents : Free(d)) /\ ~Reparsing
  BY <1>2, <1>4 DEF Base, AloneOK
<1> QED BY <1>1, <1>3, <1>4

\* A new attempt finds nothing that works for it.
LEMMA NewAttempt ==
  ASSUME TypeInv, Base, attempt' = attempt + 1
  PROVE  \A u \in Others : u.run >= attempt' => task[u].at = "none"
<1> SUFFICES ASSUME NEW u \in Others, u.run >= attempt' PROVE task[u].at = "none"
  OBVIOUS
<1>1. u.run \in Nat /\ attempt \in Nat
  BY RunFacts DEF Attempts, TypeInv, TypeOK
<1> QED BY <1>1 DEF Base, AloneOK

LEMMA OpeningBase ==
  ASSUME TypeInv, Steady, Base, NEW t \in Documents, MarkProcessing(t), attempt' # attempt,
         UNCHANGED <<setting, request>>
  PROVE  Base'
<1>1. /\ Only(t) /\ task'[t].at = "marked" /\ task'[t].attempt = attempt' /\ t \in Tasks
      /\ attempt' = attempt + 1 /\ attempt \in Nat /\ Payload(t) = 0
      /\ task'[t].signalled = task[t].signalled
  <2>1. Payload(t) = 0 /\ attempt' = attempt + 1 /\ attempt \in Nat
    BY DEF MarkProcessing, TypeInv, TypeOK
  <2> QED BY <2>1, MarkFacts, TaskFacts
<1>2. ~Free(t) /\ \A u \in Tasks \ {t} : Free(u) /\ task'[u] = task[u]
  <2>1. ~Free(t)
    BY DEF MarkProcessing, Free, Idle
  <2> QED BY <1>1, <2>1, IdleFacts DEF Only
<1>3. \A u \in Others : u.run >= attempt' => task'[u].at = "none"
  BY <1>1, <1>2, NewAttempt DEF Others
<1>4. t # Document(2)
  <2>1. t = Document(2) => Payload(t) = attempt /\ attempt > 0
    BY <1>2, PayloadFacts, TaskFacts DEF TypeInv, Base, AloneOK
  <2> QED BY <1>1, <2>1
<1>5. PhaseOK'
  <2>1. \A u \in Tasks \ {t} : PhaseFits(u)' /\ (Free(u)' => ~task'[u].signalled)
    BY <1>2 DEF Base, PhaseOK, PhaseFits, Free
  <2>2. PhaseFits(t)' /\ ~Free(t)'
    BY <1>1, TaskFacts DEF PhaseFits, Free, Idle, Held
  <2> QED BY <2>1, <2>2 DEF PhaseOK
<1>6. AloneOK'
  <2>1. \A u \in Tasks \ {t} : Free(u)'
    BY <1>2 DEF Free
  <2>2. Untouched'
    BY <1>1, <1>3, RunFacts DEF Untouched, Attempts
  <2>3. ~Reparsing'
    BY <1>2, IdleFacts DEF Reparsing
  <2>4. \A d \in Documents : ~Free(d)' => (\A u \in Tasks \ {d} : Free(u)') /\ Untouched'
    BY <2>1, <2>2, TaskFacts
  <2>5. \A d \in Documents : task'[d].at \in Held => task'[d].attempt = attempt'
    BY <1>1, <2>1, TaskFacts DEF Free, Idle, Held
  <2>6. Free(Document(2))'
    BY <1>4, <2>1, TaskFacts
  <2>7. \A u \in Others : /\ ~Free(u)' => u.run = attempt'
                          /\ u.run > attempt' => task'[u].at = "none"
    BY <1>1, <1>3, <2>1, RunFacts DEF Others, Attempts
  <2> QED BY <2>3, <2>4, <2>5, <2>6, <2>7 DEF AloneOK
<1>7. FanOK'
  <2>1. \A u \in PostTasks \cup SubTasks : Free(u)' /\ (u.run = attempt' => task'[u].at = "none")
    BY <1>1, <1>2, <1>3, IdleFacts, TaskFacts DEF Free, Attempts
  <2> QED BY <2>1 DEF FanOK, Fanned, Fanning, FanPhases, Saves, Free, Idle
<1> QED BY <1>5, <1>6, <1>7 DEF Base

LEMMA EnqueueFacts ==
  ASSUME TypeInv, Steady, Base, NEW t \in Documents, EnqueueNext(t)
  PROVE  LET next == IF Pictures = {} THEN {Post(attempt, None)}
                     ELSE {Image(attempt, i) : i \in Pictures}
         IN /\ t \in Tasks /\ task[t].attempt = attempt /\ attempt \in Attempts
            /\ next \subseteq Others
            /\ (Pictures = {} => next \subseteq PostTasks)
            /\ (Pictures # {} => next \subseteq ImageTasks)
            /\ \A u \in next : u.run = attempt
            /\ task'[t].at = "done" /\ ~task'[t].signalled
            /\ \E refused \in SUBSET next :
                 /\ "enqueue" \notin setting => refused = {}
                 /\ \A u \in next \ refused : task'[u] = Queued
                 /\ \A u \in Tasks : u # t /\ u \notin next \ refused => task'[u] = task[u]
<1> DEFINE next == IF Pictures = {} THEN {Post(attempt, None)}
                   ELSE {Image(attempt, i) : i \in Pictures}
           z == [Finished EXCEPT !.tries = task[t].tries, !.attempt = attempt]
<1>1. t \in Tasks /\ task[t].attempt = attempt /\ attempt \in Attempts
  BY TaskFacts DEF EnqueueNext, TypeInv, HeldOK, Held, Base, AloneOK
<1>2. /\ Pictures = {} => next \subseteq PostTasks
      /\ Pictures # {} => next \subseteq ImageTasks
      /\ \A u \in next : u.run = attempt
  BY <1>1, TaskFacts DEF Pictures
<1>3. next \subseteq Others /\ t \notin next
  BY <1>2, IdleFacts DEF Others
<1>4. PICK refused \in Refused(next) :
             task' = [u \in Tasks |-> CASE u = t -> z
                                        [] u \in next \ refused -> Queued
                                        [] OTHER -> task[u]]
  <2> DEFINE a == task[t].attempt
             now == IF Pictures = {} THEN {Post(a, None)} ELSE {Image(a, i) : i \in Pictures}
             y == [Finished EXCEPT !.tries = task[t].tries, !.attempt = a]
  <2>1. \E refused \in Refused(now) :
             task' = [u \in Tasks |-> CASE u = t -> y
                                        [] u \in now \ refused -> Queued
                                        [] OTHER -> task[u]]
    BY DEF EnqueueNext
  <2>2. now = next /\ y = z
    BY <1>1
  <2> HIDE DEF now, next, y, z
  <2> QED BY <2>1, <2>2
<1>5. refused \in SUBSET next /\ ("enqueue" \notin setting => refused = {})
  BY DEF Refused
<1>6. z.at = "done" /\ ~z.signalled
  <2>1. "crash" \notin setting
    BY DEF Steady, Without
  <2>2. Finished \in Record /\ Finished.at = "done" /\ Finished.signalled = FALSE
    BY <2>1, FinishedFacts
  <2>3. \A x \in Record : LET y == [x EXCEPT !.tries = task[t].tries, !.attempt = attempt]
                          IN y.at = x.at /\ y.signalled = x.signalled
    BY DEF Record
  <2> QED BY <2>2, <2>3
<1> HIDE DEF next, z
<1>7. task'[t] = z
  BY <1>1, <1>3, <1>4
<1>8. \A u \in next \ refused : task'[u] = Queued
  BY <1>3, <1>4 DEF Others
<1>9. \A u \in Tasks : u # t /\ u \notin next \ refused => task'[u] = task[u]
  BY <1>4
<1> QED BY <1>1, <1>2, <1>3, <1>5, <1>6, <1>7, <1>8, <1>9 DEF next

\* What all the hand-overs have in common: the tasks that are queued work for
\* the latest attempt and were idle or new.
LEMMA HandOver ==
  ASSUME TypeInv, Base, NEW t \in Tasks, NEW Q \in SUBSET Others,
         ~Free(t), t \notin Q, UNCHANGED <<setting, attempt, request>>,
         t \in Others => t.run = attempt,
         \A u \in Q : u.run = attempt /\ task'[u] = Queued,
         \A u \in Tasks : u # t /\ u \notin Q => task'[u] = task[u],
         PhaseFits(t)', Free(t)' => ~task'[t].signalled, task'[t].at # "none",
         t \in Documents => task'[t].at = "done"
  PROVE  PhaseOK' /\ AloneOK'
<1>1. \A u \in Q : u \in Tasks /\ u \notin Documents
  BY DEF Others
<1>2. \A u \in Q : task'[u].at = "queued" /\ task'[u].short = 0
  BY DEF Queued, Fresh
<1>3. PhaseOK'
  <2>1. \A u \in Q : PhaseFits(u)' /\ ~Free(u)'
    BY <1>1, <1>2 DEF PhaseFits, Free, Idle
  <2>2. \A u \in Tasks : u # t /\ u \notin Q => PhaseFits(u)' /\ (Free(u)' => ~task'[u].signalled)
    BY DEF Base, PhaseOK, PhaseFits, Free
  <2> QED BY <2>1, <2>2 DEF PhaseOK
<1>4. \A d \in Documents : Free(d)'
  <2> SUFFICES ASSUME NEW d \in Documents PROVE Free(d)'
    OBVIOUS
  <2>1. d \in Tasks /\ d \notin Q
    BY <1>1, TaskFacts
  <2>2. CASE d = t
    BY <2>2 DEF Free, Idle
  <2>3. CASE d # t
    <3>1. Free(d)
      BY <2>1, <2>3, IdleFacts DEF Others
    <3> QED BY <2>1, <2>3, <3>1 DEF Free
  <2> QED BY <2>2, <2>3
<1>5. ~Reparsing'
  BY IdleFacts DEF Others, Reparsing
<1>6. \A u \in Others : /\ ~Free(u)' => u.run = attempt'
                        /\ u.run > attempt' => task'[u].at = "none"
  <2> SUFFICES ASSUME NEW u \in Others
               PROVE  /\ ~Free(u)' => u.run = attempt
                      /\ u.run > attempt => task'[u].at = "none"
    OBVIOUS
  <2>1. u \in Tasks /\ u.run \in Nat /\ attempt \in Nat
    BY RunFacts DEF Attempts, TypeInv, TypeOK
  <2>2. CASE u = t \/ u \in Q
    BY <2>1, <2>2
  <2>3. CASE u # t /\ u \notin Q
    BY <2>1, <2>3 DEF Base, AloneOK, Free
  <2> QED BY <2>2, <2>3
<1>7. AloneOK'
  BY <1>4, <1>5, <1>6, TaskFacts DEF AloneOK, Free, Idle, Held
<1> QED BY <1>3, <1>7

LEMMA EnqueueBase ==
  ASSUME TypeInv, Steady, Base, NEW t \in Documents, EnqueueNext(t),
         UNCHANGED <<setting, request>>
  PROVE  Base'
<1> DEFINE next == IF Pictures = {} THEN {Post(attempt, None)}
                   ELSE {Image(attempt, i) : i \in Pictures}
<1>1. PICK refused \in SUBSET next :
                 /\ \A u \in next \ refused : task'[u] = Queued
                 /\ \A u \in Tasks : u # t /\ u \notin next \ refused => task'[u] = task[u]
  BY EnqueueFacts
<1>2. /\ next \subseteq Others /\ t \in Tasks /\ task'[t].at = "done" /\ ~task'[t].signalled
      /\ \A u \in next : u.run = attempt
      /\ next \cap SubTasks = {}
  BY EnqueueFacts, TaskFacts
<1>3. ~Free(t) /\ attempt' = attempt /\ row' = row
  BY DEF EnqueueNext, Free, Idle
<1> HIDE DEF next
<1>4. PhaseFits(t)'
  BY <1>2, TaskFacts DEF PhaseFits
<1>5. PhaseOK' /\ AloneOK'
  <2> DEFINE Q == next \ refused
  <2>1. Q \in SUBSET Others /\ t \notin Q /\ t \notin Others
    BY <1>2 DEF Others
  <2>2. \A u \in Q : u.run = attempt /\ task'[u] = Queued
    BY <1>1, <1>2
  <2>3. \A u \in Tasks : u # t /\ u \notin Q => task'[u] = task[u]
    BY <1>1
  <2> HIDE DEF Q
  <2> QED BY <1>2, <1>3, <1>4, <2>1, <2>2, <2>3, HandOver
<1>6. FanOK'
  <2>1. ~Fanned /\ ~Fanning /\ \A u \in Tasks \ {t} : Free(u)
    BY <1>3, IdleFacts
  <2>2. \A s \in SubTasks : task'[s] = task[s] /\ Free(s)
    BY <1>1, <1>2, <2>1, IdleFacts DEF Others
  <2>3. \A p \in PostTasks : task'[p].at \notin FanPhases
    BY <1>1, <1>2, <2>1, IdleFacts DEF Others, Fanning, Queued, Fresh, FanPhases
  <2> QED BY <1>3, <2>1, <2>2, <2>3 DEF FanOK, Fanned, Fanning, FanPhases, Saves, Free, Idle
<1> QED BY <1>5, <1>6 DEF Base

LEMMA CountFacts ==
  ASSUME TypeInv, Steady, Base, NEW t \in ImageTasks, CountImage(t)
  PROVE  LET next == Post(attempt, t.item)
         IN /\ t \in Tasks /\ ~Free(t) /\ t.run = attempt /\ next \in PostTasks
            /\ next.run = attempt /\ Free(next)
            /\ task'[t].at = "done" /\ ~task'[t].signalled
            /\ \A u \in Tasks : u # t /\ u # next => task'[u] = task[u]
            /\ \/ task'[next] = task[next]
               \/ /\ task'[next] = Queued
                  /\ \/ "redis" \in setting
                     \/ "lite" \in setting
                     \/ pendingImages <= 1
            /\ Without({"redis", "lite", "enqueue"}) /\ pendingImages <= 1 => task'[next] = Queued
            /\ Without({"redis", "lite"}) =>
                 pendingImages' = IF pendingImages = 0 THEN 0 ELSE pendingImages - 1
<1> DEFINE next == Post(t.run, t.item)
           z == [Finished EXCEPT !.tries = task[t].tries]
           counts == "lite" \notin setting
           Starts == pendingImages <= 1 \/ ~counts
<1>1. t \in Tasks /\ t \in Others /\ ~Free(t) /\ t.run = attempt
  <2>1. t \in Tasks /\ t \in Others /\ ~Free(t)
    BY IdleFacts DEF CountImage, Free, Idle
  <2> QED BY <2>1 DEF Base, AloneOK
<1>2. next \in PostTasks /\ next.run = attempt /\ next \in Tasks /\ next # t /\ Free(next)
        /\ next = Post(attempt, t.item)
  BY <1>1, TaskFacts DEF CountImage
<1>3. PICK refused \in Refused({next}), failed \in IF "redis" \in setting THEN BOOLEAN ELSE {FALSE} :
             /\ task' = [task EXCEPT ![t] = z,
                                     ![next] = IF (failed \/ Starts) /\ refused = {} THEN Queued ELSE @]
             /\ pendingImages' = IF failed \/ ~counts \/ pendingImages = 0 THEN pendingImages
                                 ELSE pendingImages - 1
  BY DEF CountImage
<1>4. z.at = "done" /\ ~z.signalled
  <2>1. "crash" \notin setting
    BY DEF Steady, Without
  <2>2. Finished \in Record /\ Finished.at = "done" /\ Finished.signalled = FALSE
    BY <2>1, FinishedFacts
  <2>3. \A x \in Record : LET y == [x EXCEPT !.tries = task[t].tries]
                          IN y.at = x.at /\ y.signalled = x.signalled
    BY DEF Record
  <2>4. z.at = Finished.at /\ z.signalled = Finished.signalled
    BY <2>2, <2>3
  <2> QED BY <2>2, <2>4
<1>5. "enqueue" \notin setting => refused = {}
  BY DEF Refused
<1>6. task \in [Tasks -> Record] /\ pendingImages \in Nat
  BY DEF TypeInv, TypeOK, Record
<1>7. ~failed \/ "redis" \in setting
  OBVIOUS
<1> HIDE DEF next, z
<1>8. /\ task'[t] = z
      /\ \A u \in Tasks : u # t /\ u # next => task'[u] = task[u]
      /\ task'[next] = IF (failed \/ Starts) /\ refused = {} THEN Queued ELSE task[next]
  BY <1>1, <1>2, <1>3, <1>6
<1>9. \/ task'[next] = task[next]
      \/ /\ task'[next] = Queued
         /\ "redis" \in setting \/ "lite" \in setting \/ pendingImages <= 1
  BY <1>7, <1>8
<1>10. Without({"redis", "lite", "enqueue"}) /\ pendingImages <= 1 => task'[next] = Queued
  BY <1>5, <1>8 DEF Without
<1>11. Without({"redis", "lite"}) =>
          pendingImages' = IF pendingImages = 0 THEN 0 ELSE pendingImages - 1
  BY <1>3, <1>6, <1>7 DEF Without
<1> QED BY <1>1, <1>2, <1>4, <1>8, <1>9, <1>10, <1>11

LEMMA CountBase ==
  ASSUME TypeInv, Steady, Base, NEW t \in ImageTasks, CountImage(t),
         UNCHANGED <<setting, request>>
  PROVE  Base'
<1> DEFINE next == Post(attempt, t.item)
<1>1. /\ t \in Tasks /\ ~Free(t) /\ t.run = attempt /\ next \in PostTasks
      /\ next.run = attempt /\ Free(next)
      /\ task'[t].at = "done" /\ ~task'[t].signalled
      /\ \A u \in Tasks : u # t /\ u # next => task'[u] = task[u]
      /\ task'[next] = task[next] \/ task'[next] = Queued
  BY CountFacts
<1>2. attempt' = attempt /\ row' = row
  BY DEF CountImage
<1> HIDE DEF next
<1>3. t \in Others /\ next \in Others /\ next \in Tasks /\ t # next
  BY <1>1, IdleFacts, TaskFacts
<1>4. PhaseOK' /\ AloneOK'
  <2> DEFINE Q == IF task'[next] = task[next] THEN {} ELSE {next}
  <2>1. Q \in SUBSET Others /\ t \notin Q /\ \A u \in Q : u.run = attempt /\ task'[u] = Queued
    BY <1>1, <1>3
  <2>2. \A u \in Tasks : u # t /\ u \notin Q => task'[u] = task[u]
    BY <1>1
  <2>3. PhaseFits(t)' /\ t \notin Documents
    BY <1>1, TaskFacts DEF PhaseFits
  <2> HIDE DEF Q
  <2> QED BY <1>1, <1>2, <2>1, <2>2, <2>3, HandOver
<1>5. FanOK'
  <2>1. \A s \in SubTasks : task'[s] = task[s]
    BY <1>1, TaskFacts
  <2>2. \A p \in PostTasks : task'[p].at = task[p].at \/ task'[p].at = "queued"
    BY <1>1, TaskFacts DEF Queued, Fresh
  <2>3. Fanning' => Fanning
    BY <2>2 DEF Fanning, FanPhases
  <2>4. Fanned' <=> Fanned
    BY <1>2, <2>1 DEF Fanned
  <2>5. \A p \in PostTasks : task'[p].at \in FanPhases => task'[p].at = task[p].at
    BY <2>2 DEF FanPhases
  <2> QED BY <1>2, <2>1, <2>3, <2>4, <2>5 DEF Base, FanOK, Saves, FanPhases
<1> QED BY <1>4, <1>5 DEF Base

LEMMA FanOutFacts ==
  ASSUME TypeInv, Steady, Base, NEW t \in PostTasks, FanOut(t)
  PROVE  LET subs == {Sub(attempt, s) : s \in Subtasks}
         IN /\ t \in Tasks /\ ~Free(t) /\ t.run = attempt /\ attempt \in Attempts
            /\ subs \subseteq SubTasks /\ \A u \in subs : u.run = attempt
            /\ \E refused \in SUBSET subs :
                 /\ "enqueue" \notin setting => refused = {}
                 /\ \A u \in subs \ refused : task'[u] = Queued
                 /\ \A u \in Tasks : u # t /\ u \notin subs \ refused => task'[u] = task[u]
                 /\ refused = {} => /\ task'[t].at = "done" /\ ~task'[t].signalled
                                    /\ task'[t].short = 0
                 /\ refused # {} => /\ task'[t].at = "releasing"
                                    /\ task'[t].short = Cardinality(refused)
                                    /\ task'[t].signalled = task[t].signalled
<1> DEFINE subs == {Sub(t.run, s) : s \in Subtasks}
           z == [Finished EXCEPT !.tries = task[t].tries]
           y(r) == [task[t] EXCEPT !.at = "releasing", !.short = Cardinality(r)]
<1>1. t \in Tasks /\ t \in Others /\ ~Free(t) /\ t.run = attempt /\ t.run \in Attempts
  <2>1. t \in Tasks /\ t \in Others /\ ~Free(t)
    BY IdleFacts DEF FanOut, Free, Idle
  <2> QED BY <2>1, TaskFacts DEF Base, AloneOK
<1>2. subs \subseteq SubTasks /\ (\A u \in subs : u.run = t.run) /\ t \notin subs
  BY <1>1, TaskFacts
<1>3. PICK refused \in Refused(subs) :
             task' = [u \in Tasks |->
                        CASE u = t /\ refused = {} -> z
                          [] u = t /\ refused # {} -> y(refused)
                          [] u \in subs \ refused -> Queued
                          [] OTHER -> task[u]]
  BY DEF FanOut
<1>4. refused \in SUBSET subs /\ ("enqueue" \notin setting => refused = {})
  BY DEF Refused
<1>5. z.at = "done" /\ ~z.signalled /\ z.short = 0
  <2>1. "crash" \notin setting
    BY DEF Steady, Without
  <2>2. /\ Finished \in Record /\ Finished.at = "done" /\ Finished.signalled = FALSE
        /\ Finished.short = 0
    BY <2>1, FinishedFacts
  <2>3. \A x \in Record : LET w == [x EXCEPT !.tries = task[t].tries]
                          IN w.at = x.at /\ w.signalled = x.signalled /\ w.short = x.short
    BY DEF Record
  <2>4. z.at = Finished.at /\ z.signalled = Finished.signalled /\ z.short = Finished.short
    BY <2>2, <2>3
  <2> QED BY <2>2, <2>4
<1>6. LET w == y(refused)
      IN w.at = "releasing" /\ w.short = Cardinality(refused) /\ w.signalled = task[t].signalled
  <2> DEFINE x == task[t]
             n == Cardinality(refused)
  <2>1. x \in Record
    BY <1>1 DEF TypeInv, TypeOK, Record
  <2> HIDE DEF x, n
  <2>2. LET w == [x EXCEPT !.at = "releasing", !.short = n]
        IN w.at = "releasing" /\ w.short = n /\ w.signalled = x.signalled
    BY <2>1 DEF Record
  <2> QED BY <2>2 DEF x, n
<1> HIDE DEF subs, z, y
<1>7. (refused = {} => task'[t] = z)
  BY <1>1, <1>2, <1>3
<1>8. refused # {} => task'[t] = y(refused)
  BY <1>1, <1>2, <1>3
<1>9. \A u \in subs \ refused : task'[u] = Queued
  BY <1>2, <1>3, TaskFacts
<1>10. \A u \in Tasks : u # t /\ u \notin subs \ refused => task'[u] = task[u]
  BY <1>3
<1> QED BY <1>1, <1>2, <1>4, <1>5, <1>6, <1>7, <1>8, <1>9, <1>10 DEF subs

LEMMA FanOutBase ==
  ASSUME TypeInv, Steady, Base, NEW t \in PostTasks, FanOut(t),
         UNCHANGED <<setting, request>>
  PROVE  Base'
<1> DEFINE subs == {Sub(attempt, s) : s \in Subtasks}
<1>1. PICK refused \in SUBSET subs :
                 /\ \A u \in subs \ refused : task'[u] = Queued
                 /\ \A u \in Tasks : u # t /\ u \notin subs \ refused => task'[u] = task[u]
                 /\ refused = {} => task'[t].at = "done" /\ ~task'[t].signalled
                 /\ refused # {} => task'[t].at = "releasing"
  BY FanOutFacts
<1>2. /\ t \in Tasks /\ ~Free(t) /\ t.run = attempt
      /\ subs \subseteq SubTasks /\ \A u \in subs : u.run = attempt
  BY FanOutFacts
<1>3. attempt' = attempt /\ row' = row /\ task[t].at = "fanning"
  BY DEF FanOut
<1> HIDE DEF subs
<1>4. t \in Others /\ t \notin subs /\ subs \subseteq Others /\ t \notin Documents
  BY <1>2, IdleFacts, TaskFacts DEF Others
<1>5. PhaseOK' /\ AloneOK'
  <2> DEFINE Q == subs \ refused
  <2>1. Q \in SUBSET Others /\ t \notin Q /\ \A u \in Q : u.run = attempt /\ task'[u] = Queued
    BY <1>1, <1>2, <1>4
  <2>2. \A u \in Tasks : u # t /\ u \notin Q => task'[u] = task[u]
    BY <1>1
  <2>3. PhaseFits(t)' /\ (Free(t)' => ~task'[t].signalled) /\ task'[t].at # "none"
    BY <1>1, <1>2, TaskFacts DEF PhaseFits, FanPhases, Free, Idle
  <2> HIDE DEF Q
  <2> QED BY <1>2, <1>3, <1>4, <2>1, <2>2, <2>3, HandOver
<1>6. FanOK'
  <2>1. row.status \notin Early /\ Fanning
    BY <1>3 DEF Base, FanOK, Fanning, FanPhases
  <2>2. \A p \in PostTasks : p # t => task'[p].at \notin FanPhases
    <3> SUFFICES ASSUME NEW p \in PostTasks, p # t PROVE task'[p].at \notin FanPhases
      OBVIOUS
    <3>1. task'[p] = task[p]
      BY <1>1, <1>2, TaskFacts
    <3>2. task[p].at \notin FanPhases
      BY <1>3 DEF Base, FanOK, FanPhases
    <3> QED BY <3>1, <3>2
  <2>3. task'[t].at # "fanning"
    BY <1>1
  <2>4. \A s \in SubTasks : Saves(s)' => task'[s].seen \in Savable
    <3> SUFFICES ASSUME NEW s \in SubTasks, Saves(s)' PROVE task'[s].seen \in Savable
      OBVIOUS
    <3>1. s \in Tasks /\ s # t
      BY TaskFacts
    <3>2. s \notin subs \ refused
      BY <1>1 DEF Saves, Queued, Fresh
    <3>3. task'[s] = task[s]
      BY <1>1, <3>1, <3>2
    <3> QED BY <3>3 DEF Base, FanOK, Saves
  <2> QED BY <1>3, <2>1, <2>2, <2>3, <2>4 DEF FanOK, FanPhases
<1> QED BY <1>5, <1>6 DEF Base

\* Requests and sweeps that touch neither the tasks nor the attempt.
LEMMA RowOnlyBase ==
  ASSUME TypeInv, Base, UNCHANGED <<task, attempt>>,
         row'.status \in Early => row.status \in Early \/ (~Fanned /\ ~Fanning),
         Reparsing' => \A t \in Tasks : Free(t),
         Reparsing' /\ request'.at \in {"clean", "write", "zero", "enqueue"} =>
            Untouched /\ attempt > 0
  PROVE  Base'
<1>1. PhaseOK'
  BY DEF Base, PhaseOK, PhaseFits, Free
<1>2. AloneOK'
  BY DEF Base, AloneOK, Free, Untouched
<1>3. FanOK'
  BY DEF Base, FanOK, Fanned, Fanning, Saves
<1> QED BY <1>1, <1>2, <1>3 DEF Base

LEMMA DequeueFacts ==
  ASSUME TypeInv, Dequeue
  PROVE  /\ \A t \in Tasks :
              /\ \/ /\ task'[t].at = task[t].at /\ task'[t].attempt = task[t].attempt
                    /\ task'[t].seen = task[t].seen /\ task'[t].short = task[t].short
                    /\ Free(t) => task'[t] = task[t]
                 \/ task[t].at = "queued" /\ task'[t] = Ended
              /\ Free(t) => Free(t)'
              /\ ~Free(t)' => /\ ~Free(t) /\ task'[t].at = task[t].at
                              /\ task'[t].attempt = task[t].attempt
                              /\ task'[t].seen = task[t].seen
              /\ task[t].at = "none" <=> task'[t].at = "none"
              /\ "signal" \notin setting /\ ~task[t].signalled => ~task'[t].signalled
         /\ Untouched' <=> Untouched
<1>1. attempt' = attempt /\ task' = [t \in Tasks |-> Dequeued(t)]
  BY DEF Dequeue
<1>2. ASSUME NEW t \in Tasks
      PROVE  /\ \/ /\ task'[t].at = task[t].at /\ task'[t].attempt = task[t].attempt
                   /\ task'[t].seen = task[t].seen /\ task'[t].short = task[t].short
                   /\ Free(t) => task'[t] = task[t]
                \/ task[t].at = "queued" /\ task'[t] = Ended
  <2> DEFINE x == task[t]
  <2>1. x \in Record
    BY DEF TypeInv, TypeOK, Record
  <2>2. LET y == [x EXCEPT !.signalled = TRUE]
        IN y.at = x.at /\ y.attempt = x.attempt /\ y.seen = x.seen /\ y.short = x.short
    <3> HIDE DEF x
    <3> QED BY <2>1 DEF Record
  <2>3. task'[t] = Dequeued(t)
    BY <1>1
  <2>4. CASE Dequeued(t) = task[t]
    BY <2>3, <2>4
  <2>5. CASE task[t].at = "queued" /\ Dequeued(t) = Ended
    BY <2>3, <2>5
  <2>6. CASE Running(t) /\ Dequeued(t) = [x EXCEPT !.signalled = TRUE]
    <3>1. ~Free(t)
      BY <2>6 DEF Running, Free, Idle
    <3> QED BY <2>2, <2>3, <2>6, <3>1
  <2> QED BY <2>4, <2>5, <2>6, DequeuedFacts DEF TypeInv
<1>3. Ended.at = "done" /\ Ended.signalled = FALSE /\ Ended.short = 0
  BY DEF Ended, Fresh
<1>4. \A t \in Tasks : /\ Free(t) => Free(t)'
                       /\ ~Free(t)' => /\ ~Free(t) /\ task'[t].at = task[t].at
                                       /\ task'[t].attempt = task[t].attempt
                                       /\ task'[t].seen = task[t].seen
                       /\ task[t].at = "none" <=> task'[t].at = "none"
  <2> SUFFICES ASSUME NEW t \in Tasks
               PROVE  /\ Free(t) => Free(t)'
                      /\ ~Free(t)' => /\ ~Free(t) /\ task'[t].at = task[t].at
                                      /\ task'[t].attempt = task[t].attempt
                                      /\ task'[t].seen = task[t].seen
                      /\ task[t].at = "none" <=> task'[t].at = "none"
    OBVIOUS
  <2>1. CASE task[t].at = "queued" /\ task'[t] = Ended
    BY <1>3, <2>1 DEF Free, Idle
  <2>2. CASE ~(task[t].at = "queued" /\ task'[t] = Ended)
    <3>1. /\ task'[t].at = task[t].at /\ task'[t].attempt = task[t].attempt
          /\ task'[t].seen = task[t].seen
      BY <1>2, <2>2
    <3> QED BY <3>1 DEF Free
  <2> QED BY <2>1, <2>2
<1>5. Untouched' <=> Untouched
  BY <1>1, <1>4, RunFacts DEF Untouched
<1>6. ASSUME NEW t \in Tasks, "signal" \notin setting, ~task[t].signalled
      PROVE  ~task'[t].signalled
  <2>1. task'[t] = task[t] \/ task'[t] = Ended
    BY <1>1, <1>6, DequeuedFacts DEF TypeInv
  <2> QED BY <1>3, <1>6, <2>1
<1> QED BY <1>2, <1>4, <1>5, <1>6

LEMMA DequeueBase ==
  ASSUME TypeInv, Steady, RequestOK, Base, Dequeue, UNCHANGED setting
  PROVE  Base'
<1>1. /\ attempt' = attempt /\ row' = row /\ task' = [t \in Tasks |-> Dequeued(t)]
      /\ request.at = "dequeue"
      /\ Reparsing' => Reparsing /\ request'.at = "open"
  BY DEF Dequeue, Reparsing, Answered, Reached, RequestOK, Requests, TypeInv, TypeOK
<1>2. \A t \in Tasks :
         /\ \/ /\ task'[t].at = task[t].at /\ task'[t].attempt = task[t].attempt
               /\ task'[t].seen = task[t].seen /\ task'[t].short = task[t].short
               /\ Free(t) => task'[t] = task[t]
            \/ task[t].at = "queued" /\ task'[t] = Ended
         /\ Free(t) => Free(t)'
         /\ ~Free(t)' => /\ ~Free(t) /\ task'[t].at = task[t].at
                         /\ task'[t].attempt = task[t].attempt
                         /\ task'[t].seen = task[t].seen
         /\ task[t].at = "none" <=> task'[t].at = "none"
  BY DequeueFacts
<1>3. Ended.at = "done" /\ Ended.signalled = FALSE /\ Ended.short = 0
  BY DEF Ended, Fresh
<1>4. \A t \in Tasks : /\ Free(t) => Free(t)'
                       /\ ~Free(t)' => /\ ~Free(t) /\ task'[t].at = task[t].at
                                       /\ task'[t].attempt = task[t].attempt
                                       /\ task'[t].seen = task[t].seen
                       /\ task[t].at = "none" <=> task'[t].at = "none"
  BY <1>2
<1>5. PhaseOK'
  <2> SUFFICES ASSUME NEW t \in Tasks PROVE PhaseFits(t)' /\ (Free(t)' => ~task'[t].signalled)
    BY DEF PhaseOK
  <2>1. PhaseFits(t) /\ (Free(t) => ~task[t].signalled)
    BY DEF Base, PhaseOK
  <2>2. PhaseFits(t)'
    BY <1>2, <1>3, <2>1 DEF PhaseFits
  <2>3. Free(t)' => ~task'[t].signalled
    BY <1>2, <1>3, <2>1 DEF Free, Idle
  <2> QED BY <2>2, <2>3
<1>6. Untouched => Untouched'
  BY DequeueFacts
<1>7. AloneOK'
  <2>1. \A d \in Documents : ~Free(d)' => (\A u \in Tasks \ {d} : Free(u)') /\ Untouched'
    <3> SUFFICES ASSUME NEW d \in Documents, ~Free(d)'
                 PROVE (\A u \in Tasks \ {d} : Free(u)') /\ Untouched'
      OBVIOUS
    <3>1. d \in Tasks /\ ~Free(d)
      BY <1>4, TaskFacts
    <3> QED BY <1>4, <1>6, <3>1 DEF Base, AloneOK
  <2>2. \A d \in Documents : task'[d].at \in Held => task'[d].attempt = attempt'
    <3> SUFFICES ASSUME NEW d \in Documents, task'[d].at \in Held
                 PROVE task'[d].attempt = attempt
      BY <1>1
    <3>1. d \in Tasks /\ ~Free(d)'
      BY TaskFacts DEF Free, Idle, Held
    <3> QED BY <1>4, <3>1 DEF Base, AloneOK
  <2>3. ~Free(Document(2))' => task'[Document(2)].attempt = attempt' /\ attempt' > 0
    BY <1>1, <1>4, TaskFacts DEF Base, AloneOK
  <2>4. \A u \in Others : /\ ~Free(u)' => u.run = attempt'
                          /\ u.run > attempt' => task'[u].at = "none"
    BY <1>1, <1>4, RunFacts DEF Base, AloneOK
  <2>5. Reparsing' => (\A t \in Tasks : Free(t)') /\ request'.at = "open"
    BY <1>1, <1>4 DEF Base, AloneOK
  <2> QED BY <2>1, <2>2, <2>3, <2>4, <2>5 DEF AloneOK
<1>8. FanOK'
  <2>1. \A u \in PostTasks \cup SubTasks : u \in Tasks
    BY TaskFacts
  <2>2. Fanned' <=> Fanned
    BY <1>1, <1>4, <2>1 DEF Fanned
  <2>3. \A p \in PostTasks : task'[p].at \in FanPhases => task'[p].at = task[p].at
    BY <1>4, <2>1 DEF FanPhases, Free, Idle
  <2>4. \A s \in SubTasks : Saves(s)' => Saves(s) /\ task'[s].seen = task[s].seen
    BY <1>4, <2>1 DEF Saves, Free, Idle
  <2>5. Fanning' => Fanning
    BY <2>3 DEF Fanning
  <2> QED BY <1>1, <2>2, <2>3, <2>4, <2>5 DEF Base, FanOK, FanPhases
<1> QED BY <1>5, <1>7, <1>8 DEF Base

LEMMA RequestBase ==
  ASSUME TypeInv, Steady, RequestOK, Base, RequestStep
  PROVE  Base'
<1>1. setting' = setting
  BY DEF RequestStep
<1>2. Reparsing => (\A t \in Tasks : Free(t)) /\ ~Fanning
  <2> SUFFICES ASSUME Reparsing PROVE (\A t \in Tasks : Free(t)) /\ ~Fanning
    OBVIOUS
  <2>1. \A t \in Tasks : Free(t)
    BY DEF Base, AloneOK
  <2> QED BY <2>1, TaskFacts DEF Fanning, FanPhases, Free, Idle
<1>3. Untouched => ~Fanned
  BY IdleFacts DEF Untouched, Fanned
<1>4. ASSUME NEW kind \in Requests, Ask(kind) PROVE Base'
  <2>1. UNCHANGED <<task, attempt, row>>
    BY <1>4 DEF Ask
  <2>2. kind = "reparse" => \A t \in Tasks : Free(t)
    BY <1>4 DEF Ask, Steady, Without
  <2>3. Reparsing' => kind = "reparse" /\ request'.at = "dequeue"
    <3> DEFINE first == CASE kind = "cancel" -> CancelKnowledgeParse
                          [] kind = "delete" -> DeleteKnowledge
                          [] kind = "reparse" -> ReparseKnowledge
               k == IF first = "idle" THEN None ELSE kind
               n == IF first = "idle" THEN "pending" ELSE row.status
    <3>1. request' = [kind |-> k, at |-> first, seen |-> n, made |-> request.made \cup {kind}]
      BY <1>4 DEF Ask
    <3>2. kind = "reparse" => first \in {"idle", "dequeue"}
      BY DEF ReparseKnowledge
    <3>3. first = "idle" \/ k = kind
      OBVIOUS
    <3>4. request'.kind = k /\ request'.at = first
      BY <3>1
    <3> HIDE DEF first, k
    <3> QED BY <3>2, <3>3, <3>4 DEF Reparsing
  <2> QED BY <2>1, <2>2, <2>3, RowOnlyBase
<1>5. CASE WriteStatus
  <2>1. UNCHANGED <<task, attempt>> /\ request.at = "write"
    BY <1>5 DEF WriteStatus
  <2>2. request.kind \in Requests
    BY <2>1 DEF RequestOK
  <2>3. Reparsing' => Reparsing
    BY <1>5, <2>1, <2>2 DEF WriteStatus, Reached, Requests, Reparsing, TypeInv, TypeOK
  <2>4. row'.status \in Early => row.status \in Early \/ Reparsing
    <3>1. CASE request.kind = "cancel"
      BY <1>5, <3>1 DEF WriteStatus, Written, Early
    <3>2. CASE request.kind = "delete"
      BY <1>5, <3>2, RowFacts DEF WriteStatus, TypeInv, Early, Statuses
    <3>3. CASE request.kind = "reparse"
      BY <2>1, <3>3 DEF Reparsing
    <3> QED BY <2>2, <3>1, <3>2, <3>3 DEF Requests
  <2>5. Reparsing => Untouched /\ attempt > 0
    BY <2>1 DEF Base, AloneOK
  <2> QED BY <1>2, <1>3, <2>1, <2>3, <2>4, <2>5, RowOnlyBase
<1>6. CASE OpenAttempt
  <2>1. /\ request.at = "open" /\ attempt' = attempt + 1 /\ UNCHANGED <<task, row>>
        /\ request'.kind = request.kind
    BY <1>6 DEF OpenAttempt, Reached, TypeInv, TypeOK
  <2>2. Reparsing
    BY <2>1 DEF RequestOK, Requests, Reparsing
  <2>3. \A t \in Tasks : Free(t)' /\ Free(t)
    BY <1>2, <2>1, <2>2 DEF Free
  <2>4. (\A u \in Others : u.run >= attempt' => task'[u].at = "none") /\ attempt' > 0
          /\ attempt' \in Nat
    BY <2>1, NewAttempt DEF TypeInv, TypeOK
  <2>5. Untouched'
    BY <2>4, RunFacts DEF Untouched, Attempts
  <2>6. PhaseOK'
    BY <2>1 DEF Base, PhaseOK, PhaseFits, Free
  <2>7. AloneOK'
    <3>1. \A d \in Documents : Free(d)' /\ task'[d].at \notin Held
      BY <2>3, TaskFacts DEF Free, Idle, Held
    <3>2. \A u \in Others : Free(u)' /\ (u.run > attempt' => task'[u].at = "none")
      BY <2>3, <2>4, RunFacts DEF Attempts
    <3>3. Free(Document(2))'
      BY <2>3, TaskFacts
    <3> QED BY <2>3, <2>4, <2>5, <3>1, <3>2, <3>3 DEF AloneOK
  <2>8. FanOK'
    <3>1. \A u \in PostTasks \cup SubTasks : Free(u)'
      BY <2>3, TaskFacts
    <3>2. ~Fanned'
      BY <2>5, IdleFacts DEF Untouched, Fanned
    <3> QED BY <3>1, <3>2 DEF FanOK, Fanning, FanPhases, Saves, Free, Idle
  <2> QED BY <2>6, <2>7, <2>8 DEF Base
<1>7. CASE CleanResources \/ ResetCount \/ RemoveRow
  <2>1. UNCHANGED <<task, attempt>> /\ request.at \in {"clean", "zero", "remove"}
    BY <1>7 DEF CleanResources, ResetCount, RemoveRow
  <2>2. row'.status \in Early => row.status \in Early
    BY <1>7 DEF CleanResources, ResetCount, RemoveRow, Written, Early, TypeInv, TypeOK
  <2>3. Reparsing' => Reparsing /\ request.at \in {"clean", "zero"}
    BY <1>7 DEF CleanResources, ResetCount, RemoveRow, Reparsing, Reached, Answered, TypeInv,
                TypeOK
  <2>4. Reparsing' => Untouched /\ attempt > 0
    BY <2>3 DEF Base, AloneOK
  <2> QED BY <1>2, <2>1, <2>2, <2>3, <2>4, RowOnlyBase
<1>8. CASE EnqueueReparse
  <2>1. ~Reparsing' /\ attempt' = attempt /\ request.at = "enqueue"
    BY <1>8 DEF EnqueueReparse, Answered, Reparsing, TypeInv, TypeOK
  <2>2. Reparsing
    BY <2>1 DEF RequestOK, Requests, Reparsing
  <2>3. Untouched /\ attempt > 0 /\ \A t \in Tasks : Free(t)
    BY <2>1, <2>2 DEF Base, AloneOK
  <2>4. CASE UNCHANGED task /\ UpdateKnowledge("failed")
    BY <1>2, <1>3, <2>1, <2>2, <2>3, <2>4, RowFacts, RowOnlyBase
       DEF TypeInv, Statuses, Early
  <2>5. CASE UNCHANGED row /\ task' = [task EXCEPT ![Document(2)]
                                         = [Queued EXCEPT !.attempt = attempt]]
    <3> DEFINE x == [Queued EXCEPT !.attempt = attempt]
    <3>1. x.at = "queued" /\ x.attempt = attempt
      BY DEF Queued, Fresh
    <3>2. /\ task'[Document(2)] = x
          /\ \A u \in Tasks : u # Document(2) => task'[u] = task[u]
      BY <2>5, TaskFacts DEF TypeInv, TypeOK
    <3> HIDE DEF x
    <3>3. \A u \in Others : task'[u] = task[u] /\ Free(u)' /\ u \in Tasks
      BY <2>3, <3>2, RunFacts DEF Free
    <3>4. PhaseOK'
      <4>1. PhaseFits(Document(2))' /\ ~Free(Document(2))'
        BY <3>1, <3>2, TaskFacts DEF PhaseFits, Free, Idle
      <4>2. \A u \in Tasks : u # Document(2) =>
                PhaseFits(u)' /\ (Free(u)' => ~task'[u].signalled)
        BY <3>2 DEF Base, PhaseOK, PhaseFits, Free
      <4> QED BY <4>1, <4>2 DEF PhaseOK
    <3>5. Untouched'
      BY <2>1, <2>3, <3>3 DEF Untouched
    <3>6. AloneOK'
      <4>1. \A u \in Tasks : u # Document(2) => Free(u)'
        BY <2>3, <3>2 DEF Free
      <4>2. \A d \in Documents : ~Free(d)' => (\A u \in Tasks \ {d} : Free(u)') /\ Untouched'
        BY <3>5, <4>1, TaskFacts
      <4>3. \A d \in Documents : task'[d].at \in Held => task'[d].attempt = attempt'
        BY <2>1, <3>1, <3>2, <4>1, TaskFacts DEF Held, Free, Idle
      <4>4. task'[Document(2)].attempt = attempt' /\ attempt' > 0
        BY <2>1, <2>3, <3>1, <3>2
      <4>5. \A u \in Others : u.run > attempt' => task'[u].at = "none"
        BY <2>1, <3>3 DEF Base, AloneOK
      <4> QED BY <2>1, <3>3, <4>2, <4>3, <4>4, <4>5 DEF AloneOK
    <3>7. FanOK'
      <4>1. ~Fanned'
        BY <3>5, IdleFacts DEF Untouched, Fanned
      <4>2. \A u \in PostTasks \cup SubTasks : Free(u)'
        BY <3>3, IdleFacts
      <4> QED BY <4>1, <4>2 DEF FanOK, Fanning, FanPhases, Saves, Free, Idle
    <3> QED BY <3>4, <3>6, <3>7 DEF Base
  <2> QED BY <1>8, <2>4, <2>5 DEF EnqueueReparse
<1> QED BY <1>1, <1>4, <1>5, <1>6, <1>7, <1>8, DequeueBase DEF RequestStep

LEMMA SweepBase ==
  ASSUME TypeInv, Base, SweepStep
  PROVE  Base'
<1>1. UNCHANGED <<task, attempt, request>>
  BY DEF SweepStep
<1>2. row'.status \in Early => row.status \in Early
  <2>1. ASSUME NEW kind \in {"drained", "stale", "stuck"}, Recover(kind)
        PROVE  row'.status \in Early => row.status \in Early
    BY <2>1 DEF Recover, Written, Early, TypeInv, TypeOK
  <2> QED BY <2>1 DEF SweepStep, Sweep, ApplySweep, TypeInv, TypeOK
<1>3. Reparsing' => Reparsing
  BY <1>1 DEF Reparsing
<1> QED BY <1>1, <1>2, <1>3, RowOnlyBase DEF Base, AloneOK

LEMMA BaseStep ==
  ASSUME TypeInv, Steady, RequestOK, Base, [Next]_vars
  PROVE  Base'
<1>1. CASE TaskStep
  <2>1. UNCHANGED <<setting, request>>
    BY <1>1 DEF TaskStep
  <2>2. ASSUME NEW t \in Documents, DocumentStep(t) PROVE Base'
    <3>1. t \in Tasks
      BY TaskFacts
    <3>2. CASE EnqueueNext(t)
      BY <2>1, <3>2, EnqueueBase
    <3>3. CASE attempt' # attempt
      <4>1. MarkProcessing(t)
        BY <2>2, <3>3
           DEF DocumentStep, StartDocument, ConvertFails, Reject, CleanUp, CheckBeforeWrite,
               WriteChunks, CheckBeforeIndex, BatchIndex, BatchIndexFails, CheckAfterIndex,
               FinishIndexing, EnqueueNext
      <4> QED BY <2>1, <3>3, <4>1, OpeningBase
    <3>4. CASE ~EnqueueNext(t) /\ attempt' = attempt
      BY <2>1, <2>2, <3>1, <3>4, DocumentLocal, LocalBase
    <3> QED BY <3>2, <3>3, <3>4
  <2>3. ASSUME NEW t \in ImageTasks, ImageStep(t) PROVE Base'
    <3>1. t \in Tasks
      BY TaskFacts
    <3>2. CASE CountImage(t)
      BY <2>1, <3>2, CountBase
    <3>3. CASE StartImage(t) \/ ImageEnds(t) \/ ImageFails(t)
      BY <2>1, <3>1, <3>3, ImageLocal, LocalBase
    <3> QED BY <2>3, <3>2, <3>3 DEF ImageStep
  <2>4. ASSUME NEW t \in PostTasks, PostStep(t) PROVE Base'
    <3>1. t \in Tasks
      BY TaskFacts
    <3>2. CASE FanOut(t)
      BY <2>1, <3>2, FanOutBase
    <3>3. CASE ~FanOut(t)
      BY <2>1, <2>4, <3>1, <3>3, PostLocal, LocalBase
    <3> QED BY <3>2, <3>3
  <2>5. ASSUME NEW t \in SubTasks, SubStep(t) PROVE Base'
    BY <2>1, <2>5, TaskFacts, SubLocal, LocalBase
  <2>6. ASSUME NEW t \in Tasks, Acknowledge(t) \/ Stop(t) PROVE Base'
    BY <2>1, <2>6, QueueLocal, LocalBase
  <2> QED BY <1>1, <2>2, <2>3, <2>4, <2>5, <2>6 DEF TaskStep
<1>2. CASE CrashStep
  BY <1>2 DEF CrashStep, Crash, Steady, Without
<1>3. CASE UNCHANGED vars
  BY <1>3, RowOnlyBase DEF vars, Base, AloneOK, Reparsing
<1> QED BY <1>1, <1>2, <1>3, RequestBase, SweepBase DEF Next

LEMMA BaseInit == Init => Base /\ RequestOK
<1> SUFFICES ASSUME Init PROVE Base /\ RequestOK
  OBVIOUS
<1>1. TypeInv
  BY TypeInit
<1>2. /\ task[Document(1)] = Queued /\ attempt = 0 /\ request.at = "idle"
      /\ \A u \in Tasks : u # Document(1) => task[u] = Fresh
  <2> DEFINE f == [t \in Tasks |-> Fresh]
  <2>1. task = [f EXCEPT ![Document(1)] = Queued] /\ f \in [Tasks -> {Fresh}]
    BY DEF Init
  <2> HIDE DEF f
  <2> QED BY <2>1, TaskFacts DEF Init
<1>3. /\ Queued.at = "queued" /\ Fresh.at = "none" /\ Fresh.short = 0
      /\ Fresh.signalled = FALSE
  BY DEF Queued, Fresh
<1>4. \A u \in Others : task[u].at = "none" /\ Free(u)
  BY <1>2, <1>3, RunFacts DEF Free, Idle
<1>5. Untouched /\ \A u \in Tasks : u # Document(1) => Free(u)
  BY <1>2, <1>3, <1>4 DEF Untouched, Free, Idle
<1>6. PhaseOK
  <2>1. \A u \in Tasks : u # Document(1) => PhaseFits(u) /\ ~task[u].signalled
    BY <1>2, <1>3 DEF PhaseFits, FanPhases
  <2>2. PhaseFits(Document(1)) /\ ~Free(Document(1))
    BY <1>2, <1>3, TaskFacts DEF PhaseFits, Free, Idle
  <2> QED BY <2>1, <2>2 DEF PhaseOK
<1>7. AloneOK
  <2>1. \A d \in Documents : ~Free(d) => d = Document(1)
    BY <1>5, TaskFacts
  <2>2. \A d \in Documents : task[d].at \notin Held
    BY <1>2, <1>3, TaskFacts DEF Held
  <2>3. Free(Document(2)) /\ ~Reparsing
    BY <1>2, <1>5, TaskFacts DEF Reparsing
  <2> QED BY <1>4, <1>5, <2>1, <2>2, <2>3 DEF AloneOK
<1>8. FanOK
  BY <1>4, <1>1, IdleFacts, TaskFacts DEF FanOK, Fanned, Fanning, FanPhases, Saves, Others
<1> QED BY <1>2, <1>6, <1>7, <1>8 DEF Base, RequestOK

IInv == TypeInv /\ RequestOK /\ (Steady => Base)

LEMMA IInvInductive == (Init => IInv) /\ (IInv /\ [Next]_vars => IInv')
<1>1. ASSUME [Next]_vars PROVE Steady' <=> Steady
  BY <1>1 DEF Next, TaskStep, CrashStep, RequestStep, SweepStep, vars, Steady, Without
<1> QED BY <1>1, TypeInit, BaseInit, TypeStep, RequestKept, BaseStep DEF IInv

\* An enrichment subtask that is done is not started again in its attempt: a
\* row is seeded once, before any subtask of the attempt is there.
THEOREM SubtasksHold == Spec => SubtasksRunOnce
<1>1. ASSUME IInv, [Next]_vars, Steady
      PROVE  \A t \in SubTasks : task[t].at = "done" => task'[t].at = "done"
  <2> SUFFICES ASSUME NEW s \in SubTasks, task[s].at = "done" PROVE task'[s].at = "done"
    OBVIOUS
  <2>1. TypeInv /\ Base /\ s \in Tasks /\ Free(s) /\ s \in Others
    BY <1>1, TaskFacts DEF IInv, Free, Idle, Others
  <2>2. ASSUME NEW t \in Tasks, Local(t) PROVE task'[s] = task[s]
    BY <2>1, <2>2 DEF Local, Only
  <2>3. CASE TaskStep
    <3>1. UNCHANGED <<setting, request>>
      BY <2>3 DEF TaskStep
    <3>2. ASSUME NEW t \in Documents, DocumentStep(t) PROVE task'[s] = task[s]
      <4>1. CASE EnqueueNext(t)
        BY <2>1, <3>1, <4>1, <1>1, EnqueueFacts, TaskFacts
      <4>2. CASE MarkProcessing(t)
        BY <2>1, <4>2, MarkFacts, TaskFacts DEF Only
      <4>3. CASE ~EnqueueNext(t) /\ ~MarkProcessing(t)
        <5>1. attempt' = attempt
          BY <3>2, <4>3
             DEF DocumentStep, StartDocument, ConvertFails, Reject, CleanUp, CheckBeforeWrite,
                 WriteChunks, CheckBeforeIndex, BatchIndex, BatchIndexFails, CheckAfterIndex,
                 FinishIndexing, EnqueueNext
        <5> QED BY <1>1, <2>1, <2>2, <3>1, <3>2, <4>3, <5>1, DocumentLocal, TaskFacts
      <4> QED BY <4>1, <4>2, <4>3
    <3>3. ASSUME NEW t \in ImageTasks, ImageStep(t) PROVE task'[s] = task[s]
      <4>1. CASE CountImage(t)
        BY <1>1, <2>1, <4>1, CountFacts, TaskFacts
      <4>2. CASE StartImage(t) \/ ImageEnds(t) \/ ImageFails(t)
        BY <1>1, <2>1, <2>2, <3>1, <4>2, ImageLocal, TaskFacts
      <4> QED BY <3>3, <4>1, <4>2 DEF ImageStep
    <3>4. ASSUME NEW t \in PostTasks, PostStep(t) PROVE task'[s] = task[s]
      <4>1. CASE FanOut(t)
        <5> DEFINE subs == {Sub(attempt, i) : i \in Subtasks}
        <5>1. /\ \A u \in subs : u.run = attempt
              /\ \A u \in Tasks : u # t /\ u \notin subs => task'[u] = task[u]
          BY <1>1, <2>1, <4>1, FanOutFacts
        <5> HIDE DEF subs
        <5>2. ~Fanned
          BY <2>1, <4>1 DEF FanOut, Base, FanOK
        <5>3. s.run # attempt
          BY <5>2 DEF Fanned
        <5> QED BY <2>1, <5>1, <5>3, TaskFacts
      <4>2. CASE ~FanOut(t)
        BY <1>1, <2>1, <2>2, <3>1, <3>4, <4>2, PostLocal, TaskFacts
      <4> QED BY <4>1, <4>2
    <3>5. ASSUME NEW t \in SubTasks, SubStep(t) PROVE task'[s] = task[s]
      BY <1>1, <2>1, <2>2, <3>1, <3>5, SubLocal, TaskFacts
    <3>6. ASSUME NEW t \in Tasks, Acknowledge(t) \/ Stop(t) PROVE task'[s] = task[s]
      BY <1>1, <2>1, <2>2, <3>1, <3>6, QueueLocal
    <3> QED BY <2>3, <3>2, <3>3, <3>4, <3>5, <3>6 DEF TaskStep
  <2>4. CASE CrashStep
    BY <1>1, <2>4 DEF CrashStep, Crash, Steady, Without
  <2>5. CASE RequestStep
    <3>1. CASE Dequeue
      <4>1. task'[s] = Dequeued(s)
        BY <2>1, <3>1 DEF Dequeue
      <4>2. Dequeued(s) = task[s]
        BY <2>1, DequeuedFacts DEF TypeInv, Running
      <4> QED BY <4>1, <4>2
    <3>2. CASE ~Dequeue
      BY <2>1, <2>5, <3>2, RunFacts
         DEF RequestStep, Ask, WriteStatus, OpenAttempt, CleanResources, RemoveRow, ResetCount,
             EnqueueReparse, TypeInv, TypeOK
    <3> QED BY <3>1, <3>2
  <2>6. CASE SweepStep \/ UNCHANGED vars
    BY <2>6 DEF SweepStep, vars
  <2> QED BY <1>1, <2>3, <2>4, <2>5, <2>6 DEF Next
<1>2. IInv /\ [Next]_vars => [Without({"crash", "impatient"}) =>
         \A t \in SubTasks : task[t].at = "done" => task'[t].at = "done"]_vars
  BY <1>1 DEF Steady
<1> QED BY <1>2, IInvInductive, PTL DEF Spec, SubtasksRunOnce

-----------------------------------------------------------------------------
(* What is stored and indexed.                                              *)



\* The steps of document tasks leave the attempt alone, but for the opening of
\* a new one.
LEMMA DocumentAttempt ==
  ASSUME NEW t \in Documents, DocumentStep(t), ~MarkProcessing(t)
  PROVE  attempt' = attempt
BY DEF DocumentStep, StartDocument, ConvertFails, Reject, CleanUp, CheckBeforeWrite,
       WriteChunks, CheckBeforeIndex, BatchIndex, BatchIndexFails, CheckAfterIndex,
       FinishIndexing, EnqueueNext

\* A task that was enqueued once is never taken for new again.
LEMMA NoneKept ==
  ASSUME TypeInv, Steady, RequestOK, Base, [Next]_vars
  PROVE  \A u \in Tasks : task[u].at # "none" => task'[u].at # "none"
<1> SUFFICES ASSUME NEW s \in Tasks, task[s].at # "none" PROVE task'[s].at # "none"
  OBVIOUS
<1>1. Queued.at # "none" /\ Ended.at # "none"
  BY RecordFacts
<1>2. ASSUME NEW t \in Tasks, Local(t) PROVE task'[s].at # "none"
  BY <1>2 DEF Local, Only
<1>3. CASE TaskStep
  <2>1. UNCHANGED <<setting, request>>
    BY <1>3 DEF TaskStep
  <2>2. ASSUME NEW t \in Documents, DocumentStep(t) PROVE task'[s].at # "none"
    <3>1. CASE EnqueueNext(t)
      <4> DEFINE next == IF Pictures = {} THEN {Post(attempt, None)}
                         ELSE {Image(attempt, i) : i \in Pictures}
      <4>1. PICK refused \in SUBSET next :
                 /\ \A u \in next \ refused : task'[u] = Queued
                 /\ \A u \in Tasks : u # t /\ u \notin next \ refused => task'[u] = task[u]
        BY <3>1, EnqueueFacts
      <4>2. task'[t].at = "done"
        BY <3>1, EnqueueFacts
      <4> HIDE DEF next
      <4> QED BY <1>1, <4>1, <4>2
    <3>2. CASE MarkProcessing(t)
      BY <3>2, MarkFacts, TaskFacts DEF Only
    <3>3. CASE ~EnqueueNext(t) /\ ~MarkProcessing(t)
      BY <1>2, <2>1, <2>2, <3>3, DocumentAttempt, DocumentLocal, TaskFacts
    <3> QED BY <3>1, <3>2, <3>3
  <2>3. ASSUME NEW t \in ImageTasks, ImageStep(t) PROVE task'[s].at # "none"
    <3>1. CASE CountImage(t)
      BY <1>1, <3>1, CountFacts, TaskFacts
    <3>2. CASE StartImage(t) \/ ImageEnds(t) \/ ImageFails(t)
      BY <1>2, <2>1, <3>2, ImageLocal, TaskFacts
    <3> QED BY <2>3, <3>1, <3>2 DEF ImageStep
  <2>4. ASSUME NEW t \in PostTasks, PostStep(t) PROVE task'[s].at # "none"
    <3>1. CASE FanOut(t)
      <4> DEFINE subs == {Sub(attempt, i) : i \in Subtasks}
      <4>1. PICK refused \in SUBSET subs :
                 /\ \A u \in subs \ refused : task'[u] = Queued
                 /\ \A u \in Tasks : u # t /\ u \notin subs \ refused => task'[u] = task[u]
                 /\ refused = {} => task'[t].at = "done"
                 /\ refused # {} => task'[t].at = "releasing"
        BY <3>1, FanOutFacts
      <4> HIDE DEF subs
      <4> QED BY <1>1, <4>1
    <3>2. CASE ~FanOut(t)
      BY <1>2, <2>1, <2>4, <3>2, PostLocal, TaskFacts
    <3> QED BY <3>1, <3>2
  <2>5. ASSUME NEW t \in SubTasks, SubStep(t) PROVE task'[s].at # "none"
    BY <1>2, <2>1, <2>5, SubLocal, TaskFacts
  <2>6. ASSUME NEW t \in Tasks, Acknowledge(t) \/ Stop(t) PROVE task'[s].at # "none"
    BY <1>2, <2>1, <2>6, QueueLocal
  <2> QED BY <1>3, <2>2, <2>3, <2>4, <2>5, <2>6 DEF TaskStep
<1>4. CASE CrashStep
  BY <1>4 DEF CrashStep, Crash, Steady, Without
<1>5. CASE RequestStep
  <2>1. CASE Dequeue
    <3>1. task'[s] = Dequeued(s)
      BY <2>1 DEF Dequeue
    <3> DEFINE x == task[s]
    <3>2. x \in Record
      BY DEF TypeInv, TypeOK, Record
    <3> HIDE DEF x
    <3>3. [x EXCEPT !.signalled = TRUE].at = x.at
      BY <3>2 DEF Record
    <3> QED BY <1>1, <3>1, <3>3, DequeuedFacts DEF TypeInv, x
  <2>2. CASE EnqueueReparse
    <3> DEFINE x == [Queued EXCEPT !.attempt = attempt]
    <3>1. x.at = "queued"
      BY DEF Queued, Fresh
    <3>2. UNCHANGED task \/ task' = [task EXCEPT ![Document(2)] = x]
      BY <2>2 DEF EnqueueReparse
    <3> HIDE DEF x
    <3> QED BY <3>1, <3>2, TaskFacts DEF TypeInv, TypeOK
  <2>3. CASE ~Dequeue /\ ~EnqueueReparse
    BY <1>5, <2>3
       DEF RequestStep, Ask, WriteStatus, OpenAttempt, CleanResources, RemoveRow, ResetCount
  <2> QED BY <2>1, <2>2, <2>3
<1>6. CASE SweepStep \/ UNCHANGED vars
  BY <1>6 DEF SweepStep, vars
<1> QED BY <1>3, <1>4, <1>5, <1>6 DEF Next

\* Where the attempt changes: it had not been worked for, or a reparse opens
\* the next one.
LEMMA AttemptChanges ==
  ASSUME TypeInv, Steady, RequestOK, Base, [Next]_vars
  PROVE  /\ attempt' = attempt /\ ~Untouched => ~Untouched'
         /\ attempt' # attempt => \/ Untouched
                                  \/ "reparse" \in setting /\ OpenAttempt
<1>1. attempt' = attempt /\ ~Untouched => ~Untouched'
  BY NoneKept, RunFacts DEF Untouched
<1>2. ASSUME attempt' # attempt
      PROVE  Untouched \/ ("reparse" \in setting /\ OpenAttempt)
  <2>1. CASE TaskStep
    <3>1. PICK t \in Documents : MarkProcessing(t)
      BY <1>2, <2>1, DocumentAttempt
         DEF TaskStep, ImageStep, StartImage, ImageEnds, ImageFails, CountImage,
             PostStep, StartPost, PostFails, ListChunks, CompleteEmpty, SetFinalizing, FanOut,
             Decrement, Promote, SubStep, StartSubtask, MarkSummary, WorkEnds, SaveSummary,
             WorkFails, Acknowledge, Stop
    <3>2. ~Free(t)
      BY <3>1 DEF MarkProcessing, Free, Idle
    <3> QED BY <3>2, IdleFacts
  <2>2. CASE RequestStep
    <3>1. OpenAttempt
      BY <1>2, <2>2
         DEF RequestStep, Ask, WriteStatus, Dequeue, CleanResources, RemoveRow, ResetCount,
             EnqueueReparse
    <3>2. "reparse" \in setting
      BY <3>1 DEF OpenAttempt, RequestOK, Requests
    <3> QED BY <3>1, <3>2
  <2>3. CASE CrashStep \/ SweepStep \/ UNCHANGED vars
    BY <1>2, <2>3 DEF CrashStep, Crash, SweepStep, vars
  <2> QED BY <2>1, <2>2, <2>3 DEF Next
<1> QED BY <1>1, <1>2

\* The first two sweeps complete what a post-process task has been through.
SweepOK == sweep \in {"drained", "stale"} =>
             "window" \in setting /\ (SweepsInTime => ~Untouched)

LEMMA NoSpanFacts ==
  ASSUME TypeInv, NoOpenSpan
  PROVE  ~Untouched
BY TaskFacts DEF NoOpenSpan, Untouched, Others

LEMMA SweepKept ==
  ASSUME TypeInv, Steady, RequestOK, Base, SweepOK, [Next]_vars
  PROVE  SweepOK'
<1>1. setting' = setting
  BY DEF Next, TaskStep, CrashStep, RequestStep, SweepStep, vars
<1>2. CASE SweepStep
  <2>1. UNCHANGED <<task, attempt>>
    BY <1>2 DEF SweepStep
  <2>2. sweep' \in {"drained", "stale"} => "window" \in setting /\ ~Untouched
    BY <1>2, NoSpanFacts DEF SweepStep, Sweep, ApplySweep, Found
  <2> QED BY <1>1, <2>1, <2>2 DEF SweepOK, Untouched
<1>3. CASE sweep' = sweep
  <2>1. CASE attempt' = attempt
    BY <1>1, <1>3, <2>1, AttemptChanges DEF SweepOK, SweepsInTime
  <2>2. CASE attempt' # attempt
    <3>1. Untouched \/ "reparse" \in setting
      BY <2>2, AttemptChanges
    <3> QED BY <1>1, <1>3, <3>1 DEF SweepOK, SweepsInTime
  <2> QED BY <2>1, <2>2
<1> QED BY <1>2, <1>3 DEF Next, TaskStep, CrashStep, RequestStep, vars

Swept == row.status = "deleted" \/ (request.kind = "delete" /\ request.at = "remove")
Both == chunks = {attempt} /\ index = {attempt}
Rewriting == Reparsing /\ request.at \in {"clean", "write"}

\* As long as only the document task has worked for the attempt, its step tells
\* what is stored; afterwards all of it is, unless the document was deleted.
StoredOK ==
  /\ Untouched \/ Swept \/ Both
  /\ \A d \in Documents :
       /\ task[d].at \in {"cleaned", "writing"} => Swept \/ (chunks = {} /\ index = {})
       /\ task[d].at \in {"written", "indexing"} => Swept \/ (chunks = {attempt} /\ index = {})
       /\ task[d].at \in {"indexed", "checked", "saved"} => Swept \/ Both
  /\ row.status = "completed" => ~Untouched \/ Rewriting


OtherStep(t) == \/ t \in ImageTasks /\ ImageStep(t)
                \/ t \in PostTasks /\ PostStep(t)
                \/ t \in SubTasks /\ SubStep(t)
                \/ t \in Others /\ (Acknowledge(t) \/ Stop(t))

\* What the tasks other than the document's leave alone.
LEMMA OtherFacts ==
  ASSUME TypeInv, Steady, Base, UNCHANGED <<setting, request>>, NEW t \in Others, OtherStep(t)
  PROVE  /\ UNCHANGED <<chunks, index, attempt>> /\ ~Free(t) /\ t.run = attempt
         /\ \A d \in Documents : Free(d) /\ task'[d] = task[d]
         /\ ~Untouched
         /\ row'.status = "deleted" <=> row.status = "deleted"
<1>1. UNCHANGED <<chunks, index, attempt>>
  BY DEF OtherStep, ImageStep, StartImage, ImageEnds, ImageFails, CountImage, PostStep, StartPost,
         PostFails, ListChunks, CompleteEmpty, SetFinalizing, FanOut, Decrement, Promote, SubStep,
         StartSubtask, MarkSummary, WorkEnds, SaveSummary, WorkFails, Acknowledge, Stop
<1>2. ~Free(t)
  <2>1. Acknowledge(t) \/ Stop(t) => ~Free(t)
    BY RunFacts DEF Acknowledge, Stop, Free, Idle, Base, PhaseOK
  <2> QED BY <2>1
       DEF OtherStep, ImageStep, StartImage, ImageEnds, ImageFails, CountImage, PostStep,
           StartPost, PostFails, ListChunks, CompleteEmpty, SetFinalizing, FanOut, Decrement,
           Promote, SubStep, StartSubtask, MarkSummary, WorkEnds, SaveSummary, WorkFails, Free,
           Idle
<1>3. t.run = attempt /\ (\A d \in Documents : Free(d)) /\ t \in Tasks /\ t \notin Documents
  BY <1>2, IdleFacts, RunFacts DEF Base, AloneOK, Others
<1>4. ~Untouched
  BY <1>2, <1>3 DEF Untouched, Free, Idle
<1>5. \A d \in Documents : task'[d] = task[d]
  <2> SUFFICES ASSUME NEW d \in Documents PROVE task'[d] = task[d]
    OBVIOUS
  <2>1. d \in Tasks /\ d # t
    BY <1>3, TaskFacts
  <2>2. Local(t) => task'[d] = task[d]
    BY <2>1 DEF Local, Only
  <2>3. CASE t \in ImageTasks /\ CountImage(t)
    <3>1. Post(attempt, t.item) \in PostTasks
            /\ \A u \in Tasks : u # t /\ u # Post(attempt, t.item) => task'[u] = task[u]
      BY <2>3, CountFacts
    <3> QED BY <2>1, <3>1, TaskFacts
  <2>4. CASE t \in PostTasks /\ FanOut(t)
    <3> DEFINE subs == {Sub(attempt, s) : s \in Subtasks}
    <3>1. /\ subs \subseteq SubTasks
          /\ \A u \in Tasks : u # t /\ u \notin subs => task'[u] = task[u]
      BY <2>4, FanOutFacts
    <3> HIDE DEF subs
    <3> QED BY <2>1, <3>1, TaskFacts
  <2>5. CASE ~CountImage(t) /\ ~FanOut(t)
    <3>1. t \in ImageTasks /\ ImageStep(t) => Local(t)
      BY <2>5, ImageLocal DEF ImageStep
    <3>2. t \in PostTasks /\ PostStep(t) => Local(t)
      BY <2>5, PostLocal
    <3>3. t \in SubTasks /\ SubStep(t) => Local(t)
      BY SubLocal
    <3>4. Acknowledge(t) \/ Stop(t) => Local(t)
      BY <1>3, QueueLocal
    <3> QED BY <2>2, <3>1, <3>2, <3>3, <3>4 DEF OtherStep
  <2>6. CASE t \in ImageTasks /\ FanOut(t) /\ ~CountImage(t)
    <3>1. ImageStep(t) => Local(t)
      BY <2>6, ImageLocal DEF ImageStep
    <3>2. Acknowledge(t) \/ Stop(t) => Local(t)
      BY <1>3, QueueLocal
    <3> QED BY <2>2, <2>6, <3>1, <3>2, TaskFacts DEF OtherStep
  <2>7. CASE t \in PostTasks /\ CountImage(t) /\ ~FanOut(t)
    <3>1. PostStep(t) => Local(t)
      BY <2>7, PostLocal
    <3>2. Acknowledge(t) \/ Stop(t) => Local(t)
      BY <1>3, QueueLocal
    <3> QED BY <2>2, <2>7, <3>1, <3>2, TaskFacts DEF OtherStep
  <2>8. CASE t \in SubTasks
    <3>1. SubStep(t) => Local(t)
      BY <2>8, SubLocal
    <3>2. Acknowledge(t) \/ Stop(t) => Local(t)
      BY <1>3, QueueLocal
    <3> QED BY <2>2, <2>8, <3>1, <3>2, TaskFacts DEF OtherStep
  <2> QED BY <2>3, <2>4, <2>5, <2>6, <2>7, <2>8, TaskFacts DEF Others
<1>6. row'.status = "deleted" <=> row.status = "deleted"
  <2>1. ASSUME NEW s \in Statuses \ {"deleted"}, UpdateKnowledge(s)
        PROVE  row'.status = "deleted" <=> row.status = "deleted"
    BY <2>1, RowFacts DEF TypeInv
  <2>2. CASE UNCHANGED row
    BY <2>2
  <2>3. CASE Decrement(t) \/ Promote(t) \/ SetFinalizing(t)
    BY <2>3 DEF Decrement, Promote, SetFinalizing, Written, TypeInv, TypeOK
  <2>4. CASE t \in SubTasks /\ (MarkSummary(t) \/ SaveSummary(t) \/ (WorkFails(t) /\ t.item = Summary))
    <3>1. Saves(t)
      BY <2>4 DEF MarkSummary, SaveSummary, WorkFails, Saves
    <3>2. task[t].seen \in Statuses \ {"deleted"}
      BY <2>4, <3>1 DEF Base, FanOK, Savable, Statuses
    <3> QED BY <2>1, <2>4, <3>2 DEF MarkSummary, SaveSummary, WorkFails
  <2>5. CASE PostFails(t) \/ CompleteEmpty(t)
    BY <2>1, <2>2, <2>5 DEF PostFails, CompleteEmpty, Statuses
  <2> QED BY <2>2, <2>3, <2>4, <2>5
       DEF OtherStep, ImageStep, StartImage, ImageEnds, ImageFails, CountImage, PostStep,
           StartPost, ListChunks, FanOut, SubStep, StartSubtask, WorkEnds, WorkFails, Acknowledge,
           Stop
<1> QED BY <1>1, <1>2, <1>3, <1>4, <1>5, <1>6

\* What the document's task leaves alone.
LEMMA DocumentFacts ==
  ASSUME TypeInv, Steady, Base, UNCHANGED <<setting, request>>, NEW t \in Documents,
         DocumentStep(t) \/ Acknowledge(t) \/ Stop(t)
  PROVE  /\ ~Free(t) /\ Untouched /\ ~Reparsing /\ t \in Tasks
         /\ \A d \in Documents : d # t => task'[d] = task[d] /\ Free(d)
         /\ task[t].at \in Held => task[t].attempt = attempt
         /\ row.status = "deleted" => row'.status = "deleted"
         /\ ~EnqueueNext(t) => Untouched'
<1>1. t \in Tasks /\ ~Free(t)
  <2>1. Acknowledge(t) \/ Stop(t) => ~Free(t)
    BY TaskFacts DEF Acknowledge, Stop, Free, Idle, Base, PhaseOK
  <2> QED BY <2>1, TaskFacts
       DEF DocumentStep, StartDocument, MarkProcessing, ConvertFails, Reject, CleanUp,
           CheckBeforeWrite, WriteChunks, CheckBeforeIndex, BatchIndex, BatchIndexFails,
           CheckAfterIndex, FinishIndexing, EnqueueNext, Free, Idle
<1>2. Untouched /\ ~Reparsing /\ \A u \in Tasks \ {t} : Free(u)
  BY <1>1, IdleFacts
<1>3. \A d \in Documents : d # t => task'[d] = task[d] /\ Free(d)
  <2> SUFFICES ASSUME NEW d \in Documents, d # t PROVE task'[d] = task[d] /\ Free(d)
    OBVIOUS
  <2>1. d \in Tasks /\ Free(d)
    BY <1>2, TaskFacts
  <2>2. CASE Local(t)
    BY <2>1, <2>2 DEF Local, Only
  <2>3. CASE MarkProcessing(t)
    BY <2>1, <2>3, MarkFacts DEF Only
  <2>4. CASE EnqueueNext(t)
    <3> DEFINE next == IF Pictures = {} THEN {Post(attempt, None)}
                       ELSE {Image(attempt, i) : i \in Pictures}
    <3>1. next \subseteq Others /\ \A u \in Tasks : u # t /\ u \notin next => task'[u] = task[u]
      BY <2>4, EnqueueFacts
    <3> HIDE DEF next
    <3> QED BY <2>1, <3>1 DEF Others
  <2>5. CASE DocumentStep(t) /\ ~MarkProcessing(t) /\ ~EnqueueNext(t)
    BY <2>2, <2>5, DocumentAttempt, DocumentLocal
  <2>6. CASE Acknowledge(t) \/ Stop(t)
    BY <1>1, <2>2, <2>6, QueueLocal
  <2> QED BY <2>3, <2>4, <2>5, <2>6
<1>4. task[t].at \in Held => task[t].attempt = attempt
  BY DEF Base, AloneOK
<1>5. row.status = "deleted" => row'.status = "deleted"
  <2>1. ASSUME NEW s \in Statuses, UpdateKnowledge(s)
        PROVE  row.status = "deleted" => row'.status = "deleted"
    BY <2>1, RowFacts DEF TypeInv
  <2>2. CASE UNCHANGED row
    BY <2>2
  <2>3. CASE MarkProcessing(t) \/ ConvertFails(t) \/ Reject(t) \/ BatchIndexFails(t)
             \/ FinishIndexing(t)
    BY <2>1, <2>3
       DEF MarkProcessing, ConvertFails, Reject, BatchIndexFails, FinishIndexing, Statuses
  <2> QED BY <2>2, <2>3
       DEF DocumentStep, StartDocument, CleanUp, CheckBeforeWrite, WriteChunks, CheckBeforeIndex,
           BatchIndex, CheckAfterIndex, EnqueueNext, Acknowledge, Stop
<1>6. ASSUME ~EnqueueNext(t) PROVE Untouched'
  <2>1. CASE MarkProcessing(t)
    <3>1. \A u \in Others : task'[u] = task[u] /\ u \in Tasks
      BY <2>1, MarkFacts DEF Only, Others
    <3>2. CASE attempt' = attempt
      BY <1>2, <3>1, <3>2 DEF Untouched
    <3>3. CASE attempt' = attempt + 1
      BY <3>1, <3>3, NewAttempt, RunFacts DEF Untouched, Attempts
    <3> QED BY <2>1, <3>2, <3>3 DEF MarkProcessing
  <2>2. CASE Local(t)
    BY <1>2, <2>2, RunFacts DEF Local, Only, Untouched, Others
  <2>3. CASE ~MarkProcessing(t) /\ DocumentStep(t)
    BY <1>6, <2>2, <2>3, DocumentAttempt, DocumentLocal
  <2>4. CASE Acknowledge(t) \/ Stop(t)
    BY <1>1, <2>2, <2>4, QueueLocal
  <2> QED BY <2>1, <2>3, <2>4
<1> QED BY <1>1, <1>2, <1>3, <1>4, <1>5, <1>6

LEMMA StoredDocument ==
  ASSUME TypeInv, Steady, Base, StoredOK, "empty" \notin setting,
         UNCHANGED <<setting, request>>,
         NEW t \in Documents, DocumentStep(t) \/ Acknowledge(t) \/ Stop(t)
  PROVE  StoredOK'
<1>1. /\ ~Free(t) /\ Untouched /\ ~Reparsing /\ t \in Tasks /\ TypeOK
      /\ \A d \in Documents : d # t => task'[d] = task[d] /\ Free(d)
      /\ task[t].at \in Held => task[t].attempt = attempt
      /\ ~EnqueueNext(t) => Untouched'
  BY DocumentFacts DEF TypeInv
<1>2. Swept => Swept'
  BY DocumentFacts DEF Swept
<1>3. row'.status # "completed"
  <2>1. row.status # "completed"
    BY <1>1 DEF StoredOK, Rewriting
  <2>2. ASSUME NEW s \in {"processing", "failed"}, UpdateKnowledge(s)
        PROVE  row'.status # "completed"
    BY <1>1, <2>2, RowFacts DEF Statuses
  <2>3. CASE UNCHANGED row
    BY <2>1, <2>3
  <2>4. CASE MarkProcessing(t) \/ ConvertFails(t) \/ Reject(t) \/ BatchIndexFails(t)
             \/ FinishIndexing(t)
    BY <2>2, <2>3, <2>4
       DEF MarkProcessing, ConvertFails, Reject, BatchIndexFails, FinishIndexing
  <2> QED BY <2>3, <2>4
       DEF DocumentStep, StartDocument, CleanUp, CheckBeforeWrite, WriteChunks, CheckBeforeIndex,
           BatchIndex, CheckAfterIndex, EnqueueNext, Acknowledge, Stop
<1>4. ASSUME task'[t].at \in {"cleaned", "writing"} => Swept \/ (chunks' = {} /\ index' = {}),
             task'[t].at \in {"written", "indexing"} =>
               Swept \/ (chunks' = {attempt'} /\ index' = {}),
             task'[t].at \in {"indexed", "checked", "saved"} => Swept \/ Both',
             Untouched' \/ Swept \/ Both'
      PROVE  StoredOK'
  <2>1. \A d \in Documents :
       /\ task'[d].at \in {"cleaned", "writing"} => Swept' \/ (chunks' = {} /\ index' = {})
       /\ task'[d].at \in {"written", "indexing"} =>
            Swept' \/ (chunks' = {attempt'} /\ index' = {})
       /\ task'[d].at \in {"indexed", "checked", "saved"} => Swept' \/ Both'
    BY <1>1, <1>2, <1>4 DEF Free, Idle
  <2> QED BY <1>2, <1>3, <1>4, <2>1 DEF StoredOK
<1>5. /\ task[t].at \in {"cleaned", "writing"} => Swept \/ (chunks = {} /\ index = {})
      /\ task[t].at \in {"written", "indexing"} => Swept \/ (chunks = {attempt} /\ index = {})
      /\ task[t].at \in {"indexed", "checked", "saved"} => Swept \/ Both
  BY DEF StoredOK
<1>6. ASSUME NEW at \in Phases, Move(t, at) PROVE task'[t].at = at
  BY <1>1, <1>6, MoveFacts
<1>7. ASSUME End(t) \/ Finish(t) \/ Requeue(t) PROVE task'[t].at \in {"queued", "done", "ending"}
  BY <1>1, <1>7, EndFacts, FinishFacts, RequeueFacts, RecordFacts
<1>8. CASE EnqueueNext(t)
  <2>1. task'[t].at = "done"
    BY <1>8, EnqueueFacts
  <2>2. task[t].at = "saved" /\ UNCHANGED <<attempt, chunks, index>>
    BY <1>8 DEF EnqueueNext
  <2> QED BY <1>4, <1>5, <2>1, <2>2 DEF Both
<1>9. CASE StartDocument(t) \/ MarkProcessing(t) \/ ConvertFails(t) \/ Reject(t)
           \/ BatchIndexFails(t) \/ Acknowledge(t) \/ Stop(t)
  <2>1. task'[t].at \in {"queued", "loaded", "marked", "done", "ending"}
    <3>1. StartDocument(t) => (End(t) \/ Move(t, "loaded"))
      BY DEF StartDocument
    <3>2. "loaded" \in Phases
      BY DEF Phases
    <3>3. MarkProcessing(t) => task'[t].at = "marked"
      BY MarkFacts
    <3>4. ConvertFails(t) \/ Reject(t) \/ BatchIndexFails(t) \/ Acknowledge(t) \/ Stop(t) =>
            End(t) \/ Finish(t) \/ Requeue(t)
      BY DEF ConvertFails, Reject, BatchIndexFails, Acknowledge, Stop
    <3> QED BY <1>6, <1>7, <1>9, <3>1, <3>2, <3>3, <3>4
  <2> QED BY <1>1, <1>4, <1>8, <2>1
<1>10. ASSUME ~EnqueueNext(t),
              Finish(t) \/ (\E at \in {"cleaned", "writing", "written", "indexing", "indexed",
                                       "checked", "saved"} :
                  /\ Move(t, at)
                  /\ at \in {"cleaned", "writing"} => Swept \/ (chunks' = {} /\ index' = {})
                  /\ at \in {"written", "indexing"} =>
                       Swept \/ (chunks' = {attempt'} /\ index' = {})
                  /\ at \in {"indexed", "checked", "saved"} => Swept \/ Both')
       PROVE  StoredOK'
  <2>1. CASE Finish(t)
    BY <1>1, <1>4, <1>7, <1>10, <2>1
  <2>2. ASSUME NEW at \in {"cleaned", "writing", "written", "indexing", "indexed", "checked",
                           "saved"},
               Move(t, at),
               at \in {"cleaned", "writing"} => Swept \/ (chunks' = {} /\ index' = {}),
               at \in {"written", "indexing"} =>
                 Swept \/ (chunks' = {attempt'} /\ index' = {}),
               at \in {"indexed", "checked", "saved"} => Swept \/ Both'
        PROVE  StoredOK'
    <3>1. task'[t].at = at
      BY <1>6, <2>2 DEF Phases
    <3> QED BY <1>1, <1>4, <1>10, <2>2, <3>1
  <2> QED BY <1>10, <2>1, <2>2
<1>11. CASE ~EnqueueNext(t) /\ (CleanUp(t) \/ CheckBeforeWrite(t))
  <2>1. CASE CleanUp(t)
    BY <1>10, <1>11, <2>1 DEF CleanUp
  <2>2. CASE CheckBeforeWrite(t)
    <3>1. task[t].at = "cleaned" /\ UNCHANGED <<chunks, index>>
          /\ (Finish(t) \/ Move(t, "writing"))
      BY <2>2 DEF CheckBeforeWrite
    <3> QED BY <1>5, <1>10, <1>11, <3>1
  <2> QED BY <1>11, <2>1, <2>2
<1>12. CASE ~EnqueueNext(t) /\ WriteChunks(t)
  <2>1. task[t].at = "writing" /\ Move(t, "written") /\ UNCHANGED <<index, attempt>>
        /\ chunks' = chunks \cup {task[t].attempt}
    BY <1>12 DEF WriteChunks
  <2>2. task[t].attempt = attempt
    BY <1>1, <2>1 DEF Held
  <2> QED BY <1>5, <1>10, <1>12, <2>1, <2>2
<1>13. CASE ~EnqueueNext(t) /\ CheckBeforeIndex(t)
  <2>1. task[t].at = "written" /\ UNCHANGED <<index, attempt>>
        /\ (Finish(t) \/ (Move(t, "indexing") /\ ~Aborted))
        /\ (~Leaving => chunks' = chunks)
    BY <1>13 DEF CheckBeforeIndex
  <2>2. ~Aborted => ~Leaving
    BY DEF Aborted, Leaving
  <2> QED BY <1>5, <1>10, <1>13, <2>1, <2>2
<1>14. CASE ~EnqueueNext(t) /\ BatchIndex(t)
  <2>1. task[t].at = "indexing" /\ Move(t, "indexed") /\ UNCHANGED <<chunks, attempt>>
        /\ index' = index \cup {task[t].attempt}
    BY <1>14 DEF BatchIndex
  <2>2. task[t].attempt = attempt
    BY <1>1, <2>1 DEF Held
  <2>3. Swept \/ Both'
    BY <1>5, <2>1, <2>2 DEF Both
  <2> QED BY <1>10, <1>14, <2>1, <2>3
<1>15. CASE ~EnqueueNext(t) /\ (CheckAfterIndex(t) \/ FinishIndexing(t))
  <2>1. CASE CheckAfterIndex(t)
    <3>1. task[t].at = "indexed" /\ UNCHANGED attempt
          /\ (Finish(t) \/ (Move(t, "checked") /\ ~Aborted))
          /\ (~Leaving => UNCHANGED <<chunks, index>>)
      BY <2>1 DEF CheckAfterIndex
    <3>2. ~Aborted => ~Leaving
      BY DEF Aborted, Leaving
    <3>3. Finish(t) \/ (Move(t, "checked") /\ (Swept \/ Both'))
      BY <1>5, <3>1, <3>2 DEF Both
    <3> QED BY <1>10, <1>15, <3>3
  <2>2. CASE FinishIndexing(t)
    <3>1. task[t].at = "checked" /\ UNCHANGED <<attempt, chunks, index>> /\ Move(t, "saved")
      BY <2>2 DEF FinishIndexing
    <3>2. Swept \/ Both'
      BY <1>5, <3>1 DEF Both
    <3> QED BY <1>10, <1>15, <3>1, <3>2
  <2> QED BY <1>15, <2>1, <2>2
<1> QED BY <1>8, <1>9, <1>11, <1>12, <1>13, <1>14, <1>15 DEF DocumentStep

LEMMA StoredOther ==
  ASSUME TypeInv, Steady, RequestOK, Base, StoredOK, [Next]_vars, UNCHANGED <<setting, request>>,
         NEW t \in Others, OtherStep(t)
  PROVE  StoredOK'
<1>1. /\ UNCHANGED <<chunks, index, attempt>>
      /\ \A d \in Documents : Free(d) /\ task'[d] = task[d]
      /\ ~Untouched
      /\ row'.status = "deleted" <=> row.status = "deleted"
  BY OtherFacts
<1>2. ~Untouched'
  BY <1>1, AttemptChanges
<1>3. Swept' <=> Swept
  BY <1>1 DEF Swept
<1> QED BY <1>1, <1>2, <1>3 DEF StoredOK, Both, Free, Idle

LEMMA StoredRequest ==
  ASSUME TypeInv, Steady, RequestOK, Base, StoredOK, RequestStep
  PROVE  StoredOK'
<1> USE DEF RequestStep
<1>1. setting' = setting
  OBVIOUS
<1>2. TypeOK
  BY DEF TypeInv
<1>3. CASE \E kind \in Requests : Ask(kind)
  <2>1. UNCHANGED <<row, attempt, chunks, index, task>> /\ request.at = "idle"
    BY <1>3 DEF Ask
  <2>2. Untouched' <=> Untouched
    BY <2>1 DEF Untouched
  <2>3. Swept => Swept'
    BY <2>1 DEF Swept
  <2> QED BY <2>1, <2>2, <2>3 DEF StoredOK, Both, Rewriting
<1>4. CASE WriteStatus
  <2>1. UNCHANGED <<attempt, chunks, index, task>> /\ request.at = "write"
        /\ request.kind \in Requests
    BY <1>4 DEF WriteStatus, TypeInv, AskedOK
  <2>2. Untouched' <=> Untouched
    BY <2>1 DEF Untouched
  <2>3. (row.status = "deleted" => row'.status = "deleted") /\ row'.status # "completed"
    <3>1. CASE request.kind = "cancel"
      BY <1>2, <1>4, <3>1 DEF WriteStatus, Written, TypeOK
    <3>2. CASE request.kind = "delete"
      <4>1. UpdateKnowledge("deleting")
        BY <1>4, <3>2 DEF WriteStatus
      <4> QED BY <1>2, <4>1, RowFacts DEF Statuses
    <3>3. CASE request.kind = "reparse"
      <4>1. UpdateKnowledge("pending")
        BY <1>4, <3>3 DEF WriteStatus
      <4> QED BY <1>2, <4>1, RowFacts DEF Statuses
    <3> QED BY <2>1, <3>1, <3>2, <3>3 DEF Requests
  <2>4. Swept => Swept'
    BY <2>1, <2>3 DEF Swept
  <2> QED BY <2>1, <2>2, <2>3, <2>4 DEF StoredOK, Both
<1>5. CASE Dequeue
  <2>1. UNCHANGED <<row, attempt, chunks, index>> /\ request.at = "dequeue"
    BY <1>5 DEF Dequeue
  <2>2. Untouched' <=> Untouched
    BY <1>5, DequeueFacts
  <2>3. Swept => Swept'
    BY <2>1 DEF Swept
  <2>4. \A d \in Documents : ~Free(d)' => task'[d].at = task[d].at
    BY <1>5, DequeueFacts, TaskFacts
  <2>5. ~Rewriting
    BY <2>1 DEF Rewriting
  <2> QED BY <2>1, <2>2, <2>3, <2>4, <2>5 DEF StoredOK, Both, Free, Idle
<1>6. CASE OpenAttempt
  <2>1. UNCHANGED <<row, task>> /\ attempt' = attempt + 1 /\ request.at = "open"
        /\ request'.at = "clean" /\ request'.kind = request.kind
    BY <1>2, <1>6 DEF OpenAttempt, Reached, TypeOK
  <2>2. Reparsing /\ Rewriting'
    BY <2>1 DEF RequestOK, Requests, Reparsing, Rewriting
  <2>3. \A d \in Documents : Free(d)
    BY <2>2, TaskFacts DEF Base, AloneOK
  <2>4. Untouched'
    BY <2>1, NewAttempt, RunFacts DEF Untouched, Attempts
  <2> QED BY <2>1, <2>2, <2>3, <2>4 DEF StoredOK, Free, Idle
<1>7. CASE CleanResources
  <2>1. UNCHANGED <<row, attempt, task>> /\ request.at = "clean" /\ request'.kind = request.kind
        /\ request'.at = IF request.kind = "delete" THEN "remove" ELSE "write"
    BY <1>2, <1>7 DEF CleanResources, Reached, TypeOK
  <2>2. request.kind \in {"delete", "reparse"}
    BY <2>1 DEF RequestOK, Requests
  <2>3. Untouched' <=> Untouched
    BY <2>1 DEF Untouched
  <2>4. CASE request.kind = "delete"
    <3>1. Swept' /\ ~Rewriting
      BY <2>1, <2>4 DEF Swept, Rewriting, Reparsing
    <3> QED BY <2>1, <2>3, <3>1 DEF StoredOK
  <2>5. CASE request.kind = "reparse"
    <3>1. Reparsing /\ Rewriting'
      BY <2>1, <2>5 DEF Reparsing, Rewriting
    <3>2. Untouched /\ \A d \in Documents : Free(d)
      BY <2>1, <3>1, TaskFacts DEF Base, AloneOK
    <3> QED BY <2>1, <2>3, <3>1, <3>2 DEF StoredOK, Free, Idle
  <2> QED BY <2>2, <2>4, <2>5
<1>8. CASE RemoveRow
  <2>1. row'.status = "deleted"
    BY <1>2, <1>8 DEF RemoveRow, TypeOK
  <2> QED BY <2>1 DEF StoredOK, Swept
<1>9. CASE ResetCount \/ EnqueueReparse
  <2>1. request.at \in {"zero", "enqueue"} /\ UNCHANGED <<chunks, index, attempt>>
    BY <1>9 DEF ResetCount, EnqueueReparse
  <2>2. Reparsing
    BY <2>1 DEF RequestOK, Requests, Reparsing
  <2>3. Untouched /\ \A d \in Documents : Free(d)
    BY <2>1, <2>2, TaskFacts DEF Base, AloneOK
  <2>4. row.status # "completed"
    BY <2>1, <2>3 DEF StoredOK, Rewriting
  <2>5. CASE ResetCount
    <3>1. row'.status = row.status /\ task' = task
      BY <1>2, <2>5 DEF ResetCount, Written, TypeOK
    <3>2. Untouched'
      BY <2>1, <2>3, <3>1 DEF Untouched
    <3> QED BY <2>3, <2>4, <3>1, <3>2 DEF StoredOK, Free, Idle
  <2>6. CASE EnqueueReparse
    <3> DEFINE x == [Queued EXCEPT !.attempt = attempt]
    <3>1. x.at = "queued"
      BY DEF Queued, Fresh
    <3>2. UNCHANGED task \/ task' = [task EXCEPT ![Document(2)] = x]
      BY <2>6 DEF EnqueueReparse
    <3> HIDE DEF x
    <3>3. row'.status # "completed"
      <4>1. UNCHANGED row \/ UpdateKnowledge("failed")
        BY <2>6 DEF EnqueueReparse
      <4> QED BY <1>2, <2>4, <4>1, RowFacts DEF Statuses
    <3>4. Untouched'
      BY <1>2, <2>1, <2>3, <3>2, RunFacts DEF Untouched, TypeOK
    <3>5. \A d \in Documents : task'[d].at \in {"none", "done", "queued"}
      BY <1>2, <2>3, <3>1, <3>2, TaskFacts DEF TypeOK, Free, Idle
    <3> QED BY <3>3, <3>4, <3>5 DEF StoredOK
  <2> QED BY <1>9, <2>5, <2>6
<1> QED BY <1>3, <1>4, <1>5, <1>6, <1>7, <1>8, <1>9

LEMMA StoredSweep ==
  ASSUME TypeInv, SweepsInTime, SweepOK, StoredOK, SweepStep
  PROVE  StoredOK'
<1>1. UNCHANGED <<attempt, chunks, index, task, request>>
  BY DEF SweepStep
<1>2. Untouched' <=> Untouched
  BY <1>1 DEF Untouched
<1>3. ASSUME NEW kind \in {"drained", "stale", "stuck"}, Recover(kind)
      PROVE  /\ row'.status = "deleted" <=> row.status = "deleted"
             /\ row'.status = "completed" => row.status = "completed" \/ kind # "stuck"
  BY <1>3 DEF Recover, Written, InProgress, TypeInv, TypeOK
<1>4. /\ row'.status = "deleted" <=> row.status = "deleted"
      /\ row'.status = "completed" => row.status = "completed" \/ ~Untouched
  <2>1. ASSUME NEW kind \in {"drained", "stale", "stuck"}, Sweep(kind)
        PROVE  /\ row'.status = "deleted" <=> row.status = "deleted"
               /\ row'.status = "completed" => row.status = "completed" \/ ~Untouched
    <3>1. kind # "stuck" => ~Untouched
      BY <2>1, NoSpanFacts DEF Sweep, Found
    <3> QED BY <1>3, <2>1, <3>1 DEF Sweep
  <2>2. ASSUME ApplySweep
        PROVE  /\ row'.status = "deleted" <=> row.status = "deleted"
               /\ row'.status = "completed" => row.status = "completed" \/ ~Untouched
    <3>1. sweep \in {"drained", "stale", "stuck"}
      BY <2>2 DEF ApplySweep, TypeInv, TypeOK
    <3> QED BY <1>3, <2>2, <3>1 DEF ApplySweep, SweepOK
  <2> QED BY <2>1, <2>2 DEF SweepStep
<1>5. Swept' <=> Swept
  BY <1>1, <1>4 DEF Swept
<1>6. Rewriting' <=> Rewriting
  BY <1>1 DEF Rewriting, Reparsing
<1> QED BY <1>1, <1>2, <1>4, <1>5, <1>6 DEF StoredOK, Both

LEMMA StoredKept ==
  ASSUME TypeInv, Steady, RequestOK, Base, SweepOK, SweepsInTime, "empty" \notin setting,
         StoredOK, [Next]_vars
  PROVE  StoredOK'
<1>1. CASE TaskStep
  <2>1. UNCHANGED <<setting, request>>
    BY <1>1 DEF TaskStep
  <2>2. ASSUME NEW t \in Documents, DocumentStep(t) \/ Acknowledge(t) \/ Stop(t)
        PROVE  StoredOK'
    BY <2>1, <2>2, StoredDocument
  <2>3. ASSUME NEW t \in Others, OtherStep(t)
        PROVE  StoredOK'
    BY <2>1, <2>3, StoredOther
  <2>4. \/ \E t \in Documents : DocumentStep(t) \/ Acknowledge(t) \/ Stop(t)
        \/ \E t \in Others : OtherStep(t)
    BY <1>1, IdleFacts DEF TaskStep, OtherStep, Others
  <2> QED BY <2>2, <2>3, <2>4
<1>2. CASE CrashStep
  BY <1>2 DEF CrashStep, Crash, Steady, Without
<1>3. CASE RequestStep
  BY <1>3, StoredRequest
<1>4. CASE SweepStep
  BY <1>4, StoredSweep
<1>5. CASE UNCHANGED vars
  <2>1. Untouched' <=> Untouched
    BY <1>5 DEF vars, Untouched
  <2> QED BY <1>5, <2>1 DEF vars, StoredOK, Swept, Both, Rewriting, Reparsing
<1> QED BY <1>1, <1>2, <1>3, <1>4, <1>5 DEF Next

StoredInv == /\ IInv
             /\ Steady => SweepOK
             /\ Steady /\ SweepsInTime /\ "empty" \notin setting => StoredOK

LEMMA StoredInductive == Spec => []StoredInv
<1>1. Init => StoredInv
  <2> SUFFICES ASSUME Init PROVE StoredInv
    OBVIOUS
  <2>1. IInv
    BY IInvInductive
  <2>2. \A t \in Tasks : t # Document(1) => task[t] = Fresh
    BY TaskFacts DEF Init
  <2>3. Untouched /\ \A d \in Documents : task[d].at \in {"none", "queued"}
    <3>1. Fresh.at = "none"
      BY DEF Fresh
    <3>2. task[Document(1)] = Queued
      BY TaskFacts DEF Init
    <3> QED BY <2>2, <3>1, <3>2, RunFacts, TaskFacts, RecordFacts DEF Untouched
  <2>4. row.status = "pending" /\ sweep = "none"
    BY DEF Init
  <2> QED BY <2>1, <2>3, <2>4 DEF StoredInv, StoredOK, SweepOK
<1>2. StoredInv /\ [Next]_vars => StoredInv'
  <2> SUFFICES ASSUME StoredInv, [Next]_vars PROVE StoredInv'
    OBVIOUS
  <2>1. IInv'
    BY IInvInductive DEF StoredInv
  <2>2. setting' = setting
    BY DEF Next, TaskStep, CrashStep, RequestStep, SweepStep, vars
  <2>3. ASSUME Steady PROVE SweepOK'
    BY <2>3, SweepKept DEF StoredInv, IInv
  <2>4. ASSUME Steady, SweepsInTime, "empty" \notin setting PROVE StoredOK'
    BY <2>4, StoredKept DEF StoredInv, IInv
  <2> QED BY <2>1, <2>2, <2>3, <2>4 DEF StoredInv, Steady, Without, SweepsInTime
<1> QED BY <1>1, <1>2, PTL DEF Spec

\* A document shown as completed is stored and indexed with the chunks of its
\* latest attempt and no others (ProcessDocument, processChunks, the post-process
\* task, the requests of users and housekeeping, in every interleaving).
THEOREM SearchableHolds == Spec => []CompletedIsSearchable
<1>1. StoredInv => CompletedIsSearchable
  <2> SUFFICES ASSUME StoredInv, Without({"empty", "impatient", "crash"}), SweepsInTime,
                      row.status = "completed", request.at = "idle"
               PROVE  Both
    BY DEF CompletedIsSearchable, Both
  <2>1. StoredOK
    BY DEF StoredInv, Steady, Without
  <2> QED BY <2>1 DEF StoredOK, Swept, Rewriting
<1> QED BY <1>1, StoredInductive, PTL

-----------------------------------------------------------------------------
(* What a deleted document leaves behind. *)

\* A deleted row stays deleted, and a delete is carried through.
Gone == row.status = "deleted" \/ (request.kind = "delete" /\ request.at # "idle")

LEMMA GoneKept ==
  ASSUME TypeInv, RequestOK, Gone, [Next]_vars
  PROVE  Gone'
<1>1. TypeOK
  BY DEF TypeInv
<1>2. ASSUME NEW s \in Statuses, UpdateKnowledge(s), row.status = "deleted"
      PROVE  row'.status = "deleted"
  BY <1>1, <1>2, RowFacts
<1>3. ASSUME row.status = "deleted" PROVE row'.status = "deleted"
  <2>1. CASE TaskStep
    <3>1. CASE \E t \in Documents : DocumentStep(t)
      <4>1. UNCHANGED row \/ \E s \in {"processing", "failed", "completed"} : UpdateKnowledge(s)
        BY <3>1
           DEF DocumentStep, StartDocument, MarkProcessing, ConvertFails, Reject, CleanUp,
               CheckBeforeWrite, WriteChunks, CheckBeforeIndex, BatchIndex, BatchIndexFails,
               CheckAfterIndex, FinishIndexing, EnqueueNext
      <4> QED BY <1>2, <1>3, <4>1 DEF Statuses
    <3>2. CASE \E t \in ImageTasks : ImageStep(t)
      BY <1>3, <3>2 DEF ImageStep, StartImage, ImageEnds, ImageFails, CountImage
    <3>3. ASSUME NEW t, Decrement(t) \/ Promote(t) PROVE row'.status = "deleted"
      BY <1>1, <1>3, <3>3 DEF Decrement, Promote, Written, TypeOK
    <3>4. CASE \E t \in PostTasks : PostStep(t)
      <4>1. UNCHANGED row \/ (\E s \in {"failed", "completed"} : UpdateKnowledge(s))
              \/ \E t : Decrement(t) \/ Promote(t)
        BY <1>3, <3>4
           DEF PostStep, StartPost, PostFails, ListChunks, CompleteEmpty, SetFinalizing, FanOut
      <4> QED BY <1>2, <1>3, <3>3, <4>1 DEF Statuses
    <3>5. CASE \E t \in SubTasks : SubStep(t)
      <4>1. \A t \in SubTasks : task[t].seen \in Statuses
        BY <1>1, TaskFacts DEF TypeOK
      <4>2. UNCHANGED row \/ (\E t \in SubTasks : UpdateKnowledge(task[t].seen))
              \/ \E t : Decrement(t) \/ Promote(t)
        BY <3>5 DEF SubStep, StartSubtask, MarkSummary, WorkEnds, SaveSummary, WorkFails
      <4> QED BY <1>2, <1>3, <3>3, <4>1, <4>2
    <3>6. CASE \E t \in Tasks : Acknowledge(t) \/ Stop(t)
      BY <1>3, <3>6 DEF Acknowledge, Stop
    <3> QED BY <2>1, <3>1, <3>2, <3>4, <3>5, <3>6 DEF TaskStep
  <2>2. CASE RequestStep
    <3>1. CASE WriteStatus
      <4>1. CASE request.kind = "cancel"
        BY <1>1, <1>3, <3>1, <4>1 DEF WriteStatus, Written, TypeOK
      <4>2. CASE request.kind \in {"delete", "reparse"}
        <5>1. \E s \in {"deleting", "pending"} : UpdateKnowledge(s)
          BY <3>1, <4>2 DEF WriteStatus
        <5> QED BY <1>2, <1>3, <5>1 DEF Statuses
      <4> QED BY <3>1, <4>1, <4>2 DEF WriteStatus, TypeInv, AskedOK, Requests
    <3>2. CASE ~WriteStatus
      <4>1. UNCHANGED row \/ row' = [row EXCEPT !.status = "deleted"]
              \/ row' = Written([row EXCEPT !.count = 0]) \/ UpdateKnowledge("failed")
        BY <2>2, <3>2
           DEF RequestStep, Ask, Dequeue, OpenAttempt, CleanResources, RemoveRow, ResetCount,
               EnqueueReparse
      <4> QED BY <1>1, <1>2, <1>3, <4>1 DEF Written, TypeOK, Statuses
    <3> QED BY <3>1, <3>2
  <2>3. CASE SweepStep
    BY <1>3, <2>3 DEF SweepStep, Sweep, ApplySweep, Recover, Written, InProgress, TypeInv, TypeOK
  <2>4. CASE CrashStep \/ UNCHANGED vars
    BY <1>3, <2>4 DEF CrashStep, Crash, vars
  <2> QED BY <2>1, <2>2, <2>3, <2>4 DEF Next
<1>4. ASSUME request.kind = "delete", request.at # "idle"
      PROVE  row'.status = "deleted" \/ (request'.kind = "delete" /\ request'.at # "idle")
  <2>1. CASE RequestStep
    <3>1. request.at \in {"write", "dequeue", "clean", "remove"}
      BY <1>4 DEF RequestOK
    <3>2. \A at : Reached(at) => request'.kind = request.kind /\ request'.at = at
      BY <1>1 DEF Reached, TypeOK
    <3>3. CASE WriteStatus
      <4>1. Reached("dequeue") \/ Reached("clean")
        BY <1>4, <3>3 DEF WriteStatus
      <4> QED BY <1>4, <3>2, <4>1
    <3>4. CASE Dequeue
      BY <1>4, <3>2, <3>4 DEF Dequeue
    <3>5. CASE CleanResources
      BY <1>4, <3>2, <3>5 DEF CleanResources
    <3>6. CASE RemoveRow
      BY <1>1, <3>6 DEF RemoveRow, TypeOK
    <3> QED BY <2>1, <3>1, <3>3, <3>4, <3>5, <3>6
            DEF RequestStep, Ask, OpenAttempt, ResetCount, EnqueueReparse
  <2>2. CASE ~RequestStep
    <3>1. UNCHANGED request
      BY <2>2 DEF Next, TaskStep, CrashStep, SweepStep, vars
    <3> QED BY <1>4, <3>1
  <2> QED BY <2>1, <2>2
<1> QED BY <1>3, <1>4 DEF Gone

\* Only a cancel or a delete that can reach the workers tells a task to stop: a
\* reparse finds none at work.
QuietOK == "signal" \notin setting \/ ("cancel" \notin setting /\ ~Gone) =>
             \A t \in Tasks : ~task[t].signalled

LEMMA QuietKept ==
  ASSUME TypeInv, Steady, RequestOK, Base, QuietOK, [Next]_vars
  PROVE  QuietOK'
<1>0. setting' = setting
  BY DEF Next, TaskStep, CrashStep, RequestStep, SweepStep, vars
<1> SUFFICES ASSUME "signal" \notin setting \/ ("cancel" \notin setting /\ ~Gone'),
                    NEW s \in Tasks
             PROVE  ~task'[s].signalled
  BY <1>0 DEF QuietOK
<1>1. TypeOK /\ \A t \in Tasks : ~task[t].signalled
  BY GoneKept DEF TypeInv, QuietOK
<1>2. ASSUME NEW t \in Tasks, Only(t), ~task'[t].signalled PROVE ~task'[s].signalled
  BY <1>1, <1>2 DEF Only
<1>3. ASSUME NEW t \in Tasks,
             End(t) \/ Finish(t) \/ Requeue(t) \/ (\E at \in Phases : Move(t, at))
      PROVE  ~task'[s].signalled
  <2>1. ~Ended.signalled
    BY DEF Ended, Fresh
  <2>2. CASE End(t) \/ Finish(t) \/ Requeue(t)
    BY <1>1, <1>2, <2>1, <2>2, EndFacts, FinishFacts, RequeueFacts
  <2>3. CASE \E at \in Phases : Move(t, at)
    BY <1>1, <1>2, <2>3, MoveFacts
  <2> QED BY <1>3, <2>2, <2>3
<1>4. ASSUME task' = task PROVE ~task'[s].signalled
  BY <1>1, <1>4
<1>5. ~Queued.signalled /\ ~Ended.signalled
  BY DEF Queued, Ended, Fresh
<1>6. CASE TaskStep
  <2>1. UNCHANGED <<setting, request>>
    BY <1>6 DEF TaskStep
  <2>2. ASSUME NEW t \in Documents, DocumentStep(t) PROVE ~task'[s].signalled
    <3>1. t \in Tasks
      BY TaskFacts
    <3>2. CASE EnqueueNext(t)
      <4> DEFINE next == IF Pictures = {} THEN {Post(attempt, None)}
                         ELSE {Image(attempt, i) : i \in Pictures}
      <4>1. PICK refused \in SUBSET next :
                 /\ \A u \in next \ refused : task'[u] = Queued
                 /\ \A u \in Tasks : u # t /\ u \notin next \ refused => task'[u] = task[u]
        BY <3>2, EnqueueFacts
      <4>2. ~task'[t].signalled
        BY <3>2, EnqueueFacts
      <4> HIDE DEF next
      <4> QED BY <1>1, <1>5, <4>1, <4>2
    <3>3. CASE MarkProcessing(t)
      BY <1>1, <1>2, <3>1, <3>3, MarkFacts
    <3>4. CASE StartDocument(t) \/ ConvertFails(t) \/ Reject(t) \/ CleanUp(t)
               \/ CheckBeforeWrite(t) \/ WriteChunks(t) \/ CheckBeforeIndex(t) \/ BatchIndex(t)
               \/ BatchIndexFails(t) \/ CheckAfterIndex(t) \/ FinishIndexing(t)
      <4>1. {"loaded", "cleaned", "writing", "written", "indexing", "indexed", "checked",
             "saved"} \subseteq Phases
        BY DEF Phases
      <4>2. \/ End(t) \/ Finish(t) \/ Requeue(t)
            \/ \E at \in {"loaded", "cleaned", "writing", "written", "indexing", "indexed",
                          "checked", "saved"} : Move(t, at)
        BY <3>4 DEF StartDocument, ConvertFails, Reject, CleanUp, CheckBeforeWrite, WriteChunks,
                    CheckBeforeIndex, BatchIndex, BatchIndexFails, CheckAfterIndex, FinishIndexing
      <4> QED BY <1>3, <3>1, <4>1, <4>2
    <3> QED BY <2>2, <3>2, <3>3, <3>4 DEF DocumentStep
  <2>3. ASSUME NEW t \in ImageTasks, ImageStep(t) PROVE ~task'[s].signalled
    <3>1. t \in Tasks /\ "running" \in Phases /\ "counting" \in Phases
      BY TaskFacts DEF Phases
    <3>2. CASE CountImage(t)
      BY <1>1, <1>5, <3>2, CountFacts, TaskFacts
    <3>3. CASE StartImage(t) \/ ImageEnds(t) \/ ImageFails(t)
      BY <1>3, <3>1, <3>3 DEF StartImage, ImageEnds, ImageFails
    <3> QED BY <2>3, <3>2, <3>3 DEF ImageStep
  <2>4. ASSUME NEW t \in PostTasks \cup SubTasks, Decrement(t) \/ Promote(t)
        PROVE  ~task'[s].signalled
    <3>1. t \in Tasks /\ "promoting" \in Phases
      BY <2>4, TaskFacts DEF Phases
    <3>2. CASE Promote(t) /\ task[t].short > 1
      <4>1. Only(t)
        BY <1>1, <3>1, <3>2, FinalizeType
      <4>2. task'[t].signalled = task[t].signalled
        BY <1>1, <3>1, <3>2 DEF Promote, TypeOK
      <4> QED BY <1>1, <1>2, <3>1, <4>1, <4>2
    <3>3. CASE Decrement(t) \/ (Promote(t) /\ ~(task[t].short > 1))
      BY <1>3, <3>1, <3>3 DEF Decrement, Promote
    <3> QED BY <2>4, <3>2, <3>3
  <2>5. ASSUME NEW t \in PostTasks, PostStep(t) PROVE ~task'[s].signalled
    <3>1. t \in Tasks /\ {"listing", "completing", "seeding", "fanning"} \subseteq Phases
      BY TaskFacts DEF Phases
    <3>2. CASE FanOut(t)
      <4> DEFINE subs == {Sub(attempt, i) : i \in Subtasks}
      <4>1. PICK refused \in SUBSET subs :
                 /\ \A u \in subs \ refused : task'[u] = Queued
                 /\ \A u \in Tasks : u # t /\ u \notin subs \ refused => task'[u] = task[u]
                 /\ refused = {} => ~task'[t].signalled
                 /\ refused # {} => task'[t].signalled = task[t].signalled
        BY <3>2, FanOutFacts
      <4> HIDE DEF subs
      <4> QED BY <1>1, <1>5, <4>1
    <3>3. CASE StartPost(t) \/ PostFails(t) \/ ListChunks(t) \/ CompleteEmpty(t)
               \/ SetFinalizing(t)
      <4>1. \/ End(t) \/ Finish(t) \/ Requeue(t)
            \/ \E at \in {"listing", "completing", "seeding", "fanning"} : Move(t, at)
        BY <3>3 DEF StartPost, PostFails, ListChunks, CompleteEmpty, SetFinalizing
      <4> QED BY <1>3, <3>1, <4>1
    <3> QED BY <2>4, <2>5, <3>2, <3>3 DEF PostStep
  <2>6. ASSUME NEW t \in SubTasks, SubStep(t) PROVE ~task'[s].signalled
    <3>1. t \in Tasks /\ {"draining", "working", "saving"} \subseteq Phases
      BY TaskFacts DEF Phases
    <3>2. CASE StartSubtask(t) \/ MarkSummary(t)
      <4>1. Only(t)
        BY <2>1, <2>6, SubLocal DEF Local
      <4>2. CASE task' = [task EXCEPT ![t].at = "loaded", ![t].seen = row.status]
        BY <1>1, <1>2, <3>1, <4>1, <4>2 DEF TypeOK
      <4>3. CASE task' = [task EXCEPT ![t].at = "working", ![t].text = chunks]
        BY <1>1, <1>2, <3>1, <4>1, <4>3 DEF TypeOK
      <4>4. \/ Finish(t) \/ \E at \in {"draining", "working"} : Move(t, at)
            \/ task' = [task EXCEPT ![t].at = "loaded", ![t].seen = row.status]
            \/ task' = [task EXCEPT ![t].at = "working", ![t].text = chunks]
        BY <3>2 DEF StartSubtask, MarkSummary
      <4> QED BY <1>3, <3>1, <4>2, <4>3, <4>4
    <3>3. CASE WorkEnds(t) \/ SaveSummary(t) \/ WorkFails(t)
      BY <1>3, <3>1, <3>3 DEF WorkEnds, SaveSummary, WorkFails
    <3> QED BY <2>4, <2>6, <3>2, <3>3 DEF SubStep
  <2>7. ASSUME NEW t \in Tasks, Acknowledge(t) \/ Stop(t) PROVE ~task'[s].signalled
    BY <1>3, <2>7 DEF Acknowledge, Stop
  <2> QED BY <1>6, <2>2, <2>3, <2>5, <2>6, <2>7 DEF TaskStep
<1>7. CASE CrashStep
  BY <1>7 DEF CrashStep, Crash, Steady, Without
<1>8. CASE RequestStep
  <2>1. CASE Dequeue
    <3>1. CASE "signal" \notin setting
      BY <1>1, <2>1, <3>1, DequeueFacts
    <3>2. CASE "signal" \in setting
      <4>1. request.at = "dequeue" /\ request.kind \in Requests \cap setting
        BY <2>1 DEF Dequeue, RequestOK
      <4>2. request.kind # "cancel"
        BY <3>2, <4>1
      <4>3. request.kind # "delete"
        <5>1. ~(request'.kind = "delete" /\ request'.at # "idle")
          BY <3>2 DEF Gone
        <5>2. ASSUME request.kind = "delete" PROVE request'.kind = "delete" /\ request'.at = "clean"
          <6>1. Reached("clean")
            BY <2>1, <5>2 DEF Dequeue
          <6> QED BY <1>1, <5>2, <6>1 DEF Reached, TypeOK
        <5> QED BY <5>1, <5>2
      <4>4. Reparsing
        BY <4>1, <4>2, <4>3 DEF Requests, Reparsing
      <4>5. Free(s)
        BY <4>4 DEF Base, AloneOK
      <4>6. task'[s] = task[s]
        BY <2>1, <4>5, DequeueFacts, RecordFacts DEF Free, Idle
      <4> QED BY <1>1, <4>6
    <3> QED BY <3>1, <3>2
  <2>2. CASE EnqueueReparse
    <3> DEFINE x == [Queued EXCEPT !.attempt = attempt]
    <3>1. ~x.signalled
      BY DEF Queued, Fresh
    <3>2. UNCHANGED task \/ task' = [task EXCEPT ![Document(2)] = x]
      BY <2>2 DEF EnqueueReparse
    <3> HIDE DEF x
    <3> QED BY <1>1, <3>1, <3>2, TaskFacts DEF TypeOK
  <2>3. CASE ~Dequeue /\ ~EnqueueReparse
    BY <1>4, <1>8, <2>3
       DEF RequestStep, Ask, WriteStatus, OpenAttempt, CleanResources, RemoveRow, ResetCount
  <2> QED BY <2>1, <2>2, <2>3
<1>9. CASE SweepStep \/ UNCHANGED vars
  BY <1>4, <1>9 DEF SweepStep, vars
<1> QED BY <1>6, <1>7, <1>8, <1>9 DEF Next

\* A delete that has gone past its first write, or is through.
Deleting == request.kind = "delete" /\ request.at \notin {"idle", "write"}

\* What is stored for a document that was swept belongs to the document task,
\* which looks at the status again before it goes on; and no task that does not
\* look writes the status again.
OrphanOK ==
  /\ Swept /\ chunks # {} => \E d \in Documents : task[d].at \in {"written", "indexing", "indexed"}
  /\ Swept /\ index # {} => \E d \in Documents : task[d].at = "indexed"
  /\ \A d \in Documents :
       Deleting \/ row.status = "deleted" =>
         Free(d) \/ (Leaving /\ task[d].at \notin {"loaded", "checked"})

LEMMA OrphanDocument ==
  ASSUME TypeInv, Steady, Base, QuietOK, OrphanOK, Without({"signal", "fail"}),
         UNCHANGED <<setting, request>>,
         NEW t \in Documents, DocumentStep(t) \/ Acknowledge(t) \/ Stop(t)
  PROVE  OrphanOK'
<1>1. /\ ~Free(t) /\ t \in Tasks /\ TypeOK
      /\ \A d \in Documents : d # t => task'[d] = task[d] /\ Free(d)
  BY DocumentFacts DEF TypeInv
<1>2. /\ Swept /\ chunks # {} => task[t].at \in {"written", "indexing", "indexed"}
      /\ Swept /\ index # {} => task[t].at = "indexed"
      /\ Deleting \/ row.status = "deleted" => Leaving /\ task[t].at \notin {"loaded", "checked"}
  BY <1>1 DEF OrphanOK, Free, Idle
<1>3. Swept => Leaving
  BY <1>2 DEF Swept, Deleting
<1>4. ASSUME row'.status = "deleted" => row.status = "deleted",
             Swept => \/ task'[t].at \in {"written", "indexing", "indexed"}
                      \/ chunks' = {},
             Swept => task'[t].at = "indexed" \/ index' = {},
             Deleting \/ row.status = "deleted" =>
               Free(t)' \/ (row' = row /\ task'[t].at \notin {"loaded", "checked"})
      PROVE  OrphanOK'
  <2>1. (Swept' => Swept) /\ (Deleting' <=> Deleting)
    BY <1>4 DEF Swept, Deleting
  <2>2. \A d \in Documents : d # t => Free(d)'
    BY <1>1 DEF Free, Idle
  <2> QED BY <1>2, <1>4, <2>1, <2>2 DEF OrphanOK, Leaving
<1>5. ASSUME Finish(t) \/ End(t), UNCHANGED row, Swept => chunks' = {} /\ index' = {}
      PROVE  OrphanOK'
  <2>1. Free(t)'
    BY <1>1, <1>5, FinishFacts, EndFacts, RecordFacts DEF Steady, Without, Free, Idle
  <2> QED BY <1>4, <1>5, <2>1
<1>6. ASSUME NEW at \in Phases, Move(t, at) PROVE task'[t].at = at
  BY <1>1, <1>6, MoveFacts
<1>7. Leaving => Aborted
  BY DEF Aborted, Leaving
<1>8. CASE StartDocument(t)
  <2>1. /\ task[t].at = "queued" /\ UNCHANGED <<row, chunks, index>>
        /\ End(t) \/ (~Leaving /\ Move(t, "loaded"))
    BY <1>7, <1>8 DEF StartDocument
  <2>2. Swept => chunks = {} /\ index = {}
    BY <1>2, <2>1
  <2>3. ~Leaving => OrphanOK'
    BY <1>2, <1>3, <1>4, <2>1
  <2> QED BY <1>5, <2>1, <2>2, <2>3
<1>9. CASE MarkProcessing(t)
  <2>1. task[t].at = "loaded" /\ UpdateKnowledge("processing")
    BY <1>9 DEF MarkProcessing
  <2>2. row'.status # "deleted" \/ row.status = "deleted"
    BY <1>1, <2>1, RowFacts DEF Statuses
  <2> QED BY <1>2, <1>4, <2>1, <2>2 DEF Swept, Deleting
<1>10. CASE CleanUp(t) \/ CheckBeforeWrite(t)
  <2>1. task[t].at \in {"marked", "cleaned"} /\ UNCHANGED row
        /\ ((Finish(t) /\ UNCHANGED <<chunks, index>>) \/ ~Leaving)
    BY <1>7, <1>10 DEF CleanUp, CheckBeforeWrite
  <2>2. Swept => chunks = {} /\ index = {}
    BY <1>2, <2>1
  <2>3. ~Leaving => OrphanOK'
    BY <1>2, <1>3, <1>4, <2>1
  <2> QED BY <1>5, <2>1, <2>2, <2>3
<1>11. CASE WriteChunks(t)
  <2>1. task[t].at = "writing" /\ Move(t, "written") /\ UNCHANGED <<row, index>>
    BY <1>11 DEF WriteChunks
  <2>2. task'[t].at = "written"
    BY <1>6, <2>1 DEF Phases
  <2>3. Swept => index' = {}
    BY <1>2, <2>1
  <2> QED BY <1>4, <2>1, <2>2, <2>3
<1>12. CASE CheckBeforeIndex(t)
  <2>1. task[t].at = "written" /\ UNCHANGED <<row, index>>
        /\ ((Finish(t) /\ Leaving /\ chunks' = {}) \/ ~Leaving)
    BY <1>7, <1>12 DEF CheckBeforeIndex
  <2>2. Swept => index' = {}
    BY <1>2, <2>1
  <2>3. ~Leaving => OrphanOK'
    BY <1>2, <1>3, <1>4, <2>1
  <2> QED BY <1>5, <2>1, <2>2, <2>3
<1>13. CASE BatchIndex(t)
  <2>1. Move(t, "indexed") /\ UNCHANGED row
    BY <1>13 DEF BatchIndex
  <2>2. task'[t].at = "indexed"
    BY <1>6, <2>1 DEF Phases
  <2> QED BY <1>4, <2>1, <2>2
<1>14. CASE CheckAfterIndex(t)
  <2>1. UNCHANGED row
        /\ ((Finish(t) /\ chunks' = {} /\ index' = {}) \/ ~Leaving)
    BY <1>7, <1>14 DEF CheckAfterIndex
  <2>2. ~Leaving => OrphanOK'
    BY <1>2, <1>3, <1>4, <2>1
  <2> QED BY <1>5, <2>1, <2>2
<1>15. CASE FinishIndexing(t)
  <2>1. task[t].at = "checked" /\ \E s \in {"completed", "processing"} : UpdateKnowledge(s)
    BY <1>15 DEF FinishIndexing
  <2>2. row'.status # "deleted" \/ row.status = "deleted"
    BY <1>1, <2>1, RowFacts DEF Statuses
  <2> QED BY <1>2, <1>4, <2>1, <2>2 DEF Swept, Deleting
<1>16. CASE EnqueueNext(t)
  <2>1. task[t].at = "saved" /\ UNCHANGED <<row, chunks, index>>
    BY <1>16 DEF EnqueueNext
  <2>2. Free(t)'
    BY <1>16, EnqueueFacts DEF Free, Idle
  <2>3. Swept => chunks = {} /\ index = {}
    BY <1>2, <2>1
  <2> QED BY <1>4, <2>1, <2>2, <2>3
<1>17. CASE Acknowledge(t) \/ Stop(t)
  <2>1. ~Stop(t)
    BY <1>1 DEF Stop, QuietOK, Without
  <2>2. ~Acknowledge(t)
    BY <1>1 DEF Acknowledge, Base, PhaseOK, PhaseFits, Held
  <2> QED BY <1>17, <2>1, <2>2
<1>18. ~(ConvertFails(t) \/ Reject(t) \/ BatchIndexFails(t))
  BY DEF ConvertFails, Reject, BatchIndexFails, Without
<1> QED BY <1>8, <1>9, <1>10, <1>11, <1>12, <1>13, <1>14, <1>15, <1>16, <1>17, <1>18
        DEF DocumentStep

LEMMA OrphanOther ==
  ASSUME TypeInv, Steady, Base, OrphanOK, UNCHANGED <<setting, request>>,
         NEW t \in Others, OtherStep(t)
  PROVE  OrphanOK'
<1>1. /\ UNCHANGED <<chunks, index>>
      /\ \A d \in Documents : Free(d) /\ task'[d] = task[d]
      /\ row'.status = "deleted" <=> row.status = "deleted"
  BY OtherFacts
<1>2. Swept' <=> Swept
  BY <1>1 DEF Swept
<1> QED BY <1>1, <1>2 DEF OrphanOK, Free, Idle

LEMMA OrphanRequest ==
  ASSUME TypeInv, Steady, RequestOK, Base, OrphanOK, "overwrite" \notin setting, RequestStep
  PROVE  OrphanOK'
<1> USE DEF RequestStep
<1>1. TypeOK
  BY DEF TypeInv
<1>2. CASE \E kind \in Requests : Ask(kind)
  <2>1. UNCHANGED <<row, chunks, index, task>> /\ request.at = "idle"
    BY <1>2 DEF Ask
  <2>2. ~Deleting'
    <3>1. PICK kind \in Requests : Ask(kind)
      BY <1>2
    <3>2. CASE kind = "delete"
      BY <3>1, <3>2 DEF Ask, DeleteKnowledge, Deleting
    <3>3. CASE kind # "delete"
      BY <3>1, <3>3 DEF Ask, Deleting, Requests
    <3> QED BY <3>2, <3>3
  <2>3. Swept' => Swept
    BY <2>1, <2>2 DEF Swept, Deleting
  <2> QED BY <2>1, <2>2, <2>3 DEF OrphanOK, Free, Leaving
<1>3. CASE WriteStatus
  <2>1. /\ UNCHANGED <<chunks, index, task>> /\ request.at = "write"
        /\ request.kind \in Requests
        /\ \A d \in Documents : task[d].at \notin {"loaded", "checked"}
    BY <1>3 DEF WriteStatus, TypeInv, AskedOK
  <2>2. request'.kind = request.kind /\ request'.at # "remove"
    <3>1. \A at : Reached(at) => request'.kind = request.kind /\ request'.at = at
      BY <1>1 DEF Reached, TypeOK
    <3>2. CASE request.kind = "cancel"
      BY <1>3, <3>1, <3>2 DEF WriteStatus
    <3>3. CASE request.kind = "delete"
      <4>1. Reached("dequeue") \/ Reached("clean")
        BY <1>3, <3>3 DEF WriteStatus
      <4> QED BY <3>1, <4>1
    <3>4. CASE request.kind = "reparse"
      BY <1>3, <3>1, <3>4 DEF WriteStatus
    <3> QED BY <2>1, <3>2, <3>3, <3>4 DEF Requests
  <2>3. CASE request.kind = "delete"
    <3>1. UpdateKnowledge("deleting")
      BY <1>3, <2>3 DEF WriteStatus
    <3>2. row'.status \in {"deleting", "deleted"} /\ (row'.status = "deleted" => row.status = "deleted")
      BY <1>1, <3>1, RowFacts DEF Statuses
    <3>3. Swept' => Swept
      BY <2>2, <3>2 DEF Swept
    <3> QED BY <2>1, <3>2, <3>3 DEF OrphanOK, Leaving
  <2>4. CASE request.kind # "delete"
    <3>1. row'.status = "deleted" <=> row.status = "deleted"
      <4>1. CASE request.kind = "cancel"
        BY <1>1, <1>3, <4>1 DEF WriteStatus, Written, TypeOK
      <4>2. CASE request.kind = "reparse"
        <5>1. UpdateKnowledge("pending")
          BY <1>3, <4>2 DEF WriteStatus
        <5> QED BY <1>1, <5>1, RowFacts DEF Statuses
      <4> QED BY <2>1, <2>4, <4>1, <4>2 DEF Requests
    <3>2. ~Deleting' /\ (Swept' => Swept)
      BY <2>2, <2>4, <3>1 DEF Deleting, Swept
    <3> QED BY <2>1, <3>1, <3>2 DEF OrphanOK, Leaving, Free
  <2> QED BY <2>3, <2>4
<1>4. CASE Dequeue
  <2>1. UNCHANGED <<row, chunks, index>> /\ request.at = "dequeue"
        /\ request'.at # "remove"
        /\ (Deleting' => Deleting)
    <3>1. \A at : Reached(at) => request'.kind = request.kind /\ request'.at = at
      BY <1>1 DEF Reached, TypeOK
    <3>2. Answered => request'.at = "idle"
      BY <1>1 DEF Answered, TypeOK
    <3>3. request.kind \in Requests /\ request.at = "dequeue"
      BY <1>4 DEF Dequeue, TypeInv, AskedOK
    <3>4. CASE request.kind = "cancel"
      <4>1. Answered
        BY <1>4, <3>4 DEF Dequeue
      <4>2. ~Deleting' /\ request'.at # "remove"
        BY <3>2, <4>1 DEF Deleting
      <4> QED BY <1>4, <3>3, <4>2 DEF Dequeue
    <3>5. CASE request.kind # "cancel"
      <4>1. request.kind = "delete" => Deleting
        BY <3>3 DEF Deleting
      <4>2. request'.kind = request.kind /\ request'.at # "remove"
        <5>1. CASE request.kind = "delete"
          BY <1>4, <3>1, <5>1 DEF Dequeue
        <5>2. CASE request.kind = "reparse"
          BY <1>4, <3>1, <5>2 DEF Dequeue
        <5> QED BY <3>3, <3>5, <5>1, <5>2 DEF Requests
      <4> QED BY <1>4, <3>3, <4>1, <4>2 DEF Dequeue, Deleting
    <3> QED BY <3>4, <3>5
  <2>2. \A d \in Documents : /\ Free(d)' => Free(d) \/ task[d].at = "queued"
                             /\ ~Free(d)' => ~Free(d) /\ task'[d].at = task[d].at
    BY <1>4, DequeueFacts, TaskFacts DEF Free, Idle
  <2>3. \A d \in Documents : task[d].at \in {"written", "indexing", "indexed"} =>
          task'[d].at = task[d].at
    BY <2>2 DEF Free, Idle
  <2>4. Swept' => Swept
    BY <2>1 DEF Swept
  <2> QED BY <2>1, <2>2, <2>3, <2>4 DEF OrphanOK, Leaving
<1>5. CASE CleanResources
  <2>1. UNCHANGED <<row, task>> /\ chunks' = {} /\ index' = {} /\ request.at = "clean"
        /\ request'.kind = request.kind
    BY <1>1, <1>5 DEF CleanResources, Reached, TypeOK
  <2>2. Deleting' => Deleting
    BY <2>1 DEF Deleting
  <2> QED BY <2>1, <2>2 DEF OrphanOK, Free, Leaving
<1>6. CASE RemoveRow
  <2>1. UNCHANGED <<chunks, index, task>> /\ request.at = "remove" /\ row'.status = "deleted"
    BY <1>1, <1>6 DEF RemoveRow, TypeOK
  <2>2. Swept /\ Deleting
    BY <2>1 DEF RequestOK, Requests, Swept, Deleting
  <2> QED BY <2>1, <2>2 DEF OrphanOK, Leaving, Free
<1>7. CASE OpenAttempt \/ ResetCount \/ EnqueueReparse
  <2>1. request.at \in {"open", "zero", "enqueue"} /\ UNCHANGED <<chunks, index>>
    BY <1>7 DEF OpenAttempt, ResetCount, EnqueueReparse
  <2>2. Reparsing /\ request.kind = "reparse"
    BY <2>1 DEF RequestOK, Requests, Reparsing
  <2>3. \A d \in Documents : Free(d)
    BY <2>2, TaskFacts DEF Base, AloneOK
  <2>4. Swept => chunks' = {} /\ index' = {}
    BY <2>1, <2>3 DEF OrphanOK, Free, Idle
  <2>5. ~Deleting'
    <3>1. CASE OpenAttempt \/ ResetCount
      BY <1>1, <2>2, <3>1 DEF OpenAttempt, ResetCount, Reached, Deleting, TypeOK
    <3>2. CASE EnqueueReparse
      BY <1>1, <3>2 DEF EnqueueReparse, Answered, Deleting, TypeOK
    <3> QED BY <1>7, <3>1, <3>2
  <2>6. row'.status = "deleted" <=> row.status = "deleted"
    <3>1. UNCHANGED row \/ UpdateKnowledge("failed") \/ row' = Written([row EXCEPT !.count = 0])
      BY <1>7 DEF OpenAttempt, ResetCount, EnqueueReparse
    <3>2. UpdateKnowledge("failed") => (row'.status = "deleted" <=> row.status = "deleted")
      BY <1>1, RowFacts DEF Statuses
    <3> QED BY <1>1, <3>1, <3>2 DEF Written, TypeOK
  <2>7. Swept' => Swept
    BY <2>5, <2>6 DEF Swept, Deleting
  <2>8. \A d \in Documents : task'[d].at \in {"none", "done", "queued"}
    <3> DEFINE x == [Queued EXCEPT !.attempt = attempt]
    <3>1. x.at = "queued"
      BY DEF Queued, Fresh
    <3>2. UNCHANGED task \/ task' = [task EXCEPT ![Document(2)] = x]
      BY <1>7 DEF OpenAttempt, ResetCount, EnqueueReparse
    <3> HIDE DEF x
    <3> QED BY <1>1, <2>3, <3>1, <3>2, TaskFacts DEF TypeOK, Free, Idle
  <2> QED BY <2>4, <2>5, <2>6, <2>7, <2>8 DEF OrphanOK, Leaving
<1> QED BY <1>2, <1>3, <1>4, <1>5, <1>6, <1>7

LEMMA OrphanSweep ==
  ASSUME TypeInv, Base, SweepsInTime, SweepOK, OrphanOK, SweepStep
  PROVE  OrphanOK'
<1>1. UNCHANGED <<chunks, index, task, request>>
  BY DEF SweepStep
<1>2. ASSUME NEW kind \in {"drained", "stale", "stuck"}, Recover(kind)
      PROVE  /\ row'.status = "deleted" <=> row.status = "deleted"
             /\ row' = row \/ kind # "stuck" \/ ~Leaving
  BY <1>2 DEF Recover, Written, InProgress, TypeInv, TypeOK, Leaving
<1>3. /\ row'.status = "deleted" <=> row.status = "deleted"
      /\ row' = row \/ ~Leaving \/ ~Untouched
  <2>1. ASSUME NEW kind \in {"drained", "stale", "stuck"}, Sweep(kind)
        PROVE  /\ row'.status = "deleted" <=> row.status = "deleted"
               /\ row' = row \/ ~Leaving \/ ~Untouched
    <3>1. kind # "stuck" => ~Untouched
      BY <2>1, NoSpanFacts DEF Sweep, Found
    <3> QED BY <1>2, <2>1, <3>1 DEF Sweep
  <2>2. ASSUME ApplySweep
        PROVE  /\ row'.status = "deleted" <=> row.status = "deleted"
               /\ row' = row \/ ~Leaving \/ ~Untouched
    <3>1. sweep \in {"drained", "stale", "stuck"}
      BY <2>2 DEF ApplySweep, TypeInv, TypeOK
    <3> QED BY <1>2, <2>2, <3>1 DEF ApplySweep, SweepOK
  <2> QED BY <2>1, <2>2 DEF SweepStep
<1>4. (Swept' <=> Swept) /\ (Deleting' <=> Deleting)
  BY <1>1, <1>3 DEF Swept, Deleting
<1>5. ~Untouched => \A d \in Documents : Free(d)
  BY IdleFacts
<1>6. \A d \in Documents :
        Deleting' \/ row'.status = "deleted" =>
          Free(d)' \/ (Leaving' /\ task'[d].at \notin {"loaded", "checked"})
  BY <1>1, <1>3, <1>4, <1>5 DEF OrphanOK, Free, Leaving
<1> QED BY <1>1, <1>4, <1>6 DEF OrphanOK

LEMMA OrphanKept ==
  ASSUME TypeInv, Steady, RequestOK, Base, QuietOK, SweepOK, SweepsInTime,
         Without({"signal", "fail", "overwrite"}), OrphanOK, [Next]_vars
  PROVE  OrphanOK'
<1>1. Without({"signal", "fail"}) /\ "overwrite" \notin setting
  BY DEF Without
<1>2. CASE TaskStep
  <2>1. UNCHANGED <<setting, request>>
    BY <1>2 DEF TaskStep
  <2>2. ASSUME NEW t \in Documents, DocumentStep(t) \/ Acknowledge(t) \/ Stop(t)
        PROVE  OrphanOK'
    BY <1>1, <2>1, <2>2, OrphanDocument
  <2>3. ASSUME NEW t \in Others, OtherStep(t)
        PROVE  OrphanOK'
    BY <2>1, <2>3, OrphanOther
  <2>4. \/ \E t \in Documents : DocumentStep(t) \/ Acknowledge(t) \/ Stop(t)
        \/ \E t \in Others : OtherStep(t)
    BY <1>2, IdleFacts DEF TaskStep, OtherStep, Others
  <2> QED BY <2>2, <2>3, <2>4
<1>3. CASE CrashStep
  BY <1>3 DEF CrashStep, Crash, Steady, Without
<1>4. CASE RequestStep
  BY <1>1, <1>4, OrphanRequest
<1>5. CASE SweepStep
  BY <1>5, OrphanSweep
<1>6. CASE UNCHANGED vars
  BY <1>6 DEF vars, OrphanOK, Swept, Deleting, Leaving, Free
<1> QED BY <1>2, <1>3, <1>4, <1>5, <1>6 DEF Next

OrphanInv == /\ StoredInv
             /\ Steady => QuietOK
             /\ Steady /\ SweepsInTime /\ Without({"signal", "fail", "overwrite"}) => OrphanOK

LEMMA OrphanInductive == Spec => []OrphanInv
<1>1. Init /\ StoredInv => OrphanInv
  <2> SUFFICES ASSUME Init, StoredInv PROVE OrphanInv
    OBVIOUS
  <2>1. chunks = {} /\ index = {} /\ row.status = "pending" /\ ~Deleting
    BY DEF Init, Deleting
  <2>2. \A t \in Tasks : task[t] \in {Fresh, Queued}
    BY TaskFacts DEF Init
  <2>3. ~Fresh.signalled /\ ~Queued.signalled
    BY DEF Fresh, Queued
  <2> QED BY <2>1, <2>2, <2>3 DEF OrphanInv, OrphanOK, QuietOK
<1>2. OrphanInv /\ StoredInv' /\ [Next]_vars => OrphanInv'
  <2> SUFFICES ASSUME OrphanInv, StoredInv', [Next]_vars PROVE OrphanInv'
    OBVIOUS
  <2>1. setting' = setting
    BY DEF Next, TaskStep, CrashStep, RequestStep, SweepStep, vars
  <2>2. ASSUME Steady PROVE QuietOK'
    BY <2>2, QuietKept DEF OrphanInv, StoredInv, IInv
  <2>3. ASSUME Steady, SweepsInTime, Without({"signal", "fail", "overwrite"}) PROVE OrphanOK'
    BY <2>3, OrphanKept DEF OrphanInv, StoredInv, IInv
  <2> QED BY <2>1, <2>2, <2>3 DEF OrphanInv, Steady, Without, SweepsInTime
<1> QED BY <1>1, <1>2, StoredInductive, PTL DEF Spec

\* Nothing is left in the chunk table and in the index of a document that was
\* deleted while it was processed (DeleteKnowledge, the checks of processChunks
\* between its writes).
THEOREM NoOrphans == Spec => []NoOrphanChunks
<1>1. OrphanInv => NoOrphanChunks
  <2> SUFFICES ASSUME OrphanInv,
                      Without({"signal", "crash", "fail", "overwrite", "impatient"}),
                      SweepsInTime, row.status = "deleted", \A t \in Documents : Free(t)
               PROVE  chunks = {} /\ index = {}
    BY DEF NoOrphanChunks
  <2>1. OrphanOK
    BY DEF OrphanInv, Steady, Without
  <2> QED BY <2>1 DEF OrphanOK, Swept, Free, Idle
<1> QED BY <1>1, OrphanInductive, PTL

-----------------------------------------------------------------------------
(* The join of the images. *)

LEMMA OneLess ==
  ASSUME NEW S, IsFiniteSet(S), NEW x \in S
  PROVE  /\ IsFiniteSet(S \ {x}) /\ Cardinality(S \ {x}) = Cardinality(S) - 1
         /\ Cardinality(S) \in Nat /\ Cardinality(S) > 0
<1>1. IsFiniteSet(S \ {x}) /\ Cardinality(S \ {x}) = Cardinality(S) - 1
  BY FS_RemoveElement
<1>2. Cardinality(S) \in Nat /\ Cardinality(S \ {x}) \in Nat
  BY <1>1, FS_CardinalityType
<1> QED BY <1>1, <1>2

LEMMA ImageSets ==
  ASSUME NEW a \in Attempts, NEW R \in SUBSET {Image(a, i) : i \in Images}
  PROVE  /\ IsFiniteSet(R)
         /\ Cardinality(R) \in 0 .. Cardinality(Images)
         /\ R = {Image(a, i) : i \in Images} => Cardinality(R) = Cardinality(Images)
<1> DEFINE S == {i \in Images : Image(a, i) \in R}
           f == [i \in S |-> Image(a, i)]
<1>1. \A i \in Images : Image(a, i).item = i
  BY TaskFacts
<1>2. f \in Bijection(S, R)
  <2>1. f \in [S -> R]
    OBVIOUS
  <2>2. \A x, y \in S : f[x] = f[y] => x = y
    BY <1>1
  <2>3. \A r \in R : \E i \in S : f[i] = r
    OBVIOUS
  <2> QED BY <2>1, <2>2, <2>3 DEF Bijection, Injection, Surjection, IsInjective
<1>3. ExistsBijection(S, R)
  BY <1>2 DEF ExistsBijection
<1>4. IsFiniteSet(S) /\ Cardinality(S) \in 0 .. Cardinality(Images)
  BY Sizes
<1>5. IsFiniteSet(R) /\ Cardinality(R) = Cardinality(S)
  BY <1>3, <1>4, FS_Bijection
<1>6. R = {Image(a, i) : i \in Images} => S = Images
  OBVIOUS
<1> QED BY <1>4, <1>5, <1>6

\* The images the row still waits for, and whether its post-process task has
\* been enqueued.
Left == {t \in ImageTasks : ~Free(t)}
Posted == \E p \in PostTasks : p.run = attempt /\ task[p].at # "none"

LEMMA LeftFacts ==
  ASSUME TypeInv, Base
  PROVE  /\ IsFiniteSet(Left) /\ Cardinality(Left) \in Nat
         /\ Cardinality(Left) = 0 <=> Left = {}
<1>1. IsFiniteSet(Left)
  <2>1. CASE Left = {}
    BY <2>1, FS_EmptySet
  <2>2. CASE Left # {}
    <3>1. \A t \in Left : t.run = attempt /\ t.run \in Attempts /\ t = Image(t.run, t.item)
                          /\ t.item \in Images
      BY TaskFacts, IdleFacts DEF Left, Base, AloneOK
    <3>2. attempt \in Attempts /\ Left \subseteq {Image(attempt, i) : i \in Images}
      BY <2>2, <3>1
    <3> QED BY <3>2, ImageSets
  <2> QED BY <2>1, <2>2
<1> QED BY <1>1, FS_CardinalityType, FS_EmptySet

\* The counter never runs ahead of the images, and the post-process task is not
\* enqueued before the last of them is through.
ImagesOK ==
  /\ Cardinality(Left) <= pendingImages
  /\ Posted => Left = {}

LEMMA ImagesShrink ==
  ASSUME TypeInv, Base, ImagesOK, UNCHANGED <<pendingImages, attempt>>,
         \A t \in ImageTasks : Free(t) => Free(t)',
         \A p \in PostTasks : p.run = attempt /\ task[p].at = "none" => task'[p].at = "none"
  PROVE  ImagesOK'
<1>1. Left' \subseteq Left
  BY DEF Left
<1>2. IsFiniteSet(Left') /\ Cardinality(Left') <= Cardinality(Left)
  BY <1>1, LeftFacts, FS_Subset
<1>3. Cardinality(Left') \in Nat /\ Cardinality(Left) \in Nat /\ pendingImages \in Nat
  BY <1>2, LeftFacts, FS_CardinalityType, Sizes DEF TypeInv, TypeOK
<1>4. Posted' => Posted
  BY DEF Posted
<1> QED BY <1>1, <1>2, <1>3, <1>4 DEF ImagesOK

LEMMA ImagesLocal ==
  ASSUME TypeInv, Base, ImagesOK, UNCHANGED pendingImages, NEW t \in Tasks, Local(t)
  PROVE  ImagesOK'
<1>1. \A u \in Tasks : Free(u) => Free(u)'
  BY DEF Local, Only, Free, Idle
<1>2. \A u \in Tasks : task[u].at = "none" => task'[u].at = "none"
  BY DEF Local, Only, Free, Idle
<1> QED BY <1>1, <1>2, ImagesShrink, IdleFacts DEF Local

\* A new attempt has no images and no post-process task yet.
LEMMA ImagesOpen ==
  ASSUME TypeInv, Base, attempt' = attempt + 1, UNCHANGED pendingImages,
         \A u \in ImageTasks : Free(u)', \A u \in Others : task'[u] = task[u]
  PROVE  ImagesOK'
<1>1. Left' = {}
  BY DEF Left
<1>2. ~Posted'
  BY NewAttempt, IdleFacts, RunFacts DEF Posted, Attempts
<1>3. pendingImages \in Nat
  BY Sizes DEF TypeInv, TypeOK
<1> QED BY <1>1, <1>2, <1>3, FS_EmptySet DEF ImagesOK

\* What the last step of the document task leaves to do.
LEMMA EnqueueLeft ==
  ASSUME TypeInv, Steady, Base, NEW t \in Documents, EnqueueNext(t)
  PROVE  /\ attempt \in Attempts
         /\ Left' \subseteq {Image(attempt, i) : i \in Pictures}
         /\ "enqueue" \notin setting => Left' = {Image(attempt, i) : i \in Pictures}
         /\ Pictures # {} => \A p \in PostTasks : task'[p] = task[p]
         /\ "enqueue" \notin setting /\ Pictures = {} => \E p \in PostTasks : ~Free(p)'
<1> DEFINE next == IF Pictures = {} THEN {Post(attempt, None)}
                   ELSE {Image(attempt, i) : i \in Pictures}
<1>1. /\ t \in Tasks /\ attempt \in Attempts /\ (Pictures = {} => next \subseteq PostTasks)
      /\ (Pictures # {} => next \subseteq ImageTasks)
      /\ \E refused \in SUBSET next :
           /\ "enqueue" \notin setting => refused = {}
           /\ \A u \in next \ refused : task'[u] = Queued
           /\ \A u \in Tasks : u # t /\ u \notin next \ refused => task'[u] = task[u]
  BY EnqueueFacts
<1>2. PICK refused \in SUBSET next :
           /\ "enqueue" \notin setting => refused = {}
           /\ \A u \in next \ refused : task'[u] = Queued
           /\ \A u \in Tasks : u # t /\ u \notin next \ refused => task'[u] = task[u]
  BY <1>1
<1>3. \A u \in ImageTasks : Free(u) /\ u # t /\ u \in Tasks
  <2>1. ~Free(t)
    BY DEF EnqueueNext, Free, Idle
  <2> QED BY <2>1, IdleFacts, TaskFacts
<1>4. Queued.at \notin Idle
  BY RecordFacts DEF Idle
<1>5. CASE Pictures = {}
  <2>1. next = {Post(attempt, None)} /\ {Image(attempt, i) : i \in Pictures} = {}
    BY <1>5
  <2>2. \A u \in ImageTasks : task'[u] = task[u]
    BY <1>1, <1>2, <1>3, <1>5, TaskFacts
  <2>3. Left' = {}
    BY <1>3, <2>2 DEF Left, Free
  <2>4. "enqueue" \notin setting => task'[Post(attempt, None)] = Queued
    BY <1>2, <2>1
  <2> QED BY <1>1, <1>4, <1>5, <2>1, <2>3, <2>4, TaskFacts DEF Free
<1>6. CASE Pictures # {}
  <2>1. next = {Image(attempt, i) : i \in Pictures} /\ next \subseteq ImageTasks
    BY <1>1, <1>6
  <2> HIDE DEF next
  <2>2. \A u \in ImageTasks : u \notin next => Free(u)'
    BY <1>2, <1>3 DEF Free
  <2>3. \A u \in next \ refused : ~Free(u)'
    BY <1>2, <1>4 DEF Free
  <2>4. \A p \in PostTasks : task'[p] = task[p]
    BY <1>1, <1>2, <2>1, TaskFacts
  <2> QED BY <1>1, <1>2, <1>6, <2>1, <2>2, <2>3, <2>4 DEF Left
<1> QED BY <1>5, <1>6

\* What counting an image leaves to do.
LEMMA CountLeft ==
  ASSUME TypeInv, Steady, Base, NEW t \in ImageTasks, CountImage(t)
  PROVE  /\ t \in Left /\ Left' = Left \ {t}
         /\ Cardinality(Left') = Cardinality(Left) - 1 /\ Cardinality(Left) > 0
         /\ Posted' => Posted \/ task'[Post(attempt, t.item)] # task[Post(attempt, t.item)]
<1> DEFINE next == Post(attempt, t.item)
<1>1. /\ t \in Tasks /\ ~Free(t) /\ next \in PostTasks /\ task'[t].at = "done"
      /\ \A u \in Tasks : u # t /\ u # next => task'[u] = task[u]
  BY CountFacts
<1> HIDE DEF next
<1>2. t \in Left /\ Left' = Left \ {t}
  <2>1. \A u \in ImageTasks : u # t => task'[u] = task[u]
    BY <1>1, TaskFacts
  <2>2. t \in Left
    BY <1>1 DEF Left
  <2>3. \A u \in ImageTasks : u # t => (task'[u].at \in Idle <=> task[u].at \in Idle)
    BY <2>1
  <2>4. task'[t].at \in Idle
    BY <1>1 DEF Idle
  <2>5. Left' = {u \in ImageTasks : ~(task'[u].at \in Idle)}
           /\ Left = {u \in ImageTasks : ~(task[u].at \in Idle)}
    BY DEF Left, Free
  <2> QED BY <2>2, <2>3, <2>4, <2>5
<1>3. Cardinality(Left') = Cardinality(Left) - 1 /\ Cardinality(Left) > 0
  BY <1>2, LeftFacts, OneLess
<1>4. UNCHANGED <<row, attempt>>
  BY DEF CountImage
<1>5. Posted' => Posted \/ task'[next] # task[next]
  BY <1>1, <1>4, TaskFacts DEF Posted
<1> QED BY <1>1, <1>2, <1>3, <1>5 DEF next

LEMMA ImagesKept ==
  ASSUME TypeInv, Steady, RequestOK, Base, Without({"redis", "lite"}), ImagesOK, [Next]_vars
  PROVE  ImagesOK'
<1>1. TypeOK /\ pendingImages \in Nat
  BY Sizes DEF TypeInv, TypeOK
<1>2. ASSUME task' = task, UNCHANGED <<pendingImages, attempt>> PROVE ImagesOK'
  BY <1>2, ImagesShrink DEF Free
<1>3. CASE TaskStep
  <2>1. UNCHANGED <<setting, request>>
    BY <1>3 DEF TaskStep
  <2>2. ASSUME NEW t \in Documents, DocumentStep(t) PROVE ImagesOK'
    <3>1. CASE EnqueueNext(t)
      <4>1. ~Posted /\ Left = {}
        <5>1. ~Free(t)
          BY <3>1 DEF EnqueueNext, Free, Idle
        <5> QED BY <5>1, IdleFacts, TaskFacts DEF Posted, Untouched, Left
      <4>2. UNCHANGED attempt
            /\ pendingImages' = IF Pictures = {} \/ "lite" \in setting THEN pendingImages
                               ELSE Cardinality(Pictures)
        BY <3>1 DEF EnqueueNext
      <4>3. CASE Pictures = {}
        <5>1. Left' = {}
          BY <3>1, <4>3, EnqueueLeft
        <5> QED BY <1>1, <4>2, <4>3, <5>1, FS_EmptySet DEF ImagesOK
      <4>4. CASE Pictures # {}
        <5>1. Pictures = Images
          BY <4>4 DEF Pictures
        <5>2. Cardinality(Left') \in 0 .. Cardinality(Images)
          BY <3>1, <5>1, EnqueueLeft, ImageSets
        <5>3. \A p \in PostTasks : task'[p] = task[p]
          BY <3>1, <4>4, EnqueueLeft
        <5>4. ~Posted'
          BY <4>1, <4>2, <5>3 DEF Posted
        <5>5. pendingImages' = Cardinality(Images)
          BY <4>2, <4>4, <5>1 DEF Without
        <5>6. Cardinality(Left') <= pendingImages'
          BY <5>2, <5>5, Sizes
        <5> QED BY <5>4, <5>6 DEF ImagesOK
      <4> QED BY <4>3, <4>4
    <3>2. CASE MarkProcessing(t)
      <4>1. ~Free(t) /\ UNCHANGED pendingImages
        BY <3>2 DEF MarkProcessing, Free, Idle
      <4>2. \A u \in Others : Free(u) /\ task'[u] = task[u]
        BY <3>2, <4>1, MarkFacts, IdleFacts DEF Only, Others
      <4>3. CASE attempt' = attempt
        BY <4>1, <4>2, <4>3, ImagesShrink, IdleFacts DEF Free
      <4>4. CASE attempt' = attempt + 1
        BY <4>1, <4>2, <4>4, ImagesOpen, IdleFacts DEF Free
      <4> QED BY <3>2, <4>3, <4>4 DEF MarkProcessing
    <3>3. CASE ~EnqueueNext(t) /\ ~MarkProcessing(t)
      <4>1. UNCHANGED pendingImages
        BY <2>2, <3>3
           DEF DocumentStep, StartDocument, ConvertFails, Reject, CleanUp, CheckBeforeWrite,
               WriteChunks, CheckBeforeIndex, BatchIndex, BatchIndexFails, CheckAfterIndex,
               FinishIndexing
      <4>2. Local(t) /\ t \in Tasks
        BY <2>1, <2>2, <3>3, DocumentAttempt, DocumentLocal, TaskFacts
      <4> QED BY <4>1, <4>2, ImagesLocal
    <3> QED BY <3>1, <3>2, <3>3
  <2>3. ASSUME NEW t \in ImageTasks, ImageStep(t) PROVE ImagesOK'
    <3>1. CASE CountImage(t)
      <4>1. /\ t \in Left /\ Left' = Left \ {t}
            /\ Cardinality(Left') = Cardinality(Left) - 1 /\ Cardinality(Left) > 0
            /\ Posted' => Posted \/ task'[Post(attempt, t.item)] # task[Post(attempt, t.item)]
        BY <3>1, CountLeft
      <4>2. /\ task'[Post(attempt, t.item)] = task[Post(attempt, t.item)] \/ pendingImages <= 1
            /\ pendingImages' = IF pendingImages = 0 THEN 0 ELSE pendingImages - 1
        BY <3>1, CountFacts DEF Without
      <4>3. Cardinality(Left) \in Nat /\ Cardinality(Left') \in Nat
        BY <4>1, LeftFacts
      <4>4. Cardinality(Left) <= pendingImages /\ ~Posted
        BY <4>1 DEF ImagesOK
      <4>5. Cardinality(Left') <= pendingImages'
        BY <1>1, <4>1, <4>2, <4>3, <4>4
      <4>6. Posted' => Left' = {}
        <5>1. Posted' => Cardinality(Left) = 1
          BY <1>1, <4>1, <4>2, <4>3, <4>4
        <5>2. Cardinality(Left) = 1 => Left' = {}
          <6>1. IsFiniteSet(Left')
            BY <4>1, LeftFacts, OneLess
          <6> QED BY <4>1, <6>1, FS_EmptySet
        <5> QED BY <5>1, <5>2
      <4> QED BY <4>5, <4>6 DEF ImagesOK
    <3>2. CASE StartImage(t) \/ ImageEnds(t) \/ ImageFails(t)
      <4>1. UNCHANGED pendingImages
        BY <3>2 DEF StartImage, ImageEnds, ImageFails
      <4> QED BY <2>1, <3>2, <4>1, ImageLocal, ImagesLocal, TaskFacts
    <3> QED BY <2>3, <3>1, <3>2 DEF ImageStep
  <2>4. ASSUME NEW t \in PostTasks, PostStep(t) PROVE ImagesOK'
    <3>1. UNCHANGED <<pendingImages, attempt>> /\ t \in Tasks
      BY <2>4, TaskFacts
         DEF PostStep, StartPost, PostFails, ListChunks, CompleteEmpty, SetFinalizing, FanOut,
             Decrement, Promote
    <3>2. CASE FanOut(t)
      <4> DEFINE subs == {Sub(attempt, i) : i \in Subtasks}
      <4>1. /\ ~Free(t) /\ subs \subseteq SubTasks
            /\ \A u \in Tasks : u # t /\ u \notin subs => task'[u] = task[u]
        BY <3>2, FanOutFacts
      <4> HIDE DEF subs
      <4>2. \A u \in ImageTasks \cup PostTasks : u # t => task'[u] = task[u]
        BY <4>1, TaskFacts
      <4>3. t \notin ImageTasks
        BY TaskFacts
      <4>4. task[t].at # "none"
        BY <4>1 DEF Free, Idle
      <4> QED BY <3>1, <4>2, <4>3, <4>4, ImagesShrink DEF Free
    <3>3. CASE ~FanOut(t)
      BY <2>1, <2>4, <3>1, <3>3, PostLocal, ImagesLocal
    <3> QED BY <3>2, <3>3
  <2>5. ASSUME NEW t \in SubTasks, SubStep(t) PROVE ImagesOK'
    <3>1. UNCHANGED pendingImages
      BY <2>5
         DEF SubStep, StartSubtask, MarkSummary, WorkEnds, SaveSummary, WorkFails, Decrement,
             Promote
    <3> QED BY <2>1, <2>5, <3>1, SubLocal, ImagesLocal, TaskFacts
  <2>6. ASSUME NEW t \in Tasks, Acknowledge(t) \/ Stop(t) PROVE ImagesOK'
    BY <2>1, <2>6, QueueLocal, ImagesLocal DEF Acknowledge, Stop
  <2> QED BY <1>3, <2>2, <2>3, <2>4, <2>5, <2>6 DEF TaskStep
<1>4. CASE CrashStep
  BY <1>4 DEF CrashStep, Crash, Steady, Without
<1>5. CASE RequestStep
  <2>1. UNCHANGED pendingImages
    BY <1>5 DEF RequestStep, Ask, WriteStatus, Dequeue, OpenAttempt, CleanResources, RemoveRow,
                ResetCount, EnqueueReparse
  <2>2. CASE Dequeue
    <3>1. attempt' = attempt
      BY <2>2 DEF Dequeue
    <3>2. \A t \in Tasks : (Free(t) => Free(t)') /\ (task[t].at = "none" => task'[t].at = "none")
      BY <2>2, DequeueFacts
    <3> QED BY <2>1, <3>1, <3>2, ImagesShrink, IdleFacts
  <2>3. CASE OpenAttempt
    <3>1. request.at = "open" /\ attempt' = attempt + 1 /\ task' = task
      BY <2>3 DEF OpenAttempt
    <3>2. \A t \in Tasks : Free(t)
      BY <3>1 DEF RequestOK, Requests, Reparsing, Base, AloneOK
    <3> QED BY <2>1, <3>1, <3>2, ImagesOpen, IdleFacts DEF Free
  <2>4. CASE EnqueueReparse
    <3>1. UNCHANGED task \/ task' = [task EXCEPT ![Document(2)] = [Queued EXCEPT !.attempt = attempt]]
      BY <2>4 DEF EnqueueReparse
    <3>2. attempt' = attempt
      BY <2>4 DEF EnqueueReparse
    <3>3. \A u \in Others : task'[u] = task[u]
      BY <1>1, <3>1, RunFacts DEF TypeOK
    <3> QED BY <2>1, <3>2, <3>3, ImagesShrink, IdleFacts DEF Free
  <2>5. CASE ~Dequeue /\ ~OpenAttempt /\ ~EnqueueReparse
    BY <1>2, <1>5, <2>1, <2>5
       DEF RequestStep, Ask, WriteStatus, CleanResources, RemoveRow, ResetCount
  <2> QED BY <2>2, <2>3, <2>4, <2>5
<1>6. CASE SweepStep \/ UNCHANGED vars
  BY <1>2, <1>6 DEF SweepStep, vars
<1> QED BY <1>3, <1>4, <1>5, <1>6 DEF Next

-----------------------------------------------------------------------------
(* The join of the enrichment subtasks. *)

\* The subtasks that hold a slot of the counter, and the slots a post-process
\* task has still to give back for the subtasks the queue refused.
Slot == {"queued", "loaded", "working", "saving", "draining"}
Busy == {t \in SubTasks : task[t].at \in Slot}
Owing == {"releasing", "promoting"}
Owed(p) == IF task[p].at = "releasing" THEN task[p].short ELSE task[p].short - 1

PostSlots(p) ==
  /\ task[p].at = "fanning" => row.count = Cardinality(Subtasks) /\ row.status # "completed"
  /\ task[p].at \in Owing => task[p].short > 0 /\ Cardinality(Busy) + Owed(p) <= row.count
  /\ task[p].at = "completing" => chunks = {}
  /\ task[p].at \in {"seeding", "fanning"} => chunks # {}

\* Every slot is counted, so that the counter does not come to zero before the
\* last of them is given back; and no task completes the row meanwhile: none of
\* those that save it has seen it completed, and a post-process task that found
\* no chunks means that there is nothing to enrich.
SlotsOK ==
  /\ row.status \notin {"deleting", "deleted", "cancelled"} /\ sweep = "none"
  /\ Cardinality(Busy) <= row.count
  /\ row.status = "completed" => Busy = {}
  /\ Busy # {} => chunks # {}
  /\ \A s \in SubTasks : Saves(s) => task[s].seen \in {"finalizing", "failed"}
  /\ \A p \in PostTasks : PostSlots(p)

LEMMA BusyFacts ==
  ASSUME TypeInv, Base
  PROVE  /\ IsFiniteSet(Busy) /\ Cardinality(Busy) \in Nat
         /\ Cardinality(Busy) = 0 <=> Busy = {}
         /\ \A t \in Busy : t \in Tasks /\ ~Free(t) /\ t.run = attempt
         /\ Busy # {} => Fanned
<1>1. \A t \in Busy : t \in Tasks /\ ~Free(t) /\ t.run = attempt
  <2>1. \A t \in Busy : t \in SubTasks /\ ~Free(t)
    BY DEF Busy, Slot, Free, Idle
  <2> QED BY <2>1, IdleFacts DEF Base, AloneOK
<1>2. IsFiniteSet(Busy)
  <2>1. CASE Busy = {}
    BY <2>1, FS_EmptySet
  <2>2. CASE Busy # {}
    <3>1. \A t \in Busy : t.run \in Attempts /\ t = Sub(t.run, t.item) /\ t.item \in Subtasks
      BY TaskFacts DEF Busy
    <3>2. attempt \in Attempts /\ Busy \subseteq {Sub(attempt, s) : s \in Subtasks}
      BY <1>1, <2>2, <3>1
    <3> QED BY <3>2, RefusedSubs
  <2> QED BY <2>1, <2>2
<1>3. Busy # {} => Fanned
  BY <1>1 DEF Fanned, Busy, Free, Idle
<1> QED BY <1>1, <1>2, <1>3, FS_CardinalityType, FS_EmptySet

\* Nothing to enrich is at work.
LEMMA SlotsClear ==
  ASSUME TypeInv, TypeInv',
         row'.status \notin {"deleting", "deleted", "cancelled"}, sweep' = "none",
         \A s \in SubTasks : Free(s)',
         \A p \in PostTasks : task'[p].at \in {"none", "done", "queued", "listing"}
  PROVE  SlotsOK'
<1>1. Busy' = {} /\ \A s \in SubTasks : ~Saves(s)'
  BY DEF Busy, Slot, Saves, Free, Idle
<1>2. row'.count \in Nat
  BY Sizes DEF TypeInv, TypeOK
<1>3. Cardinality(Busy') <= row'.count
  BY <1>1, <1>2, FS_EmptySet
<1> QED BY <1>1, <1>3 DEF SlotsOK, PostSlots, Owing

\* No subtask moves and the counter stays.
LEMMA SlotsQuiet ==
  ASSUME TypeInv, Base, SlotsOK, UNCHANGED <<chunks, sweep>>,
         row'.count = row.count, row'.status \in {row.status, "failed"},
         \A s \in SubTasks : task'[s] = task[s],
         \A p \in PostTasks : \/ task'[p] = task[p]
                              \/ task'[p].at \in {"none", "done", "queued", "listing"}
  PROVE  SlotsOK'
<1>1. Busy' = Busy /\ \A s \in SubTasks : Saves(s)' <=> Saves(s)
  BY DEF Busy, Saves
<1>2. \A p \in PostTasks : PostSlots(p)'
  BY <1>1 DEF SlotsOK, PostSlots, Owing, Owed
<1> QED BY <1>1, <1>2 DEF SlotsOK

\* A subtask goes on and keeps its slot.
LEMMA SlotsStay ==
  ASSUME TypeInv, Base, SlotsOK, UNCHANGED <<chunks, sweep>>, NEW t \in SubTasks,
         Only(t), task[t].at \in Slot, task'[t].at \in Slot,
         row'.count = row.count, row'.status \in {row.status, "finalizing", "failed"},
         Saves(t)' => task'[t].seen \in {"finalizing", "failed"}
  PROVE  SlotsOK'
<1>1. /\ t \in Tasks /\ Busy' = Busy /\ t \in Busy
      /\ \A s \in SubTasks : s # t => task'[s] = task[s] /\ (Saves(s)' <=> Saves(s))
      /\ \A p \in PostTasks : task'[p] = task[p]
  BY TaskFacts DEF Busy, Only, Saves
<1>2. row.status # "completed" /\ row'.status # "completed"
  BY <1>1 DEF SlotsOK
<1>3. \A p \in PostTasks : PostSlots(p)'
  BY <1>1, <1>2 DEF SlotsOK, PostSlots, Owed
<1> QED BY <1>1, <1>2, <1>3 DEF SlotsOK

LEMMA SlotsDocument ==
  ASSUME TypeInv, TypeInv', Steady, Base, SlotsOK, UNCHANGED <<setting, request, sweep>>,
         NEW t \in Documents, DocumentStep(t)
  PROVE  SlotsOK'
<1>1. TypeOK /\ t \in Tasks /\ ~Free(t)
  BY DocumentFacts DEF TypeInv
<1>2. \A u \in Others : Free(u) /\ u # t /\ u \in Tasks
  BY <1>1, IdleFacts, RunFacts DEF Others
<1>3. \A u \in SubTasks \cup PostTasks : u \in Others
  BY IdleFacts
<1>4. row'.status \notin {"deleting", "deleted", "cancelled"}
  <2>1. UNCHANGED row \/ \E s \in {"processing", "failed", "completed"} : UpdateKnowledge(s)
    BY DEF DocumentStep, StartDocument, MarkProcessing, ConvertFails, Reject, CleanUp,
           CheckBeforeWrite, WriteChunks, CheckBeforeIndex, BatchIndex, BatchIndexFails,
           CheckAfterIndex, FinishIndexing, EnqueueNext
  <2>2. row.status \notin {"deleting", "deleted", "cancelled"}
    BY DEF SlotsOK
  <2> QED BY <1>1, <2>1, <2>2, RowFacts DEF Statuses
<1>5. \A u \in Others : task'[u] = task[u] \/ (u \notin SubTasks /\ task'[u] = Queued)
  <2>1. CASE EnqueueNext(t)
    <3> DEFINE next == IF Pictures = {} THEN {Post(attempt, None)}
                       ELSE {Image(attempt, i) : i \in Pictures}
    <3>1. /\ Pictures = {} => next \subseteq PostTasks
          /\ Pictures # {} => next \subseteq ImageTasks
          /\ \E refused \in SUBSET next :
               /\ \A u \in next \ refused : task'[u] = Queued
               /\ \A u \in Tasks : u # t /\ u \notin next \ refused => task'[u] = task[u]
      BY <2>1, EnqueueFacts
    <3> HIDE DEF next
    <3>2. \A u \in next : u \notin SubTasks
      BY <3>1, TaskFacts
    <3> QED BY <1>2, <3>1, <3>2
  <2>2. CASE MarkProcessing(t)
    BY <1>2, <2>2, MarkFacts DEF Only
  <2>3. CASE ~EnqueueNext(t) /\ ~MarkProcessing(t)
    BY <1>2, <2>3, DocumentAttempt, DocumentLocal DEF Local, Only
  <2> QED BY <2>1, <2>2, <2>3
<1>6. Queued.at = "queued" /\ sweep' = "none"
  BY RecordFacts DEF SlotsOK
<1>7. \A s \in SubTasks : Free(s)'
  BY <1>2, <1>3, <1>5 DEF Free
<1>8. \A p \in PostTasks : task'[p].at \in {"none", "done", "queued", "listing"}
  BY <1>2, <1>3, <1>5, <1>6 DEF Free, Idle
<1> QED BY <1>4, <1>6, <1>7, <1>8, SlotsClear

LEMMA SlotsImage ==
  ASSUME TypeInv, Steady, Base, SlotsOK, UNCHANGED <<setting, request, sweep>>,
         NEW t \in ImageTasks, ImageStep(t)
  PROVE  SlotsOK'
<1>1. UNCHANGED <<row, chunks>>
  BY DEF ImageStep, StartImage, ImageEnds, ImageFails, CountImage
<1>2. \A u \in SubTasks \cup PostTasks : u \in Tasks /\ u # t
  BY TaskFacts
<1>3. Queued.at = "queued"
  BY RecordFacts
<1>4. CASE CountImage(t)
  <2> DEFINE next == Post(attempt, t.item)
  <2>1. /\ next \in PostTasks /\ (task'[next] = task[next] \/ task'[next] = Queued)
        /\ \A u \in Tasks : u # t /\ u # next => task'[u] = task[u]
    BY <1>4, CountFacts
  <2> HIDE DEF next
  <2>2. next \notin SubTasks
    BY <2>1, TaskFacts
  <2> QED BY <1>1, <1>2, <1>3, <2>1, <2>2, SlotsQuiet
<1>5. CASE ~CountImage(t)
  <2>1. Only(t)
    BY <1>5, ImageLocal DEF ImageStep, Local
  <2> QED BY <1>1, <1>2, <2>1, SlotsQuiet DEF Only
<1> QED BY <1>4, <1>5

\* The two statements of FinalizeSubtask, for a subtask.
LEMMA SlotsFinalizeSub ==
  ASSUME TypeInv, Steady, Base, SlotsOK, UNCHANGED <<setting, request, sweep>>,
         NEW t \in SubTasks, Decrement(t) \/ Promote(t)
  PROVE  SlotsOK'
<1>1. /\ TypeOK /\ t \in Tasks /\ Only(t) /\ PhaseFits(t) /\ ~Free(t)
      /\ row.count \in Nat /\ row.status # "deleted"
  <2>1. Local(t)
    BY FinalizeLocal
  <2> QED BY <2>1, TaskFacts, Sizes DEF Local, TypeInv, TypeOK, Base, PhaseOK, SlotsOK
<1>2. /\ \A s \in SubTasks : s # t => task'[s] = task[s]
      /\ \A p \in PostTasks : task'[p] = task[p] /\ task[p].at # "fanning"
      /\ UNCHANGED chunks
  <2>1. Fanned
    <3>1. t.run = attempt
      BY <1>1, IdleFacts DEF Base, AloneOK
    <3> QED BY <1>1, <3>1 DEF Fanned, Free, Idle
  <2>2. UNCHANGED chunks
    BY DEF Decrement, Promote
  <2> QED BY <1>1, <2>1, <2>2, TaskFacts DEF Only, Base, FanOK
<1>3. CASE Decrement(t)
  <2>1. task[t].at = "draining"
    BY <1>1, <1>3 DEF PhaseFits, Decrement
  <2>2. task'[t].at = "promoting"
    BY <1>1, <1>3, MoveFacts DEF Decrement, Phases
  <2>3. t \in Busy /\ Busy' = Busy \ {t}
    BY <1>2, <2>1, <2>2 DEF Busy, Slot
  <2>4. Cardinality(Busy') = Cardinality(Busy) - 1 /\ Cardinality(Busy) > 0
        /\ Cardinality(Busy) \in Nat
    BY <2>3, BusyFacts, OneLess
  <2>5. row.count > 0
    BY <1>1, <2>4 DEF SlotsOK
  <2>6. row'.count = row.count - 1 /\ row'.status = row.status
    BY <1>1, <1>3, <2>5 DEF Decrement, Written, TypeOK
  <2>7. \A s \in SubTasks : Saves(s)' => Saves(s) /\ task'[s] = task[s]
    BY <1>2, <2>2 DEF Saves
  <2>8. \A p \in PostTasks : PostSlots(p)'
    <3> SUFFICES ASSUME NEW p \in PostTasks PROVE PostSlots(p)'
      OBVIOUS
    <3>1. task[p].short \in Nat
      BY <1>1, Sizes, TaskFacts DEF TypeOK
    <3> QED BY <1>1, <1>2, <2>4, <2>6, <3>1 DEF SlotsOK, PostSlots, Owing, Owed
  <2>9. Cardinality(Busy') <= row'.count
    BY <1>1, <2>4, <2>6 DEF SlotsOK
  <2> QED BY <1>2, <2>3, <2>6, <2>7, <2>8, <2>9 DEF SlotsOK
<1>4. CASE Promote(t)
  <2>1. Finish(t) /\ task[t].at = "promoting"
    BY <1>1, <1>4 DEF Promote, PhaseFits
  <2>2. task'[t].at = "done"
    BY <1>1, <2>1, FinishFacts DEF Steady, Without
  <2>3. Busy' = Busy
    BY <1>2, <2>1, <2>2 DEF Busy, Slot
  <2>4. /\ row'.count = row.count
        /\ \/ row'.status = row.status
           \/ row.count = 0 /\ row'.status = "completed"
    BY <1>1, <1>4 DEF Promote, TypeOK
  <2>5. row.count = 0 => Busy = {}
    BY BusyFacts DEF SlotsOK
  <2>6. \A s \in SubTasks : Saves(s)' => Saves(s) /\ task'[s] = task[s]
    BY <1>2, <2>2 DEF Saves
  <2>7. \A p \in PostTasks : PostSlots(p)'
    BY <1>2, <2>3, <2>4 DEF SlotsOK, PostSlots, Owed
  <2> QED BY <1>2, <2>3, <2>4, <2>5, <2>6, <2>7 DEF SlotsOK
<1> QED BY <1>3, <1>4

LEMMA SlotsSub ==
  ASSUME TypeInv, Steady, Base, SlotsOK, UNCHANGED <<setting, request, sweep>>,
         NEW t \in SubTasks, SubStep(t)
  PROVE  SlotsOK'
<1>1. /\ TypeOK /\ t \in Tasks /\ Only(t) /\ ~Free(t) /\ t.run = attempt /\ attempt \in Nat
      /\ task[t].at # "none"
  <2>1. Local(t)
    BY SubLocal
  <2>2. t \in Others /\ t \in Tasks
    BY IdleFacts
  <2> QED BY <2>1, <2>2 DEF Local, TypeInv, TypeOK, Base, AloneOK, Free, Idle
<1>2. row.status \notin Early /\ ~Aborted
  BY <1>1 DEF Base, FanOK, Fanned, SlotsOK, Aborted
<1>3. Saves(t) => task[t].seen \in {"finalizing", "failed"}
  BY DEF SlotsOK
<1>4. ASSUME NEW s \in {"finalizing", "failed"}, UpdateKnowledge(s)
      PROVE  row'.count = row.count /\ row'.status \in {row.status, "finalizing", "failed"}
  BY <1>1, <1>4, RowFacts DEF Statuses
<1>5. CASE StartSubtask(t)
  <2>1. task[t].at = "queued" /\ UNCHANGED <<row, chunks>>
    BY <1>5 DEF StartSubtask
  <2>2. row.status \in {"finalizing", "failed"}
    <3>1. t \in Busy
      BY <2>1 DEF Busy, Slot
    <3> QED BY <1>1, <1>2, <3>1 DEF SlotsOK, Early, Statuses, TypeOK
  <2>3. \/ t.item # Summary /\ Move(t, "working")
        \/ task' = [task EXCEPT ![t].at = "loaded", ![t].seen = row.status]
    <3>1. ~Superseded(t)
      BY <1>1 DEF Superseded
    <3> QED BY <1>2, <1>5, <3>1 DEF StartSubtask
  <2>4. /\ task'[t].at \in Slot
        /\ Saves(t)' => task'[t].seen \in {"finalizing", "failed"}
    <3>1. CASE t.item # Summary /\ Move(t, "working")
      BY <1>1, <3>1, MoveFacts DEF Slot, Saves, Phases
    <3>2. CASE task' = [task EXCEPT ![t].at = "loaded", ![t].seen = row.status]
      BY <1>1, <2>2, <3>2 DEF Slot, TypeOK
    <3> QED BY <2>3, <3>1, <3>2
  <2> QED BY <1>1, <2>1, <2>4, SlotsStay DEF Slot
<1>6. CASE MarkSummary(t)
  <2>1. task[t].at = "loaded" /\ UpdateKnowledge(task[t].seen) /\ UNCHANGED chunks
    BY <1>6 DEF MarkSummary
  <2>2. task[t].seen \in {"finalizing", "failed"}
    BY <1>3, <2>1 DEF Saves
  <2>3. task'[t].at = "working" /\ task'[t].seen = task[t].seen
    BY <1>1, <1>6 DEF MarkSummary, TypeOK
  <2> QED BY <1>1, <1>4, <2>1, <2>2, <2>3, SlotsStay DEF Slot
<1>7. CASE WorkEnds(t)
  <2>1. task[t].at = "working" /\ UNCHANGED <<row, chunks>>
    BY <1>7 DEF WorkEnds
  <2>2. /\ task'[t].at \in {"saving", "draining"} /\ task'[t].seen = task[t].seen
        /\ task'[t].at = "saving" => t.item = Summary
    BY <1>1, <1>7, MoveFacts DEF WorkEnds, Phases
  <2>3. Saves(t)' => task'[t].seen \in {"finalizing", "failed"}
    BY <1>3, <2>1, <2>2 DEF Saves
  <2> QED BY <1>1, <2>1, <2>2, <2>3, SlotsStay DEF Slot
<1>8. CASE SaveSummary(t)
  <2>1. task[t].at = "saving" /\ UpdateKnowledge(task[t].seen) /\ UNCHANGED chunks
    BY <1>8 DEF SaveSummary
  <2>2. task[t].seen \in {"finalizing", "failed"}
    BY <1>3, <2>1 DEF Saves
  <2>3. task'[t].at = "draining"
    BY <1>1, <1>8, MoveFacts DEF SaveSummary, Phases
  <2>4. ~Saves(t)'
    BY <2>3 DEF Saves
  <2> QED BY <1>1, <1>4, <2>1, <2>2, <2>3, <2>4, SlotsStay DEF Slot
<1>9. CASE WorkFails(t)
  <2>1. /\ task[t].at = "working" /\ UNCHANGED chunks
        /\ UNCHANGED row \/ (t.item = Summary /\ UpdateKnowledge(task[t].seen))
    BY <1>9 DEF WorkFails
  <2>2. t.item = Summary => task[t].seen \in {"finalizing", "failed"}
    BY <1>3, <2>1 DEF Saves
  <2>3. task'[t].at = "queued"
    BY <1>1, <1>9, RequeueFacts DEF WorkFails
  <2>4. ~Saves(t)'
    BY <2>3 DEF Saves
  <2>5. row'.count = row.count /\ row'.status \in {row.status, "finalizing", "failed"}
    BY <1>4, <2>1, <2>2
  <2> QED BY <1>1, <2>1, <2>3, <2>4, <2>5, SlotsStay DEF Slot
<1> QED BY <1>5, <1>6, <1>7, <1>8, <1>9, SlotsFinalizeSub DEF SubStep

LEMMA SlotsFanOut ==
  ASSUME TypeInv, Steady, Base, SlotsOK, UNCHANGED <<setting, request, sweep>>,
         NEW t \in PostTasks, FanOut(t)
  PROVE  SlotsOK'
<1> DEFINE subs == {Sub(attempt, s) : s \in Subtasks}
<1>1. /\ t \in Tasks /\ attempt \in Attempts /\ subs \subseteq SubTasks
      /\ \E refused \in SUBSET subs :
           /\ \A u \in subs \ refused : task'[u] = Queued
           /\ \A u \in Tasks : u # t /\ u \notin subs \ refused => task'[u] = task[u]
           /\ refused = {} => task'[t].at = "done"
           /\ refused # {} => /\ task'[t].at = "releasing"
                              /\ task'[t].short = Cardinality(refused)
  BY FanOutFacts
<1>2. PICK refused \in SUBSET subs :
           /\ \A u \in subs \ refused : task'[u] = Queued
           /\ \A u \in Tasks : u # t /\ u \notin subs \ refused => task'[u] = task[u]
           /\ refused = {} => task'[t].at = "done"
           /\ refused # {} => /\ task'[t].at = "releasing"
                              /\ task'[t].short = Cardinality(refused)
  BY <1>1
<1>3. /\ IsFiniteSet(subs) /\ Cardinality(subs) = Cardinality(Subtasks)
      /\ IsFiniteSet(refused) /\ Cardinality(refused) \in Nat
      /\ Cardinality(refused) = 0 <=> refused = {}
  <2>1. {s \in Subtasks : Sub(attempt, s) \in subs} = Subtasks
    OBVIOUS
  <2>2. IsFiniteSet(subs) /\ Cardinality(subs) = Cardinality(Subtasks)
    BY <1>1, <2>1, RefusedSubs
  <2>3. IsFiniteSet(refused)
    BY <1>1, RefusedSubs
  <2> QED BY <2>2, <2>3, FS_CardinalityType, FS_EmptySet
<1> HIDE DEF subs
<1>4. Cardinality(subs \ refused) = Cardinality(Subtasks) - Cardinality(refused)
  <2>1. subs \cap refused = refused
    BY <1>2
  <2>2. Cardinality(subs \ refused) = Cardinality(subs) - Cardinality(subs \cap refused)
    BY <1>3, FS_Difference
  <2> QED BY <1>3, <2>1, <2>2
<1>5. /\ task[t].at = "fanning" /\ UNCHANGED <<row, chunks>> /\ ~Fanned
      /\ \A p \in PostTasks : p # t => task[p].at \notin FanPhases
  BY DEF FanOut, Base, FanOK, FanPhases
<1>6. row.count = Cardinality(Subtasks) /\ row.status # "completed" /\ chunks # {}
  BY <1>5 DEF SlotsOK, PostSlots
<1>7. Queued.at = "queued"
  BY RecordFacts
<1>8. \A u \in SubTasks \cup PostTasks : u \in Tasks /\ (u \in PostTasks => u \notin subs)
  BY <1>1, TaskFacts
<1>9. Busy' = subs \ refused
  <2>1. Busy = {} /\ t \notin SubTasks
    BY <1>5, BusyFacts, TaskFacts
  <2>2. \A u \in subs \ refused : u \in SubTasks /\ task'[u].at \in Slot
    BY <1>1, <1>2, <1>7 DEF Slot
  <2>3. \A u \in SubTasks : u \notin subs \ refused => task'[u].at \notin Slot
    BY <1>2, <1>8, <2>1 DEF Busy
  <2> QED BY <2>2, <2>3 DEF Busy
<1>10. \A s \in SubTasks : Saves(s)' => Saves(s) /\ task'[s] = task[s]
  <2>1. t \notin SubTasks
    BY TaskFacts
  <2>2. \A s \in SubTasks : task'[s] = task[s] \/ task'[s] = Queued
    BY <1>2, <1>8, <2>1
  <2> QED BY <1>7, <2>2 DEF Saves
<1>11. \A p \in PostTasks : PostSlots(p)'
  <2> SUFFICES ASSUME NEW p \in PostTasks PROVE PostSlots(p)'
    OBVIOUS
  <2>1. CASE p = t
    <3>1. Cardinality(Busy') = row'.count - Cardinality(refused) /\ row'.count \in Nat
      BY <1>4, <1>5, <1>6, <1>9, Sizes
    <3>2. CASE refused = {}
      <4>1. task'[p].at = "done"
        BY <1>2, <2>1, <3>2
      <4> QED BY <4>1 DEF PostSlots, Owing
    <3>3. CASE refused # {}
      <4>1. task'[p].at = "releasing" /\ task'[p].short = Cardinality(refused)
        BY <1>2, <2>1, <3>3
      <4>2. Cardinality(refused) > 0
        BY <1>3, <3>3
      <4>3. Cardinality(Busy') + task'[p].short <= row'.count
        BY <1>3, <3>1, <4>1
      <4> QED BY <4>1, <4>2, <4>3 DEF PostSlots, Owing, Owed
    <3> QED BY <3>2, <3>3
  <2>2. CASE p # t
    <3>1. task'[p] = task[p] /\ task[p].at \notin FanPhases
      BY <1>2, <1>5, <1>8, <2>2
    <3> QED BY <1>5, <3>1 DEF SlotsOK, PostSlots, Owing, FanPhases
  <2> QED BY <2>1, <2>2
<1>12. Cardinality(Busy') <= row'.count
  BY <1>3, <1>4, <1>5, <1>6, <1>9, Sizes
<1> QED BY <1>5, <1>6, <1>10, <1>11, <1>12 DEF SlotsOK

\* The two statements of FinalizeSubtask, for the slots of refused subtasks.
LEMMA SlotsFinalizePost ==
  ASSUME TypeInv, Steady, Base, SlotsOK, UNCHANGED <<setting, request, sweep>>,
         NEW t \in PostTasks, Decrement(t) \/ Promote(t)
  PROVE  SlotsOK'
<1>1. /\ TypeOK /\ t \in Tasks /\ Only(t) /\ PhaseFits(t)
      /\ row.count \in Nat /\ row.status # "deleted" /\ task[t].short \in Nat
  <2>1. Local(t)
    BY FinalizeLocal
  <2> QED BY <2>1, TaskFacts, Sizes DEF Local, TypeInv, TypeOK, Base, PhaseOK, SlotsOK
<1>2. task[t].at \in Owing /\ task[t].at \in FanPhases
  BY <1>1 DEF PhaseFits, Decrement, Promote, Owing, FanPhases
<1>3. /\ task[t].short > 0 /\ Cardinality(Busy) + Owed(t) <= row.count
      /\ Cardinality(Busy) \in Nat /\ (Cardinality(Busy) = 0 <=> Busy = {})
      /\ Cardinality(Busy) <= row.count
  BY <1>2, BusyFacts DEF SlotsOK, PostSlots
<1>4. /\ \A s \in SubTasks : task'[s] = task[s]
      /\ \A p \in PostTasks : p # t => task'[p] = task[p] /\ task[p].at \notin FanPhases
      /\ UNCHANGED chunks
  <2>1. UNCHANGED chunks
    BY DEF Decrement, Promote
  <2> QED BY <1>1, <1>2, <2>1, TaskFacts DEF Only, Base, FanOK
<1>5. Busy' = Busy /\ \A s \in SubTasks : Saves(s)' <=> Saves(s)
  BY <1>4 DEF Busy, Saves
<1>6. \A p \in PostTasks : p # t => PostSlots(p)'
  BY <1>4 DEF SlotsOK, PostSlots, Owing, FanPhases
<1>7. CASE Decrement(t)
  <2>1. task[t].at = "releasing"
    BY <1>1, <1>7 DEF PhaseFits, Decrement, FanPhases
  <2>2. task'[t].at = "promoting" /\ task'[t].short = task[t].short
    BY <1>1, <1>7, MoveFacts DEF Decrement, Phases
  <2>3. row.count > 0 /\ Cardinality(Busy) + task[t].short <= row.count
    BY <1>1, <1>3, <2>1 DEF Owed
  <2>4. row'.count = row.count - 1 /\ row'.status = row.status
    BY <1>1, <1>7, <2>3 DEF Decrement, Written, TypeOK
  <2>5. PostSlots(t)' /\ Cardinality(Busy') <= row'.count
    BY <1>1, <1>3, <1>5, <2>2, <2>3, <2>4 DEF PostSlots, Owed
  <2> QED BY <1>4, <1>5, <1>6, <2>4, <2>5 DEF SlotsOK
<1>8. CASE Promote(t)
  <2>1. task[t].at = "promoting"
    BY <1>8 DEF Promote
  <2>2. Cardinality(Busy) + (task[t].short - 1) <= row.count
    BY <1>3, <2>1 DEF Owed
  <2>3. /\ row'.count = row.count
        /\ \/ row'.status = row.status
           \/ row.count = 0 /\ row'.status = "completed"
    BY <1>1, <1>8 DEF Promote, TypeOK
  <2>4. row.count = 0 => Busy = {}
    BY <1>3
  <2>5. PostSlots(t)'
    <3>1. CASE task[t].short > 1
      <4>1. task'[t].at = "releasing" /\ task'[t].short = task[t].short - 1
        BY <1>1, <1>8, <3>1 DEF Promote, TypeOK
      <4> QED BY <1>1, <1>5, <2>2, <2>3, <3>1, <4>1 DEF PostSlots, Owed
    <3>2. CASE ~(task[t].short > 1)
      <4>1. task'[t].at = "done"
        BY <1>1, <1>8, <3>2, FinishFacts DEF Promote, Steady, Without
      <4> QED BY <4>1 DEF PostSlots, Owing
    <3> QED BY <3>1, <3>2
  <2> QED BY <1>3, <1>4, <1>5, <1>6, <2>3, <2>4, <2>5 DEF SlotsOK
<1> QED BY <1>7, <1>8

LEMMA SlotsPost ==
  ASSUME TypeInv, Steady, Base, SlotsOK, UNCHANGED <<setting, request, sweep>>,
         NEW t \in PostTasks, PostStep(t)
  PROVE  SlotsOK'
<1>1. TypeOK /\ t \in Tasks /\ row.status # "deleted"
  BY TaskFacts DEF TypeInv, SlotsOK
<1>2. ASSUME ~FanOut(t)
      PROVE  /\ Only(t) /\ \A s \in SubTasks : task'[s] = task[s]
             /\ \A p \in PostTasks : p # t => task'[p] = task[p]
  <2>1. Only(t)
    BY <1>2, PostLocal DEF Local
  <2> QED BY <2>1, TaskFacts DEF Only
<1>3. ASSUME End(t) \/ Finish(t) \/ Requeue(t)
      PROVE  task'[t].at \in {"queued", "done"}
  BY <1>1, <1>3, EndFacts, FinishFacts, RequeueFacts, RecordFacts DEF Steady, Without
<1>4. CASE ~FanOut(t) /\ (StartPost(t) \/ PostFails(t))
  <2>1. task'[t].at \in {"queued", "done", "listing"} /\ UNCHANGED chunks
    BY <1>1, <1>3, <1>4, MoveFacts DEF StartPost, PostFails, Phases
  <2>2. row'.count = row.count /\ row'.status \in {row.status, "failed"}
    BY <1>1, <1>4, RowFacts DEF StartPost, PostFails, Statuses
  <2> QED BY <1>2, <1>4, <2>1, <2>2, SlotsQuiet
<1>5. CASE ~FanOut(t) /\ ListChunks(t)
  <2>1. UNCHANGED <<row, chunks>> /\ Move(t, IF chunks = {} THEN "completing" ELSE "seeding")
    BY <1>5 DEF ListChunks
  <2>2. task'[t].at = IF chunks = {} THEN "completing" ELSE "seeding"
    BY <1>1, <2>1, MoveFacts DEF Phases
  <2>3. Busy' = Busy /\ \A s \in SubTasks : Saves(s)' <=> Saves(s)
    BY <1>2, <1>5 DEF Busy, Saves
  <2>4. \A p \in PostTasks : PostSlots(p)'
    BY <1>2, <1>5, <2>1, <2>2, <2>3 DEF SlotsOK, PostSlots, Owing, Owed
  <2> QED BY <1>2, <1>5, <2>1, <2>3, <2>4 DEF SlotsOK
<1>6. CASE ~FanOut(t) /\ CompleteEmpty(t)
  <2>1. task[t].at = "completing" /\ UpdateKnowledge("completed") /\ Finish(t) /\ UNCHANGED chunks
    BY <1>6 DEF CompleteEmpty
  <2>2. chunks = {} /\ Busy = {}
    BY <2>1 DEF SlotsOK, PostSlots
  <2>3. row'.count = row.count /\ row'.status = "completed" /\ task'[t].at \in {"queued", "done"}
    BY <1>1, <1>3, <2>1, RowFacts DEF Statuses
  <2>4. Busy' = Busy /\ \A s \in SubTasks : Saves(s)' <=> Saves(s)
    BY <1>2, <1>6 DEF Busy, Saves
  <2>5. \A p \in PostTasks : PostSlots(p)'
    BY <1>2, <1>6, <2>1, <2>2, <2>3, <2>4 DEF SlotsOK, PostSlots, Owing, Owed
  <2> QED BY <1>2, <1>6, <2>1, <2>2, <2>3, <2>4, <2>5 DEF SlotsOK
<1>7. CASE ~FanOut(t) /\ SetFinalizing(t)
  <2>1. CASE row.status # "processing"
    <3>1. UNCHANGED <<row, chunks>> /\ Finish(t)
      BY <1>7, <2>1 DEF SetFinalizing
    <3> QED BY <1>2, <1>3, <1>7, <3>1, SlotsQuiet
  <2>2. CASE row.status = "processing"
    <3>1. /\ task[t].at = "seeding" /\ UNCHANGED chunks /\ Move(t, "fanning")
          /\ row'.status = "finalizing" /\ row'.count = Cardinality(Subtasks)
      BY <1>7, <2>2 DEF SetFinalizing
    <3>2. task'[t].at = "fanning"
      BY <1>1, <3>1, MoveFacts DEF Phases
    <3>3. ~Fanned /\ ~Fanning /\ chunks # {}
      BY <2>2, <3>1 DEF Base, FanOK, Early, SlotsOK, PostSlots
    <3>4. Busy = {} /\ Cardinality(Busy) = 0
      BY <3>3, BusyFacts
    <3>5. Busy' = Busy /\ \A s \in SubTasks : Saves(s)' <=> Saves(s)
      BY <1>2, <1>7 DEF Busy, Saves
    <3>6. \A p \in PostTasks : p # t => task[p].at \notin FanPhases
      BY <3>3 DEF Fanning
    <3>7. \A p \in PostTasks : PostSlots(p)'
      BY <1>2, <1>7, <3>1, <3>2, <3>3, <3>6 DEF SlotsOK, PostSlots, Owing, FanPhases
    <3> QED BY <1>2, <1>7, <3>1, <3>3, <3>4, <3>5, <3>7, Sizes DEF SlotsOK
  <2> QED BY <2>1, <2>2
<1> QED BY <1>4, <1>5, <1>6, <1>7, SlotsFanOut, SlotsFinalizePost DEF PostStep

LEMMA SlotsRequest ==
  ASSUME TypeInv, TypeInv', Steady, RequestOK, Base, SlotsOK, Without({"cancel", "delete"}),
         RequestStep
  PROVE  SlotsOK'
<1>1. TypeOK /\ row.status \notin {"deleting", "deleted", "cancelled"} /\ sweep' = "none"
  BY DEF TypeInv, SlotsOK, RequestStep
<1>2. CASE \E kind \in Requests : Ask(kind)
  <2>1. UNCHANGED <<row, chunks, task, sweep>>
    BY <1>2 DEF RequestStep, Ask
  <2> QED BY <2>1, SlotsQuiet
<1>3. CASE request.at # "idle"
  <2>1. request.kind = "reparse" /\ Reparsing /\ request.at # "remove"
    BY <1>3 DEF RequestOK, Requests, Without, Reparsing
  <2>2. \A t \in Tasks : Free(t)
    BY <2>1 DEF Base, AloneOK
  <2>3. row'.status \notin {"deleting", "deleted", "cancelled"}
    <3>1. \/ UNCHANGED row \/ (\E s \in {"pending", "failed"} : UpdateKnowledge(s))
          \/ row' = Written([row EXCEPT !.count = 0])
      BY <1>3, <2>1
         DEF RequestStep, Ask, WriteStatus, Dequeue, OpenAttempt, CleanResources, RemoveRow,
             ResetCount, EnqueueReparse
    <3> QED BY <1>1, <3>1, RowFacts DEF Written, TypeOK, Statuses
  <2>4. \A u \in Others : task'[u] = task[u]
    <3>1. CASE Dequeue
      BY <2>2, <3>1, DequeueFacts, RunFacts, RecordFacts DEF Free, Idle
    <3>2. CASE EnqueueReparse
      <4>1. UNCHANGED task
            \/ task' = [task EXCEPT ![Document(2)] = [Queued EXCEPT !.attempt = attempt]]
        BY <3>2 DEF EnqueueReparse
      <4> QED BY <1>1, <4>1, RunFacts DEF TypeOK
    <3>3. CASE ~Dequeue /\ ~EnqueueReparse
      BY <1>3, <3>3
         DEF RequestStep, Ask, WriteStatus, OpenAttempt, CleanResources, RemoveRow, ResetCount
    <3> QED BY <3>1, <3>2, <3>3
  <2>5. \A u \in SubTasks \cup PostTasks : u \in Others /\ u \in Tasks
    BY IdleFacts
  <2>6. \A s \in SubTasks : Free(s)'
    BY <2>2, <2>4, <2>5 DEF Free
  <2>7. \A p \in PostTasks : task'[p].at \in {"none", "done", "queued", "listing"}
    BY <2>2, <2>4, <2>5 DEF Free, Idle
  <2> QED BY <1>1, <2>3, <2>6, <2>7, SlotsClear
<1> QED BY <1>2, <1>3
        DEF RequestStep, WriteStatus, Dequeue, OpenAttempt, CleanResources, RemoveRow, ResetCount,
            EnqueueReparse

LEMMA SlotsSweep ==
  ASSUME TypeInv, TypeInv', Base, SlotsOK, Without({"window", "lite", "probe"}), SweepStep
  PROVE  SlotsOK'
<1>1. PICK kind \in {"drained", "stale", "stuck"} : Sweep(kind)
  BY DEF SweepStep, ApplySweep, SlotsOK
<1>2. Recover(kind) /\ UNCHANGED sweep /\ task' = task /\ \A t \in Tasks : ~Waiting(t)
  BY <1>1 DEF SweepStep, Sweep, filterOutQueued, NothingWaits, Without
<1>3. \A t \in SubTasks \cup PostTasks : Free(t)
  <2> SUFFICES ASSUME NEW t \in SubTasks \cup PostTasks, ~Free(t) PROVE FALSE
    OBVIOUS
  <2>1. t \in Tasks /\ t.run = attempt /\ t # Document(1) /\ t # Document(2)
    BY IdleFacts, RunFacts DEF Base, AloneOK
  <2>2. Payload(t) = attempt
    BY <2>1 DEF Payload
  <2>3. Waiting(t)
    BY <2>2 DEF Waiting, Without
  <2> QED BY <1>2, <2>1, <2>3
<1>4. row'.status \notin {"deleting", "deleted", "cancelled"} /\ sweep' = "none"
  BY <1>2 DEF Recover, Written, SlotsOK, TypeInv, TypeOK
<1>5. \A s \in SubTasks : Free(s)'
  BY <1>2, <1>3 DEF Free
<1>6. \A p \in PostTasks : task'[p].at \in {"none", "done", "queued", "listing"}
  BY <1>2, <1>3 DEF Free, Idle
<1> QED BY <1>4, <1>5, <1>6, SlotsClear

LEMMA SlotsKept ==
  ASSUME TypeInv, Steady, RequestOK, Base, QuietOK, Without({"cancel", "delete", "window", "lite", "probe"}),
         SlotsOK, [Next]_vars
  PROVE  SlotsOK'
<1>1. TypeInv' /\ Without({"cancel", "delete"}) /\ Without({"window", "lite", "probe"})
  BY TypeStep DEF Without
<1>2. CASE TaskStep
  <2>1. UNCHANGED <<setting, request, sweep>>
    BY <1>2 DEF TaskStep
  <2>2. ASSUME NEW t \in Documents, DocumentStep(t) PROVE SlotsOK'
    BY <1>1, <2>1, <2>2, SlotsDocument
  <2>3. ASSUME NEW t \in ImageTasks, ImageStep(t) PROVE SlotsOK'
    BY <2>1, <2>3, SlotsImage
  <2>4. ASSUME NEW t \in PostTasks, PostStep(t) PROVE SlotsOK'
    BY <2>1, <2>4, SlotsPost
  <2>5. ASSUME NEW t \in SubTasks, SubStep(t) PROVE SlotsOK'
    BY <2>1, <2>5, SlotsSub
  <2>6. ASSUME NEW t \in Tasks, Acknowledge(t) \/ Stop(t) PROVE FALSE
    <3>1. ~Gone /\ "cancel" \notin setting
      BY DEF Gone, SlotsOK, RequestOK, Without
    <3>2. ~task[t].signalled
      BY <3>1 DEF QuietOK
    <3>3. task[t].at # "ending"
      BY TaskFacts DEF Base, PhaseOK, PhaseFits, Held, FanPhases
    <3> QED BY <2>6, <3>2, <3>3 DEF Acknowledge, Stop
  <2> QED BY <1>2, <2>2, <2>3, <2>4, <2>5, <2>6 DEF TaskStep
<1>3. CASE CrashStep
  BY <1>3 DEF CrashStep, Crash, Steady, Without
<1>4. CASE RequestStep
  BY <1>1, <1>4, SlotsRequest
<1>5. CASE SweepStep
  BY <1>1, <1>5, SlotsSweep
<1>6. CASE UNCHANGED vars
  <2>1. UNCHANGED <<row, chunks, task, sweep>>
    BY <1>6 DEF vars
  <2> QED BY <2>1, SlotsQuiet
<1> QED BY <1>2, <1>3, <1>4, <1>5, <1>6 DEF Next

JoinInv == /\ OrphanInv
           /\ Steady /\ Without({"redis", "lite"}) => ImagesOK
           /\ Steady /\ Without({"cancel", "delete", "window", "lite", "probe"}) => SlotsOK

LEMMA JoinInductive == Spec => []JoinInv
<1>1. Init /\ OrphanInv => JoinInv
  <2> SUFFICES ASSUME Init, OrphanInv PROVE JoinInv
    OBVIOUS
  <2>1. \A t \in Others : task[t] = Fresh
    BY RunFacts DEF Init
  <2>2. \A t \in Others : Free(t) /\ task[t].at = "none"
    BY <2>1 DEF Fresh, Free, Idle
  <2>3. \A t \in ImageTasks \cup PostTasks \cup SubTasks : t \in Others
    BY TaskFacts DEF Others
  <2>4. Left = {} /\ ~Posted /\ Busy = {} /\ \A s \in SubTasks : ~Saves(s)
    BY <2>2, <2>3 DEF Left, Posted, Busy, Slot, Saves, Free, Idle
  <2>5. row.status = "pending" /\ row.count = 0 /\ sweep = "none" /\ pendingImages = 0
    BY DEF Init
  <2>6. ImagesOK
    BY <2>4, <2>5, FS_EmptySet DEF ImagesOK
  <2>7. SlotsOK
    BY <2>2, <2>3, <2>4, <2>5, FS_EmptySet DEF SlotsOK, PostSlots, Owing
  <2> QED BY <2>6, <2>7 DEF JoinInv
<1>2. JoinInv /\ OrphanInv' /\ [Next]_vars => JoinInv'
  <2> SUFFICES ASSUME JoinInv, OrphanInv', [Next]_vars PROVE JoinInv'
    OBVIOUS
  <2>1. setting' = setting
    BY DEF Next, TaskStep, CrashStep, RequestStep, SweepStep, vars
  <2>2. ASSUME Steady, Without({"redis", "lite"}) PROVE ImagesOK'
    BY <2>2, ImagesKept DEF JoinInv, OrphanInv, StoredInv, IInv
  <2>3. ASSUME Steady, Without({"cancel", "delete", "window", "lite", "probe"}) PROVE SlotsOK'
    BY <2>3, SlotsKept DEF JoinInv, OrphanInv, StoredInv, IInv
  <2> QED BY <2>1, <2>2, <2>3 DEF JoinInv, Steady, Without
<1> QED BY <1>1, <1>2, OrphanInductive, PTL DEF Spec

\* Neither join goes ahead of what it fanned out: the post-process task of an
\* attempt runs when its images are through (checkAndFinalizeAllImages), and a
\* row is completed when no enrichment of it is queued or at work
\* (SetFinalizing, FinalizeSubtask).
THEOREM JoinsHold == Spec => []JoinsWait
<1>1. JoinInv => JoinsWait
  <2> SUFFICES ASSUME JoinInv PROVE JoinsWait
    OBVIOUS
  <2>1. TypeInv /\ (Steady => Base)
    BY DEF JoinInv, OrphanInv, StoredInv, IInv
  <2>2. PostWaitsForImages
    <3> SUFFICES ASSUME Without({"redis", "lite", "crash", "impatient"}),
                        NEW a \in Attempts, NEW i \in Images,
                        NEW p \in PostTasks, p.run = a, ~Free(p)
                 PROVE  Free(Image(a, i))
      BY DEF PostWaitsForImages, Over
    <3>1. Base /\ ImagesOK
      BY <2>1 DEF JoinInv, Steady, Without
    <3>2. p.run = attempt /\ task[p].at # "none"
      BY <2>1, <3>1, IdleFacts DEF Base, AloneOK, Free, Idle
    <3>3. Left = {}
      BY <3>1, <3>2 DEF ImagesOK, Posted
    <3> QED BY <3>3, TaskFacts DEF Left
  <2>3. NoEarlyCompletion
    <3> SUFFICES ASSUME Without({"cancel", "delete", "impatient", "crash", "window", "lite", "probe"}),
                        row.status = "completed", NEW t \in SubTasks
                 PROVE  Over(t) \/ task[t].at = "promoting"
      BY DEF NoEarlyCompletion
    <3>1. Base /\ SlotsOK
      BY <2>1 DEF JoinInv, Steady, Without
    <3>2. t \notin Busy /\ PhaseFits(t)
      BY <3>1, TaskFacts DEF SlotsOK, Base, PhaseOK
    <3> QED BY <3>2 DEF Busy, Slot, PhaseFits, Over, Free, Idle
  <2> QED BY <2>2, <2>3 DEF JoinsWait
<1> QED BY <1>1, JoinInductive, PTL

-----------------------------------------------------------------------------
(* What moves a row in progress on. *)

\* A row is handed from the document task to the images, whose counter does not
\* lag behind them, from the last image to the post-process task, and from that
\* one to the subtasks, whose counter does not lag behind them either.
Moving ==
  /\ row.status = "pending" => Reparsing \/ \E d \in Documents : ~Free(d)
  /\ row.status = "processing" =>
       \/ Reparsing \/ \E t \in Documents \cup PostTasks : ~Free(t)
       \/ (Left # {} /\ ("lite" \in setting \/ pendingImages <= Cardinality(Left)))
  /\ row.status = "finalizing" =>
       /\ Rewriting \/ ~Untouched
       /\ Reparsing \/ (\E p \in PostTasks : task[p].at = "fanning") \/ \E s \in SubTasks : ~Free(s)
  /\ Fanned => row.count <= Cardinality(Busy)
  /\ \A d \in Documents : task[d].at \in Held => row.status # "pending"
  /\ \A p \in PostTasks : task[p].at \notin Owing

LEMMA DocumentEnds ==
  ASSUME TypeInv, Steady, Base, row.status \notin {"deleted", "finalizing"},
         NEW t \in Documents, DocumentStep(t), ~EnqueueNext(t),
         task[t].at \in Held => row.status # "pending"
  PROVE  /\ Free(t)' => row'.status \notin InProgress
         /\ task'[t].at \in Held => row'.status # "pending"
         /\ row'.status # "finalizing"
<1>1. TypeOK /\ t \in Tasks
  BY TaskFacts DEF TypeInv
<1>2. ASSUME NEW at \in Held \cup {"loaded"}, Move(t, at) PROVE task'[t].at = at /\ ~Free(t)'
  <2>1. at \in Phases /\ at \notin Idle
    BY DEF Held, Phases, Idle
  <2> QED BY <1>1, <1>2, <2>1, MoveFacts DEF Free
<1>3. ASSUME NEW s \in Statuses, UpdateKnowledge(s) PROVE row'.status = s
  BY <1>1, <1>3, RowFacts
<1>4. ASSUME Finish(t) \/ End(t) \/ Requeue(t)
      PROVE  task'[t].at \in {"done", "queued"} /\ (Requeue(t) => ~Free(t)')
  BY <1>1, <1>4, FinishFacts, EndFacts, RequeueFacts, RecordFacts DEF Steady, Without, Free, Idle
<1>5. "done" \notin Held /\ "queued" \notin Held /\ "loaded" \notin Held
      /\ (Aborted \/ row.status = "completed" => row.status \notin InProgress)
  BY DEF Held, Aborted, InProgress
<1>6. CASE StartDocument(t)
  <2>1. UNCHANGED row /\ ((End(t) /\ (Aborted \/ row.status = "completed")) \/ Move(t, "loaded"))
    BY <1>6 DEF StartDocument
  <2> QED BY <1>2, <1>4, <1>5, <2>1
<1>7. CASE MarkProcessing(t)
  <2>1. row'.status = "processing" /\ task'[t].at = "marked"
    BY <1>3, <1>7, MarkFacts DEF MarkProcessing, Statuses
  <2> QED BY <2>1 DEF Free, Idle
<1>8. CASE ConvertFails(t) \/ Reject(t) \/ BatchIndexFails(t)
  <2>1. \/ Requeue(t) /\ UNCHANGED row
        \/ UpdateKnowledge("failed") /\ (End(t) \/ Finish(t))
    BY <1>8 DEF ConvertFails, Reject, BatchIndexFails
  <2>2. UpdateKnowledge("failed") => row'.status = "failed"
    BY <1>3 DEF Statuses
  <2> QED BY <1>4, <1>5, <2>1, <2>2 DEF InProgress
<1>9. CASE CleanUp(t) \/ CheckBeforeWrite(t) \/ CheckBeforeIndex(t) \/ CheckAfterIndex(t)
  <2>1. /\ UNCHANGED row /\ task[t].at \in Held
        /\ ((Aborted /\ Finish(t)) \/ \E at \in Held : Move(t, at))
    BY <1>9 DEF CleanUp, CheckBeforeWrite, CheckBeforeIndex, CheckAfterIndex, Held
  <2> QED BY <1>2, <1>4, <1>5, <2>1
<1>10. CASE WriteChunks(t) \/ BatchIndex(t)
  <2>1. UNCHANGED row /\ task[t].at \in Held /\ \E at \in Held : Move(t, at)
    BY <1>10 DEF WriteChunks, BatchIndex, Held
  <2> QED BY <1>2, <2>1
<1>11. CASE FinishIndexing(t)
  <2>1. (\E s \in {"completed", "processing"} : UpdateKnowledge(s)) /\ Move(t, "saved")
    BY <1>11 DEF FinishIndexing
  <2>2. row'.status \in {"completed", "processing"}
    BY <1>3, <2>1 DEF Statuses
  <2>3. ~Free(t)'
    BY <1>2, <2>1 DEF Held
  <2> QED BY <2>2, <2>3
<1> QED BY <1>6, <1>7, <1>8, <1>9, <1>10, <1>11 DEF DocumentStep

LEMMA MovingDocument ==
  ASSUME TypeInv, Steady, Base, ~Gone, "enqueue" \notin setting, Moving,
         UNCHANGED <<setting, request>>, NEW t \in Documents, DocumentStep(t)
  PROVE  Moving'
<1>1. /\ t \in Tasks /\ ~Free(t) /\ Untouched /\ ~Reparsing /\ TypeOK
      /\ \A d \in Documents : d # t => task'[d] = task[d] /\ Free(d)
      /\ ~EnqueueNext(t) => Untouched'
  BY DocumentFacts DEF TypeInv
<1>2. row.status \notin {"deleted", "finalizing"}
  BY <1>1 DEF Gone, Moving, Rewriting
<1>3. \A u \in Others : Free(u) /\ u # t /\ u \in Tasks
  BY <1>1, IdleFacts, RunFacts DEF Others
<1>4. \A u \in SubTasks \cup PostTasks : u \in Others
  BY IdleFacts
<1>5. Queued.at = "queued"
  BY RecordFacts
<1>6. CASE EnqueueNext(t)
  <2> DEFINE next == IF Pictures = {} THEN {Post(attempt, None)}
                     ELSE {Image(attempt, i) : i \in Pictures}
  <2>1. /\ Pictures = {} => next \subseteq PostTasks
        /\ Pictures # {} => next \subseteq ImageTasks
        /\ task'[t].at = "done"
        /\ \E refused \in SUBSET next :
             /\ \A u \in next \ refused : task'[u] = Queued
             /\ \A u \in Tasks : u # t /\ u \notin next \ refused => task'[u] = task[u]
    BY <1>6, EnqueueFacts
  <2> HIDE DEF next
  <2>2. /\ \A s \in SubTasks : task'[s] = task[s]
        /\ \A p \in PostTasks : task'[p] = task[p] \/ task'[p] = Queued
    BY <1>3, <1>4, <2>1, TaskFacts
  <2>3. UNCHANGED <<row, attempt>> /\ task[t].at \in Held
    BY <1>6 DEF EnqueueNext, Held
  <2>4. pendingImages' = IF Pictures = {} \/ "lite" \in setting THEN pendingImages
                         ELSE Cardinality(Pictures)
    BY <1>6 DEF EnqueueNext
  <2>5. row'.status \notin {"pending", "finalizing"}
    BY <1>2, <2>3 DEF Moving
  <2>6. \/ \E p \in PostTasks : ~Free(p)'
        \/ (Left' # {} /\ ("lite" \in setting \/ pendingImages' <= Cardinality(Left')))
    <3>1. CASE Pictures = {}
      BY <1>6, <3>1, EnqueueLeft
    <3>2. CASE Pictures # {}
      <4>1. Pictures = Images
        BY <3>2 DEF Pictures
      <4>2. Left' = {Image(attempt, i) : i \in Images} /\ attempt \in Attempts
        BY <1>6, <4>1, EnqueueLeft
      <4>3. Cardinality(Left') = Cardinality(Images) /\ Left' # {}
        BY <3>2, <4>1, <4>2, ImageSets
      <4>4. "lite" \notin setting => pendingImages' = Cardinality(Images)
        BY <2>4, <3>2, <4>1
      <4> QED BY <4>3, <4>4, Sizes
    <3> QED BY <3>1, <3>2
  <2>7. ~Fanned'
    BY <1>1, <1>4, <2>2, <2>3 DEF Fanned, Untouched
  <2>8. \A d \in Documents : task'[d].at \notin Held
    BY <1>1, <2>1 DEF Held, Free, Idle
  <2>9. \A p \in PostTasks : task'[p].at \notin Owing
    BY <1>3, <1>4, <1>5, <2>2 DEF Owing, Free, Idle
  <2> QED BY <1>1, <2>5, <2>6, <2>7, <2>8, <2>9 DEF Moving
<1>7. CASE ~EnqueueNext(t)
  <2>1. /\ Free(t)' => row'.status \notin InProgress
        /\ task'[t].at \in Held => row'.status # "pending"
        /\ row'.status # "finalizing"
    BY <1>2, <1>7, DocumentEnds DEF Moving
  <2>2. \A u \in Others : task'[u] = task[u]
    <3>1. CASE MarkProcessing(t)
      BY <1>3, <3>1, MarkFacts DEF Only
    <3>2. CASE ~MarkProcessing(t)
      BY <1>3, <1>7, <3>2, DocumentAttempt, DocumentLocal DEF Local, Only
    <3> QED BY <3>1, <3>2
  <2>3. ~Fanned'
    BY <1>1, <1>4, <1>7 DEF Fanned, Untouched
  <2>4. \A d \in Documents : task'[d].at \in Held => row'.status # "pending"
    BY <1>1, <2>1 DEF Held, Free, Idle
  <2>5. \A p \in PostTasks : task'[p].at \notin Owing
    BY <1>3, <1>4, <2>2 DEF Owing, Free, Idle
  <2>6. row'.status \in {"pending", "processing"} => ~Free(t)'
    BY <2>1 DEF InProgress
  <2> QED BY <2>1, <2>3, <2>4, <2>5, <2>6 DEF Moving
<1> QED BY <1>6, <1>7

\* An image that is counted starts the post-process task or leaves the counter
\* one lower.
LEMMA CountMoves ==
  ASSUME TypeInv, Steady, Base, "enqueue" \notin setting, NEW t \in ImageTasks, CountImage(t)
  PROVE  \/ task'[Post(attempt, t.item)] = Queued
         \/ /\ "lite" \notin setting /\ pendingImages > 1
            /\ pendingImages' = pendingImages - 1
<1> DEFINE next == Post(attempt, t.item)
           z == [Finished EXCEPT !.tries = task[t].tries]
           starts == pendingImages <= 1 \/ "lite" \in setting
<1>1. t \in Tasks /\ t.run = attempt /\ next \in PostTasks /\ next \in Tasks /\ next # t
  <2>1. t \in Tasks /\ t.run = attempt /\ next \in PostTasks
    BY CountFacts
  <2> QED BY <2>1, TaskFacts
<1>2. PICK refused \in Refused({next}), failed \in BOOLEAN :
        /\ task' = [task EXCEPT ![t] = z,
                                ![next] = IF (failed \/ starts) /\ refused = {} THEN Queued ELSE @]
        /\ pendingImages' = IF failed \/ ~("lite" \notin setting) \/ pendingImages = 0
                            THEN pendingImages ELSE pendingImages - 1
  BY <1>1 DEF CountImage
<1>3. refused = {} /\ task \in [Tasks -> Record] /\ pendingImages \in Nat
  BY Sizes DEF Refused, TypeInv, TypeOK, Record
<1> HIDE DEF next, z
<1>4. task'[next] = IF (failed \/ starts) /\ refused = {} THEN Queued ELSE task[next]
  BY <1>1, <1>2, <1>3
<1>5. CASE failed \/ starts
  BY <1>3, <1>4, <1>5 DEF next
<1>6. CASE ~(failed \/ starts)
  BY <1>2, <1>3, <1>6
<1> QED BY <1>5, <1>6

LEMMA MovingImage ==
  ASSUME TypeInv, Steady, Base, "enqueue" \notin setting, Moving, ~Untouched',
         UNCHANGED <<setting, request>>, NEW t \in ImageTasks, ImageStep(t)
  PROVE  Moving'
<1>1. t \in Others /\ t \in Tasks /\ OtherStep(t)
  BY IdleFacts DEF OtherStep
<1>2. /\ UNCHANGED <<row, attempt>> /\ ~Free(t) /\ ~Reparsing
      /\ \A d \in Documents : Free(d) /\ task'[d] = task[d]
  <2>1. UNCHANGED row
    BY DEF ImageStep, StartImage, ImageEnds, ImageFails, CountImage
  <2> QED BY <1>1, <2>1, OtherFacts, IdleFacts
<1>3. Queued.at = "queued" /\ pendingImages \in Nat
  BY RecordFacts, Sizes DEF TypeInv, TypeOK
<1>4. CASE CountImage(t)
  <2> DEFINE next == Post(attempt, t.item)
  <2>1. /\ next \in PostTasks /\ Free(next)
        /\ \A u \in Tasks : u # t /\ u # next => task'[u] = task[u]
        /\ task'[next] = task[next] \/ task'[next] = Queued
    BY <1>4, CountFacts
  <2>2. /\ Cardinality(Left') = Cardinality(Left) - 1 /\ Cardinality(Left) \in Nat
        /\ Cardinality(Left) > 0 /\ t \in Left /\ Left' = Left \ {t}
    BY <1>4, CountLeft, LeftFacts
  <2>3. \/ task'[next] = Queued
        \/ "lite" \notin setting /\ pendingImages > 1 /\ pendingImages' = pendingImages - 1
    BY <1>4, CountMoves
  <2> HIDE DEF next
  <2>4. /\ \A s \in SubTasks : task'[s] = task[s]
        /\ \A p \in PostTasks : task'[p] = task[p] \/ (Free(p) /\ task'[p] = Queued)
    BY <2>1, TaskFacts
  <2>5. row.status = "processing" =>
          \/ \E p \in PostTasks : ~Free(p)'
          \/ (Left' # {} /\ ("lite" \in setting \/ pendingImages' <= Cardinality(Left')))
    <3>1. CASE task'[next] = Queued
      BY <1>3, <2>1, <3>1 DEF Free, Idle
    <3>2. CASE task'[next] # Queued
      <4> SUFFICES ASSUME row.status = "processing", \A p \in PostTasks : Free(p)
                   PROVE  Left' # {} /\ pendingImages' <= Cardinality(Left')
        BY <2>1, <2>4, <3>2 DEF Free
      <4>1. pendingImages <= Cardinality(Left)
        BY <1>2, <2>3, <3>2 DEF Moving
      <4>2. Cardinality(Left') > 0 /\ pendingImages' <= Cardinality(Left')
        BY <1>3, <2>2, <2>3, <3>2, <4>1
      <4> QED BY <4>2, FS_EmptySet
    <3> QED BY <3>1, <3>2
  <2>6. Busy' = Busy /\ (Fanned' <=> Fanned)
    BY <1>2, <2>4 DEF Busy, Fanned
  <2>7. \A p \in PostTasks : /\ task[p].at = "fanning" => task'[p].at = "fanning"
                             /\ task'[p].at \notin Owing
    BY <1>3, <2>4 DEF Moving, Owing, Free, Idle
  <2>8. row.status # "pending"
    BY <1>2 DEF Moving
  <2> QED BY <1>2, <2>4, <2>5, <2>6, <2>7, <2>8 DEF Moving, Free
<1>5. CASE StartImage(t) \/ ImageEnds(t) \/ ImageFails(t)
  <2>1. Local(t) /\ UNCHANGED pendingImages
    BY <1>5, ImageLocal DEF StartImage, ImageEnds, ImageFails
  <2>2. \A u \in Tasks : u # t => task'[u] = task[u]
    BY <2>1 DEF Local, Only
  <2>3. task'[t].at \in {"counting", "running", "queued"}
    BY <1>1, <1>5, MoveFacts, RequeueFacts DEF StartImage, ImageEnds, ImageFails, Phases, TypeInv
  <2>4. \A u \in PostTasks \cup SubTasks : task'[u] = task[u]
    BY <2>2, TaskFacts
  <2>5. \A u \in ImageTasks : task[u].at \in Idle <=> task'[u].at \in Idle
    BY <1>2, <2>2, <2>3, TaskFacts DEF Free, Idle
  <2>6. Left' = Left
    BY <2>5 DEF Left, Free
  <2>7. Busy' = Busy /\ (Fanned' <=> Fanned)
    BY <1>2, <2>4 DEF Busy, Fanned
  <2>8. row.status # "pending"
    BY <1>2 DEF Moving
  <2> QED BY <1>2, <2>1, <2>4, <2>6, <2>7, <2>8 DEF Moving, Free
<1> QED BY <1>4, <1>5 DEF ImageStep

LEMMA MovingFanOut ==
  ASSUME TypeInv, Steady, Base, "enqueue" \notin setting, Moving, ~Untouched',
         UNCHANGED <<setting, request>>, NEW t \in PostTasks, FanOut(t),
         \A d \in Documents : Free(d) /\ task'[d] = task[d]
  PROVE  Moving'
<1> DEFINE subs == {Sub(attempt, s) : s \in Subtasks}
<1>1. /\ t \in Tasks /\ attempt \in Attempts /\ subs \subseteq SubTasks
      /\ \A u \in subs : task'[u] = Queued
      /\ \A u \in Tasks : u # t /\ u \notin subs => task'[u] = task[u]
      /\ task'[t].at = "done"
  <2>1. /\ t \in Tasks /\ attempt \in Attempts /\ subs \subseteq SubTasks
        /\ \E refused \in SUBSET subs :
             /\ refused = {}
             /\ \A u \in subs \ refused : task'[u] = Queued
             /\ \A u \in Tasks : u # t /\ u \notin subs \ refused => task'[u] = task[u]
             /\ refused = {} => task'[t].at = "done"
    BY FanOutFacts
  <2> QED BY <2>1
<1>2. Cardinality(subs) = Cardinality(Subtasks)
  <2>1. {s \in Subtasks : Sub(attempt, s) \in subs} = Subtasks
    OBVIOUS
  <2> QED BY <1>1, <2>1, RefusedSubs
<1>3. Sub(attempt, Summary) \in subs
  OBVIOUS
<1> HIDE DEF subs
<1>4. task[t].at = "fanning" /\ UNCHANGED <<row, attempt>> /\ ~Fanned /\ row.status \notin Early
  BY DEF FanOut, Base, FanOK, FanPhases, Fanning
<1>5. Queued.at = "queued"
  BY RecordFacts
<1>6. Busy' = subs
  <2>1. Busy = {} /\ t \notin SubTasks
    BY <1>4, BusyFacts, TaskFacts
  <2>2. \A u \in subs : u \in SubTasks /\ task'[u].at \in Slot
    BY <1>1, <1>5 DEF Slot
  <2>3. \A u \in SubTasks : u \notin subs => task'[u].at \notin Slot
    BY <1>1, <2>1, TaskFacts DEF Busy
  <2> QED BY <2>2, <2>3 DEF Busy
<1>7. row'.count <= Cardinality(Busy')
  BY <1>2, <1>4, <1>6, Sizes DEF TypeInv, TypeOK
<1>8. \E s \in SubTasks : ~Free(s)'
  BY <1>1, <1>3, <1>5 DEF Free, Idle
<1>9. \A p \in PostTasks : task'[p].at \notin Owing
  BY <1>1, TaskFacts DEF Moving, Owing
<1> QED BY <1>4, <1>7, <1>8, <1>9 DEF Moving, Early

LEMMA MovingPost ==
  ASSUME TypeInv, Steady, Base, "enqueue" \notin setting, ~Gone, Moving, ~Untouched',
         UNCHANGED <<setting, request>>, NEW t \in PostTasks, PostStep(t)
  PROVE  Moving'
<1>1. t \in Others /\ t \in Tasks /\ OtherStep(t) /\ TypeOK
  BY IdleFacts DEF OtherStep, TypeInv
<1>2. /\ UNCHANGED attempt /\ ~Free(t) /\ ~Reparsing /\ row.status \notin {"deleted", "pending"}
      /\ \A d \in Documents : Free(d) /\ task'[d] = task[d]
  <2>1. /\ UNCHANGED attempt /\ ~Free(t) /\ ~Reparsing
        /\ \A d \in Documents : Free(d) /\ task'[d] = task[d]
    BY <1>1, OtherFacts, IdleFacts
  <2> QED BY <2>1 DEF Moving, Gone
<1>3. ASSUME ~FanOut(t)
      PROVE  /\ Only(t) /\ \A s \in SubTasks : task'[s] = task[s]
             /\ \A p \in PostTasks : p # t => task'[p] = task[p]
             /\ Busy' = Busy /\ (Fanned' <=> Fanned)
             /\ \A d \in Documents : task'[d].at \notin Held
  <2>1. Only(t)
    BY <1>3, PostLocal DEF Local
  <2>2. \A s \in SubTasks : task'[s] = task[s]
    BY <2>1, TaskFacts DEF Only
  <2>3. \A p \in PostTasks : p # t => task'[p] = task[p]
    BY <2>1, TaskFacts DEF Only
  <2>4. Busy' = Busy /\ (Fanned' <=> Fanned)
    BY <1>2, <2>2 DEF Busy, Fanned
  <2>5. \A d \in Documents : task'[d].at \notin Held
    BY <1>2 DEF Held, Free, Idle
  <2> QED BY <2>1, <2>2, <2>3, <2>4, <2>5
<1>4. ASSUME End(t) \/ Finish(t) \/ Requeue(t)
      PROVE  task'[t].at \in {"queued", "done"} /\ (Requeue(t) => task'[t].at = "queued")
  BY <1>1, <1>4, EndFacts, FinishFacts, RequeueFacts, RecordFacts DEF Steady, Without
<1>5. ASSUME NEW s \in Statuses, UpdateKnowledge(s)
      PROVE  row'.count = row.count /\ row'.status = s
  BY <1>1, <1>2, <1>5, RowFacts
<1>6. CASE ~FanOut(t) /\ (StartPost(t) \/ PostFails(t) \/ ListChunks(t))
  <2>1. /\ row'.count = row.count
        /\ \/ row'.status = row.status
              /\ (row.status = "processing" => task'[t].at \in {"queued", "listing", "completing", "seeding"})
           \/ row'.status = "failed"
        /\ task[t].at # "fanning"
        /\ task'[t].at \in {"queued", "done", "listing", "completing", "seeding"}
    <3>1. CASE StartPost(t)
      BY <1>1, <1>4, <3>1, MoveFacts DEF StartPost, Phases
    <3>2. CASE PostFails(t)
      BY <1>4, <1>5, <3>2 DEF PostFails, Statuses
    <3>3. CASE ListChunks(t)
      <4>1. UNCHANGED row /\ task[t].at = "listing"
            /\ Move(t, IF chunks = {} THEN "completing" ELSE "seeding")
        BY <3>3 DEF ListChunks
      <4> QED BY <1>1, <4>1, MoveFacts DEF Phases
    <3> QED BY <1>6, <3>1, <3>2, <3>3
  <2>2. task'[t].at \notin Owing /\ task'[t].at \notin FanPhases
        /\ (task'[t].at \in {"queued", "listing", "completing", "seeding"} => ~Free(t)')
    BY <2>1 DEF Owing, FanPhases, Free, Idle
  <2>3. \A p \in PostTasks : /\ task'[p].at \notin Owing
                             /\ task[p].at = "fanning" => task'[p].at = "fanning"
    BY <1>3, <1>6, <2>1, <2>2 DEF Moving
  <2>4. row'.status = "processing" => \E p \in PostTasks : ~Free(p)'
    BY <2>1, <2>2
  <2>5. row'.status # "pending" /\ (row'.status = "finalizing" => row.status = "finalizing")
    BY <1>2, <2>1
  <2> QED BY <1>2, <1>3, <1>6, <2>1, <2>3, <2>4, <2>5 DEF Moving, Free
<1>7. CASE ~FanOut(t) /\ CompleteEmpty(t)
  <2>1. row'.count = row.count /\ row'.status = "completed" /\ task'[t].at \in {"queued", "done"}
    BY <1>4, <1>5, <1>7 DEF CompleteEmpty, Statuses
  <2>2. \A p \in PostTasks : task'[p].at \notin Owing
    BY <1>3, <1>7, <2>1 DEF Moving, Owing
  <2> QED BY <1>3, <1>7, <2>1, <2>2 DEF Moving
<1>8. CASE ~FanOut(t) /\ SetFinalizing(t)
  <2>1. task[t].at = "seeding"
    BY <1>8 DEF SetFinalizing
  <2>2. CASE row.status # "processing"
    <3>1. UNCHANGED row /\ task'[t].at \in {"queued", "done"}
      BY <1>4, <1>8, <2>2 DEF SetFinalizing
    <3>2. \A p \in PostTasks : /\ task'[p].at \notin Owing
                               /\ task[p].at = "fanning" => task'[p].at = "fanning"
      BY <1>3, <1>8, <2>1, <3>1 DEF Moving, Owing
    <3> QED BY <1>2, <1>3, <1>8, <2>2, <3>1, <3>2 DEF Moving, Free
  <2>3. CASE row.status = "processing"
    <3>1. row'.status = "finalizing" /\ Move(t, "fanning") /\ ~Fanned
      BY <1>8, <2>3 DEF SetFinalizing, Base, FanOK, Early
    <3>2. task'[t].at = "fanning"
      BY <1>1, <3>1, MoveFacts DEF Phases
    <3>3. \A p \in PostTasks : task'[p].at \notin Owing
      BY <1>3, <1>8, <3>2 DEF Moving, Owing
    <3> QED BY <1>3, <1>8, <3>1, <3>2, <3>3 DEF Moving
  <2> QED BY <2>2, <2>3
<1>9. CASE Decrement(t) \/ Promote(t)
  <2>1. task[t].at \in Owing
    BY <1>1, <1>9 DEF Decrement, Promote, Owing, Base, PhaseOK, PhaseFits, FanPhases
  <2> QED BY <2>1 DEF Moving
<1>10. CASE FanOut(t)
  BY <1>2, <1>10, MovingFanOut
<1> QED BY <1>6, <1>7, <1>8, <1>9, <1>10 DEF PostStep

LEMMA MovingSub ==
  ASSUME TypeInv, Steady, Base, ~Gone, Moving, ~Untouched',
         UNCHANGED <<setting, request>>, NEW t \in SubTasks, SubStep(t)
  PROVE  Moving'
<1>1. /\ t \in Others /\ t \in Tasks /\ OtherStep(t) /\ TypeOK /\ Local(t) /\ Only(t)
      /\ row.count \in Nat /\ PhaseFits(t)
  BY IdleFacts, SubLocal, Sizes DEF OtherStep, TypeInv, TypeOK, Local, Base, PhaseOK
<1>2. /\ UNCHANGED attempt /\ ~Free(t) /\ ~Reparsing /\ row.status # "deleted"
      /\ \A d \in Documents : Free(d) /\ task'[d] = task[d]
      /\ t.run = attempt /\ Fanned
  <2>1. /\ UNCHANGED attempt /\ ~Free(t) /\ ~Reparsing /\ t.run = attempt
        /\ \A d \in Documents : Free(d) /\ task'[d] = task[d]
    BY <1>1, OtherFacts, IdleFacts
  <2>2. Fanned
    BY <2>1 DEF Fanned, Free, Idle
  <2> QED BY <2>1, <2>2 DEF Gone
<1>3. row.status \notin Early /\ row'.status \notin Early /\ row.count <= Cardinality(Busy)
  <2>1. row.status \notin Early /\ row.count <= Cardinality(Busy) /\ t \notin Documents
    BY <1>1, <1>2 DEF Base, FanOK, Moving, Others
  <2> QED BY <1>1, <2>1 DEF Local
<1>4. /\ \A s \in SubTasks : s # t => task'[s] = task[s]
      /\ \A p \in PostTasks : task'[p] = task[p]
      /\ \A d \in Documents : task'[d].at \notin Held
  <2>1. \A d \in Documents : task'[d].at \notin Held
    BY <1>2 DEF Held, Free, Idle
  <2> QED BY <1>1, <2>1, TaskFacts DEF Only
<1>5. ASSUME NEW s \in Statuses, UpdateKnowledge(s) PROVE row'.count = row.count
  BY <1>1, <1>5, RowFacts
<1>6. ASSUME row'.count <= Cardinality(Busy'),
             row'.status = "finalizing" => \E s \in SubTasks : ~Free(s)'
      PROVE  Moving'
  BY <1>3, <1>4, <1>6 DEF Moving, Early
<1>7. task[t].seen \in Statuses
  BY <1>1 DEF TypeOK
<1>8. CASE StartSubtask(t) \/ MarkSummary(t) \/ WorkEnds(t) \/ SaveSummary(t) \/ WorkFails(t)
  <2>1. row'.count = row.count
    BY <1>5, <1>7, <1>8 DEF StartSubtask, MarkSummary, WorkEnds, SaveSummary, WorkFails
  <2>2. task[t].at \in Slot
    BY <1>8 DEF StartSubtask, MarkSummary, WorkEnds, SaveSummary, WorkFails, Slot
  <2>3. task'[t].at \in Slot
    <3>1. CASE StartSubtask(t)
      <4>1. \/ \E at \in {"draining", "working"} : Move(t, at)
            \/ task' = [task EXCEPT ![t].at = "loaded", ![t].seen = row.status]
        <5>1. ~Superseded(t)
          BY <1>1, <1>2 DEF Superseded, TypeOK
        <5> QED BY <3>1, <5>1 DEF StartSubtask
      <4>2. CASE \E at \in {"draining", "working"} : Move(t, at)
        BY <1>1, <4>2, MoveFacts DEF Slot, Phases
      <4>3. CASE task' = [task EXCEPT ![t].at = "loaded", ![t].seen = row.status]
        BY <1>1, <4>3 DEF Slot, TypeOK
      <4> QED BY <4>1, <4>2, <4>3
    <3>2. CASE MarkSummary(t)
      BY <1>1, <3>2 DEF MarkSummary, Slot, TypeOK
    <3>3. CASE WorkEnds(t) \/ SaveSummary(t)
      BY <1>1, <3>3, MoveFacts DEF WorkEnds, SaveSummary, Slot, Phases
    <3>4. CASE WorkFails(t)
      BY <1>1, <3>4, RequeueFacts DEF WorkFails, Slot
    <3> QED BY <1>8, <3>1, <3>2, <3>3, <3>4
  <2>4. Busy' = Busy
    BY <1>4, <2>2, <2>3 DEF Busy
  <2>5. ~Free(t)'
    BY <2>3 DEF Slot, Free, Idle
  <2> QED BY <1>3, <1>6, <2>1, <2>4, <2>5
<1>9. CASE Decrement(t)
  <2>1. task[t].at = "draining"
    BY <1>1, <1>9 DEF PhaseFits, Decrement
  <2>2. task'[t].at = "promoting"
    BY <1>1, <1>9, MoveFacts DEF Decrement, Phases
  <2>3. t \in Busy /\ Busy' = Busy \ {t}
    BY <1>4, <2>1, <2>2 DEF Busy, Slot
  <2>4. Cardinality(Busy') = Cardinality(Busy) - 1 /\ Cardinality(Busy) > 0
        /\ Cardinality(Busy) \in Nat
    BY <2>3, BusyFacts, OneLess
  <2>5. row'.count = IF row.count > 0 THEN row.count - 1 ELSE 0
    BY <1>1, <1>2, <1>9 DEF Decrement, Written, TypeOK
  <2>6. row'.count <= Cardinality(Busy')
    BY <1>1, <1>3, <2>4, <2>5
  <2>7. ~Free(t)'
    BY <2>2 DEF Free, Idle
  <2> QED BY <1>6, <2>6, <2>7
<1>10. CASE Promote(t)
  <2>1. Finish(t) /\ task[t].at = "promoting"
    BY <1>1, <1>10 DEF Promote, PhaseFits
  <2>2. task'[t].at = "done"
    BY <1>1, <2>1, FinishFacts DEF Steady, Without
  <2>3. Busy' = Busy /\ t \notin Busy
    BY <1>4, <2>1, <2>2 DEF Busy, Slot
  <2>4. /\ row'.count = row.count
        /\ row'.status = "finalizing" => row.count # 0
    BY <1>1, <1>10 DEF Promote, TypeOK
  <2>5. row'.status = "finalizing" => \E s \in SubTasks : ~Free(s)'
    <3>1. row.count # 0 => Busy # {}
      BY <1>1, <1>3, BusyFacts
    <3>2. \A s \in Busy : s \in SubTasks /\ ~Free(s)'
      BY <1>4, <2>3 DEF Busy, Slot, Free, Idle
    <3> QED BY <2>4, <3>1, <3>2
  <2> QED BY <1>3, <1>6, <2>3, <2>4, <2>5
<1> QED BY <1>8, <1>9, <1>10 DEF SubStep

LEMMA MovingRequest ==
  ASSUME TypeInv, Steady, RequestOK, Base, Without({"enqueue", "cancel"}), ~Gone, Moving,
         RequestStep
  PROVE  Moving'
<1>1. TypeOK /\ row.status # "deleted" /\ setting' = setting /\ row.count \in Nat
  BY Sizes DEF TypeInv, TypeOK, Gone, RequestStep
<1>2. CASE \E kind \in Requests : Ask(kind)
  <2>1. UNCHANGED <<row, attempt, pendingImages, task>> /\ ~Reparsing
    BY <1>2 DEF Ask, Reparsing
  <2>2. Left' = Left /\ Busy' = Busy /\ (Fanned' <=> Fanned) /\ (Untouched' <=> Untouched)
    BY <2>1 DEF Left, Busy, Fanned, Untouched, Free
  <2> QED BY <1>1, <2>1, <2>2 DEF Moving, Rewriting, Free
<1>3. CASE request.at # "idle"
  <2>1. request.kind = "reparse" /\ Reparsing /\ request.at # "remove"
    BY <1>3 DEF RequestOK, Requests, Without, Gone, Reparsing
  <2>2. \A t \in Tasks : Free(t)
    BY <2>1 DEF Base, AloneOK
  <2>3. \A u \in SubTasks \cup PostTasks : u \in Others /\ u \in Tasks
    BY IdleFacts
  <2>4. ASSUME \A u \in Others : task'[u] = task[u], Untouched',
               \A d \in Documents : Free(d)' \/ task'[d].at = "queued",
               row'.status # "finalizing" \/ Rewriting',
               row'.status \in InProgress => Reparsing' \/ \E d \in Documents : ~Free(d)'
        PROVE  Moving'
    <3>1. \A p \in PostTasks : task'[p].at \notin Owing
      BY <2>2, <2>3, <2>4 DEF Owing, Free, Idle
    <3>2. ~Fanned'
      BY <2>3, <2>4 DEF Fanned, Untouched
    <3>3. \A d \in Documents : task'[d].at \notin Held
      BY <2>4 DEF Held, Free, Idle
    <3>4. Rewriting' => Reparsing'
      BY DEF Rewriting
    <3> QED BY <2>4, <3>1, <3>2, <3>3, <3>4 DEF Moving, InProgress
  <2>5. request.at \in {"clean", "write", "zero", "enqueue"} => Untouched
    BY <2>1 DEF Base, AloneOK
  <2>6. request.at \notin {"clean", "write"} /\ Untouched => row.status # "finalizing"
    BY DEF Moving, Rewriting
  <2>7. ASSUME NEW at, Reached(at), at # "idle"
        PROVE  request'.at = at /\ Reparsing'
    BY <1>1, <2>1, <2>7 DEF Reached, Reparsing, TypeOK
  <2>8. CASE Dequeue
    <3>1. UNCHANGED <<row, attempt>> /\ Reparsing' /\ request.at = "dequeue"
      BY <2>1, <2>7, <2>8 DEF Dequeue
    <3>2. task' = task
      <4>1. \A t \in Tasks : task'[t] = task[t]
        BY <2>2, <2>8, DequeueFacts DEF Free, Idle
      <4>2. task' = [t \in Tasks |-> Dequeued(t)] /\ task \in [Tasks -> Record]
        BY <1>1, <2>8 DEF Dequeue, TypeOK, Record
      <4> QED BY <4>1, <4>2
    <3>3. row.status = "finalizing" => ~Untouched
      BY <2>6, <3>1
    <3>4. (Untouched' <=> Untouched) /\ Left' = Left /\ Busy' = Busy /\ (Fanned' <=> Fanned)
      BY <3>1, <3>2 DEF Untouched, Left, Busy, Fanned, Free
    <3> QED BY <3>1, <3>2, <3>3, <3>4 DEF Moving
  <2>9. CASE OpenAttempt
    <3>1. attempt' = attempt + 1 /\ task' = task
      BY <2>9 DEF OpenAttempt
    <3>2. Rewriting' /\ Reparsing'
      BY <2>7, <2>9 DEF OpenAttempt, Rewriting
    <3>3. Untouched'
      <4> SUFFICES ASSUME NEW u \in Others, u.run = attempt' PROVE task[u].at = "none"
        BY <3>1 DEF Untouched
      <4>1. u.run >= attempt'
        BY RunFacts DEF Attempts
      <4> QED BY <3>1, <4>1, NewAttempt
    <3> QED BY <2>2, <2>4, <3>1, <3>2, <3>3, TaskFacts DEF Free
  <2>10. CASE CleanResources
    <3>1. UNCHANGED <<row, attempt, task>> /\ Reached("write") /\ request.at = "clean"
      BY <2>1, <2>10 DEF CleanResources
    <3>2. Rewriting' /\ Reparsing' /\ Untouched'
      BY <2>5, <2>7, <3>1 DEF Rewriting, Untouched
    <3> QED BY <2>2, <2>4, <3>1, <3>2, TaskFacts DEF Free
  <2>11. CASE WriteStatus
    <3>1. UNCHANGED <<attempt, task>> /\ UpdateKnowledge("pending") /\ Reached("zero")
          /\ request.at = "write"
      BY <2>1, <2>11 DEF WriteStatus
    <3>2. row'.status = "pending"
      BY <1>1, <3>1, RowFacts DEF Statuses
    <3>3. Reparsing' /\ Untouched'
      BY <2>5, <2>7, <3>1 DEF Untouched
    <3> QED BY <2>2, <2>4, <3>1, <3>2, <3>3, TaskFacts DEF Free
  <2>12. CASE ResetCount
    <3>1. UNCHANGED <<attempt, task>> /\ Reached("enqueue") /\ request.at = "zero"
          /\ row'.status = row.status
      BY <1>1, <2>12 DEF ResetCount, Written, TypeOK
    <3>2. Reparsing' /\ Untouched' /\ row'.status # "finalizing"
      BY <2>5, <2>6, <2>7, <3>1 DEF Untouched
    <3> QED BY <2>2, <2>4, <3>1, <3>2, TaskFacts DEF Free
  <2>13. CASE EnqueueReparse
    <3>1. UNCHANGED <<row, attempt>> /\ request.at = "enqueue"
          /\ task' = [task EXCEPT ![Document(2)] = [Queued EXCEPT !.attempt = attempt]]
      BY <2>13 DEF EnqueueReparse, Refused, Without
    <3>2. [Queued EXCEPT !.attempt = attempt].at = "queued"
      BY DEF Queued, Fresh
    <3> HIDE DEF Queued
    <3>3. /\ \A u \in Tasks : u # Document(2) => task'[u] = task[u]
          /\ task'[Document(2)].at = "queued"
      BY <1>1, <3>1, <3>2, TaskFacts DEF TypeOK
    <3>4. \A u \in Others : task'[u] = task[u]
      BY <3>3, RunFacts
    <3>5. Untouched' /\ row'.status # "finalizing"
      BY <2>5, <2>6, <3>1, <3>4 DEF Untouched
    <3>6. \A d \in Documents : Free(d)' \/ task'[d].at = "queued"
      BY <2>2, <3>3, TaskFacts DEF Free
    <3>7. ~Free(Document(2))'
      BY <3>3 DEF Free, Idle
    <3> QED BY <2>4, <3>4, <3>5, <3>6, <3>7, TaskFacts
  <2> QED BY <1>3, <2>1, <2>8, <2>9, <2>10, <2>11, <2>12, <2>13 DEF RequestStep, Ask, RemoveRow
<1> QED BY <1>2, <1>3
        DEF RequestStep, WriteStatus, Dequeue, OpenAttempt, CleanResources, RemoveRow, ResetCount,
            EnqueueReparse

LEMMA MovingSweep ==
  ASSUME TypeInv, Base, ~Gone, Moving, SweepStep
  PROVE  Moving'
<1>1. UNCHANGED <<setting, attempt, pendingImages, task, request>> /\ row.status # "deleted"
  BY DEF SweepStep, Gone
<1>2. UNCHANGED row \/ \E kind \in {"drained", "stale", "stuck"} : Recover(kind)
  BY DEF SweepStep, Sweep, ApplySweep, TypeInv, TypeOK
<1>3. /\ row'.status \in {row.status, "completed", "failed"}
      /\ row'.count \in {row.count, 0}
  BY <1>1, <1>2 DEF Recover, Written, TypeInv, TypeOK
<1>4. /\ Left' = Left /\ Busy' = Busy /\ (Fanned' <=> Fanned) /\ (Untouched' <=> Untouched)
      /\ (Reparsing' <=> Reparsing) /\ (Rewriting' <=> Rewriting)
  BY <1>1 DEF Left, Busy, Fanned, Untouched, Reparsing, Rewriting, Free
<1>5. Fanned' => row'.count <= Cardinality(Busy')
  BY <1>3, <1>4, BusyFacts DEF Moving
<1> QED BY <1>1, <1>3, <1>4, <1>5 DEF Moving, Free

LEMMA MovingKept ==
  ASSUME TypeInv, Steady, RequestOK, Base, QuietOK, Without({"enqueue", "cancel"}), ~Gone',
         Moving, [Next]_vars
  PROVE  Moving'
<1>1. ~Gone /\ "enqueue" \notin setting /\ "cancel" \notin setting
  BY GoneKept DEF Without
<1>2. CASE TaskStep
  <2>1. UNCHANGED <<setting, request>>
    BY <1>2 DEF TaskStep
  <2>2. ASSUME NEW t \in Documents, DocumentStep(t) PROVE Moving'
    BY <1>1, <2>1, <2>2, MovingDocument
  <2>3. ASSUME NEW t \in Others, OtherStep(t) PROVE ~Untouched'
    <3>1. ~Untouched /\ attempt' = attempt
      BY <2>1, <2>3, OtherFacts
    <3> QED BY <3>1, AttemptChanges
  <2>4. ASSUME NEW t \in ImageTasks, ImageStep(t) PROVE Moving'
    <3>1. ~Untouched'
      BY <2>3, <2>4, IdleFacts DEF OtherStep
    <3> QED BY <1>1, <2>1, <2>4, <3>1, MovingImage
  <2>5. ASSUME NEW t \in PostTasks, PostStep(t) PROVE Moving'
    <3>1. ~Untouched'
      BY <2>3, <2>5, IdleFacts DEF OtherStep
    <3> QED BY <1>1, <2>1, <2>5, <3>1, MovingPost
  <2>6. ASSUME NEW t \in SubTasks, SubStep(t) PROVE Moving'
    <3>1. ~Untouched'
      BY <2>3, <2>6, IdleFacts DEF OtherStep
    <3> QED BY <1>1, <2>1, <2>6, <3>1, MovingSub
  <2>7. ASSUME NEW t \in Tasks, Acknowledge(t) \/ Stop(t) PROVE FALSE
    <3>1. ~task[t].signalled
      BY <1>1 DEF QuietOK
    <3>2. task[t].at # "ending"
      BY TaskFacts DEF Base, PhaseOK, PhaseFits, Held, FanPhases
    <3> QED BY <2>7, <3>1, <3>2 DEF Acknowledge, Stop
  <2> QED BY <1>2, <2>2, <2>4, <2>5, <2>6, <2>7 DEF TaskStep
<1>3. CASE CrashStep
  BY <1>3 DEF CrashStep, Crash, Steady, Without
<1>4. CASE RequestStep
  BY <1>1, <1>4, MovingRequest
<1>5. CASE SweepStep
  BY <1>1, <1>5, MovingSweep
<1>6. CASE UNCHANGED vars
  <2>1. UNCHANGED <<setting, row, attempt, pendingImages, task, request>>
    BY <1>6 DEF vars
  <2>2. /\ Left' = Left /\ Busy' = Busy /\ (Fanned' <=> Fanned) /\ (Untouched' <=> Untouched)
        /\ (Reparsing' <=> Reparsing) /\ (Rewriting' <=> Rewriting)
    BY <2>1 DEF Left, Busy, Fanned, Untouched, Reparsing, Rewriting, Free
  <2> QED BY <2>1, <2>2 DEF Moving, Free
<1> QED BY <1>2, <1>3, <1>4, <1>5, <1>6 DEF Next

MovingInv == JoinInv /\ (Steady /\ Without({"enqueue", "cancel"}) /\ ~Gone => Moving)

LEMMA MovingInductive == Spec => []MovingInv
<1>1. Init /\ JoinInv => MovingInv
  <2> SUFFICES ASSUME Init, JoinInv PROVE Moving
    BY DEF MovingInv
  <2>1. /\ row.status = "pending" /\ task[Document(1)] = Queued
        /\ \A t \in Tasks : t # Document(1) => task[t] = Fresh
    BY TaskFacts DEF Init
  <2>2. Queued.at = "queued" /\ Fresh.at = "none"
    BY RecordFacts DEF Fresh
  <2>3. ~Free(Document(1)) /\ Document(1) \in Documents
    BY <2>1, <2>2, TaskFacts DEF Free, Idle
  <2>4. \A u \in PostTasks \cup SubTasks : task[u].at = "none"
    BY <2>1, <2>2, TaskFacts
  <2>5. ~Fanned /\ \A p \in PostTasks : task[p].at \notin Owing
    BY <2>4 DEF Fanned, Owing
  <2>6. \A d \in Documents : task[d].at \notin Held
    BY <2>1, <2>2, TaskFacts DEF Held
  <2> QED BY <2>1, <2>3, <2>5, <2>6 DEF Moving
<1>2. MovingInv /\ JoinInv' /\ [Next]_vars => MovingInv'
  <2> SUFFICES ASSUME MovingInv, JoinInv', [Next]_vars, Steady,
                      Without({"enqueue", "cancel"}), ~Gone'
               PROVE  Moving'
    <3>1. [Next]_vars => setting' = setting
      BY DEF Next, TaskStep, CrashStep, RequestStep, SweepStep, vars
    <3> QED BY <3>1 DEF MovingInv, Steady, Without
  <2>1. TypeInv /\ RequestOK /\ Base /\ QuietOK
    BY DEF MovingInv, JoinInv, OrphanInv, StoredInv, IInv
  <2>2. ~Gone
    BY <2>1, GoneKept
  <2> QED BY <2>1, <2>2, MovingKept DEF MovingInv
<1> QED BY <1>1, <1>2, JoinInductive, PTL DEF Spec

\* When the queue takes every task and no worker dies, a row in progress has a
\* task that moves it on: no handler returns without handing the row over
\* (enqueueImageMultimodalTasks, checkAndFinalizeAllImages, SetFinalizing,
\* FinalizeSubtask).
THEOREM NothingStrands == Spec => []NothingStranded
<1>1. MovingInv => NothingStranded
  <2> SUFFICES ASSUME MovingInv, Without({"enqueue", "crash", "cancel", "impatient"}),
                      row.status \in InProgress, request.at = "idle"
               PROVE  \E t \in Tasks : ~Free(t)
    BY DEF NothingStranded
  <2>1. ~Gone /\ ~Reparsing
    BY DEF Gone, Reparsing, InProgress
  <2>2. Moving
    BY <2>1 DEF MovingInv, Steady, Without
  <2>3. CASE Left # {}
    BY <2>3, TaskFacts DEF Left
  <2>4. CASE Left = {}
    <3>1. \E t \in Documents \cup PostTasks \cup SubTasks : ~Free(t)
      BY <2>1, <2>2, <2>4 DEF Moving, InProgress, Free, Idle
    <3> QED BY <3>1, TaskFacts
  <2> QED BY <2>3, <2>4
<1> QED BY <1>1, MovingInductive, PTL
=============================================================================
