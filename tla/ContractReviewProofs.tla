------------------------ MODULE ContractReviewProofs ------------------------
(***************************************************************************)
(* What holds of a contract review for any number of documents, requests,  *)
(* tasks and clauses, any clients and any operations and faults they meet. *)
(***************************************************************************)
EXTENDS ContractReview, FiniteSetTheorems, TLAPS

(***************************************************************************)
(* The invariant is about every copy of the row, not only the stored one:  *)
(* any of them may be written back.  A worker keeps what it checked: a     *)
(* review task past Prepare has text, a parse task past ReadDocument has   *)
(* a document.                                                             *)
(***************************************************************************)
Sound(r) ==
  /\ r \in Rows
  /\ r.content \in {None, r.ref}
  /\ r.status \in {"ready", "reviewing_clauses", "completed"} => r.content # None

PastPrepare == ReviewPCs \ {"clear", "reopen", "prepare"}
PastRead == {"recheck", "saveText"}

RequestOK(x) == x \in RequestStates /\ Sound(x.r)
TaskOK(x) ==
  /\ x \in TaskStates /\ Sound(x.r)
  /\ x.pc \in PastPrepare => x.r.content # None
  /\ x.pc \in PastRead => x.r.ref # None

StoreOK ==
  /\ scene \in Scenes
  /\ deleted \in BOOLEAN
  /\ clauses \in [Seqs -> Clauses \union {None}]
  /\ issues \subseteq Issues /\ IsFiniteSet(issues)
  /\ files \subseteq saved /\ saved \subseteq Docs

RequestsOK == req \in [Requests -> RequestStates] /\ \A q \in Requests : RequestOK(req[q])
TasksOK == task \in [Tasks -> TaskStates] /\ \A t \in Tasks : TaskOK(task[t])

IInv == Sound(row) /\ StoreOK /\ RequestsOK /\ TasksOK /\ NoResurrection

\* A row changed the way a handler changes it stays sound.
LEMMA SoundChanges ==
  ASSUME NEW r, Sound(r)
  PROVE  /\ \A s \in {"uploading", "analyzing", "failed"} : Sound([r EXCEPT !.status = s])
         /\ r.content # None =>
              \A s \in Statuses : Sound([r EXCEPT !.status = s])
         /\ r.ref # None =>
              Sound([r EXCEPT !.status = "ready", !.content = r.ref])
         /\ \A p \in Parties : Sound([r EXCEPT !.party = p])
         /\ \A b \in BOOLEAN : Sound([r EXCEPT !.archived = b])
         /\ \A n \in Nat : Sound([r EXCEPT !.overview = n])
         /\ Sound([r EXCEPT !.status = "analyzing", !.overview = None])
         /\ \A d \in Docs : Sound(Uploaded(r, d))
BY DEF Sound, Rows, Statuses, Uploaded

LEMMA NewRowSound == Sound(NewRow)
BY PartiesAssumption DEF Sound, Rows, Statuses, NewRow

\* The idle request and the free task are in order.
LEMMA FreshOK == RequestOK(Idle) /\ TaskOK(Free)
<1>1. RequestOK(Idle)
  BY NewRowSound DEF RequestOK, RequestStates, RequestPCs, Idle, Sound
<1>2. TaskOK(Free)
  <2>1. 0 \in Seqs /\ 0 \in 0 .. MaxFound /\ 0 \in 0 .. 2
    BY ClausesAssumption DEF Seqs
  <2>2. Free \in TaskStates
    BY <2>1, NewRowSound DEF TaskStates, Free, Sound
  <2> QED
    BY <2>2, NewRowSound DEF TaskOK, Free, PastPrepare, PastRead, ReviewPCs
<1> QED
  BY <1>1, <1>2

LEMMA InitIInv == Init => IInv
<1> SUFFICES ASSUME Init PROVE IInv
  OBVIOUS
<1>1. IsFiniteSet(issues)
  BY FS_EmptySet DEF Init
<1>2. StoreOK
  BY <1>1 DEF Init, StoreOK, NoClauses
<1> QED
  BY <1>2, NewRowSound, FreshOK DEF Init, IInv, NoResurrection, RequestsOK, TasksOK, RequestOK, TaskOK

LEMMA IInvProperties ==
  IInv => TypeOK /\ RowIsConsistent /\ NoResurrection
BY DEF IInv, RequestsOK, TasksOK, TypeOK, StoreOK, Sound, RowIsConsistent,
       TextBelongsToDocument, ResultsNeedText

-----------------------------------------------------------------------------
(* The ways a request and a task change *)

LEMMA RequestSet ==
  ASSUME RequestsOK, NEW q \in Requests, NEW x, RequestOK(x),
         req' = [req EXCEPT ![q] = x]
  PROVE  RequestsOK'
BY DEF RequestsOK, RequestOK

LEMMA ProceedOK ==
  ASSUME RequestsOK, NEW q \in Requests, NEW pc \in RequestPCs, Proceed(q, pc)
  PROVE  RequestsOK'
<1>1. RequestOK([req[q] EXCEPT !.pc = pc])
  BY DEF RequestsOK, RequestOK, RequestStates
<1>2. req' = [req EXCEPT ![q] = [req[q] EXCEPT !.pc = pc]]
  BY DEF Proceed
<1> QED
  BY <1>1, <1>2, RequestSet

LEMMA ReturnOK ==
  ASSUME RequestsOK, NEW q \in Requests, Return(q)
  PROVE  RequestsOK'
BY RequestSet, FreshOK DEF Return

LEMMA TaskSet ==
  ASSUME TasksOK, NEW t \in Tasks, NEW x, TaskOK(x), task' = [task EXCEPT ![t] = x]
  PROVE  TasksOK'
BY DEF TasksOK, TaskOK

TaskPCs == {"free", "queued", "fail", "ending"} \union DocumentPCs \union ReviewPCs

LEMMA GotoOK ==
  ASSUME TasksOK, NEW t \in Tasks, NEW pc \in TaskPCs, Goto(t, pc),
         pc \in PastPrepare => task[t].r.content # None,
         pc \in PastRead => task[t].r.ref # None
  PROVE  TasksOK'
<1>1. TaskOK([task[t] EXCEPT !.pc = pc])
  BY DEF TasksOK, TaskOK, TaskStates, TaskPCs
<1>2. task' = [task EXCEPT ![t] = [task[t] EXCEPT !.pc = pc]]
  BY DEF Goto
<1> QED
  BY <1>1, <1>2, TaskSet

LEMMA DoneOK ==
  ASSUME TasksOK, NEW t \in Tasks, Done(t)
  PROVE  TasksOK'
<1> DEFINE y == [Free EXCEPT !.pc = "ending", !.kind = task[t].kind, !.tries = task[t].tries]
<1>1. task[t] \in TaskStates /\ Free \in TaskStates
  BY FreshOK DEF TasksOK, TaskOK
<1>2. y \in TaskStates /\ y.r = Free.r /\ y.pc = "ending"
  BY <1>1 DEF TaskStates
<1>3. TaskOK(y)
  BY <1>2, FreshOK DEF TaskOK, PastPrepare, PastRead, ReviewPCs
<1> QED
  BY <1>3, TaskSet DEF Done

LEMMA RedeliverOK ==
  ASSUME TasksOK, NEW t \in Tasks, Redeliver(t)
  PROVE  TasksOK'
<1> DEFINE again == [Free EXCEPT !.pc = "queued", !.kind = task[t].kind,
                                !.tries = task[t].tries + 1]
<1>1. task[t] \in TaskStates /\ Free \in TaskStates
  BY FreshOK DEF TasksOK, TaskOK
<1>2. ASSUME task[t].tries < MaxRetry(task[t].kind) PROVE TaskOK(again)
  <2>1. task[t].tries + 1 \in 0 .. 2
    BY <1>1, <1>2 DEF TaskStates, MaxRetry
  <2>2. again \in TaskStates
    BY <1>1, <2>1 DEF TaskStates
  <2>3. again.pc \notin PastPrepare \union PastRead /\ again.r = Free.r
    BY <1>1 DEF TaskStates, PastPrepare, PastRead, ReviewPCs
  <2> QED
    BY <2>2, <2>3, FreshOK DEF TaskOK
<1>3. TaskOK(IF task[t].tries < MaxRetry(task[t].kind) THEN again ELSE Free)
  BY <1>2, FreshOK
<1> QED
  BY <1>3, TaskSet DEF Redeliver

LEMMA TryUpdateOK ==
  ASSUME IInv, NEW r, Sound(r), TryUpdate(r)
  PROVE  Sound(row')
BY DEF IInv, TryUpdate, Update, UpdateFails
LEMMA LoadOK ==
  ASSUME IInv, NEW q \in Requests, NEW op \in AllOps, NEW pc \in RequestPCs, NEW r, Sound(r),
         Load(q, op, pc, r)
  PROVE  RequestsOK'
<1> DEFINE x == [pc |-> pc, op |-> op, r |-> r, old |-> row.ref]
<1>1. row.ref \in Docs \union {None} /\ r \in Rows
  BY DEF IInv, Sound, Rows
<1>2. RequestOK(x)
  BY <1>1 DEF RequestOK, RequestStates
<1>3. req' = [req EXCEPT ![q] = x]
  BY DEF Load
<1> QED
  BY <1>2, <1>3, RequestSet DEF IInv

-----------------------------------------------------------------------------
(* The steps of a request *)

LEMMA GiveUpOK ==
  ASSUME IInv, NEW q \in Requests, GiveUp(q)
  PROVE  RequestsOK' /\ files' \subseteq files
BY ReturnOK DEF GiveUp, IInv

LEMMA RequestIInv ==
  ASSUME IInv, NEW q \in Requests, Request(q)
  PROVE  IInv'
<1> USE DEF NoResurrection
<1>0. Sound(row) /\ Sound(req[q].r) /\ req[q] \in RequestStates
  BY DEF IInv, RequestsOK, RequestOK
<1>1. CASE Edit(q)
  <2>1. PICK op \in Edits : \E r \in Edited(op) : Load(q, op, "write", r)
    BY <1>1 DEF Edit
  <2>2. PICK r \in Edited(op) : Load(q, op, "write", r)
    BY <2>1
  <2>3. Sound(r)
    <3>1. \/ r = row
          \/ \E p \in Parties : r = [row EXCEPT !.party = p]
          \/ \E b \in BOOLEAN : r = [row EXCEPT !.archived = b]
      <4>1. CASE op = "rename"
        BY <2>2, <4>1 DEF Edited
      <4>2. CASE op = "configure"
        BY <2>2, <4>2 DEF Edited
      <4>3. CASE op = "archive"
        BY <2>2, <4>3 DEF Edited
      <4>4. CASE op = "restore"
        BY <2>2, <4>4 DEF Edited
      <4> QED
        BY <2>1, <4>1, <4>2, <4>3, <4>4 DEF Edits
    <3>2. /\ \A p \in Parties : Sound([row EXCEPT !.party = p])
          /\ \A b \in BOOLEAN : Sound([row EXCEPT !.archived = b])
      BY <1>0, SoundChanges
    <3> QED
      BY <1>0, <3>1, <3>2
  <2>4. RequestsOK'
    BY <2>2, <2>3, LoadOK DEF RequestPCs, AllOps
  <2> QED
    BY <1>1, <2>4 DEF Edit, IInv, StoreOK, TasksOK
<1>2. CASE Upload(q)
  <2>1. PICK d \in Docs \ saved :
          /\ Load(q, "upload", "clear", Uploaded(row, d))
          /\ saved' = saved \union {d} /\ files' = files \union {d}
    BY <1>2 DEF Upload
  <2>2. RequestsOK'
    BY <1>0, <2>1, LoadOK, SoundChanges DEF RequestPCs, AllOps
  <2>3. StoreOK'
    BY <1>2, <2>1 DEF Upload, StoreOK, IInv
  <2> QED
    BY <1>2, <2>2, <2>3 DEF Upload, IInv, TasksOK
<1>3. CASE Start(q)
  <2>1. RequestsOK'
    BY <1>0, <1>3, LoadOK, SoundChanges DEF Start, RequestPCs, AllOps
  <2> QED
    BY <1>3, <2>1 DEF Start, IInv, StoreOK, TasksOK
<1>4. CASE Retry(q)
  <2>1. RequestsOK'
    BY <1>0, <1>4, LoadOK, SoundChanges DEF Retry, RequestPCs, AllOps
  <2> QED
    BY <1>4, <2>1 DEF Retry, IInv, StoreOK, TasksOK
<1>5. CASE Delete(q)
  <2>1. RequestsOK'
    BY <1>0, <1>5, LoadOK DEF Delete, RequestPCs, AllOps
  <2> QED
    BY <1>5, <2>1 DEF Delete, IInv, StoreOK, TasksOK
<1>6. CASE RequestClear(q)
  <2>1. CASE ClearResults /\ Proceed(q, "write") /\ UNCHANGED files
    <3>1. RequestsOK'
      BY <2>1, ProceedOK DEF RequestPCs, IInv
    <3>2. StoreOK'
      BY <1>6, <2>1, FS_EmptySet DEF RequestClear, ClearResults, StoreOK, NoClauses, IInv
    <3> QED
      BY <1>6, <2>1, <3>1, <3>2 DEF RequestClear, ClearResults, IInv, TasksOK
  <2>2. CASE GiveUp(q) /\ UNCHANGED <<clauses, issues>>
    BY <1>6, <2>2, GiveUpOK DEF RequestClear, IInv, StoreOK, TasksOK
  <2> QED
    BY <1>6, <2>1, <2>2 DEF RequestClear
<1>7. CASE RequestWrite(q)
  <2>1. CASE Update(req[q].r) /\ AfterWrite(q) /\ UNCHANGED files
    <3>1. RequestsOK'
      <4>1. Return(q) \/ Proceed(q, "enqueue") \/ Proceed(q, "dropOld")
        BY <2>1, <1>0 DEF AfterWrite, RequestStates, AllOps, Edits
      <4> QED
        BY <4>1, ReturnOK, ProceedOK DEF RequestPCs, IInv
    <3> QED
      BY <1>0, <1>7, <2>1, <3>1 DEF RequestWrite, Update, IInv, StoreOK, TasksOK
  <2>2. CASE UpdateFails /\ GiveUp(q)
    BY <1>7, <2>2, GiveUpOK DEF RequestWrite, UpdateFails, IInv, StoreOK, TasksOK
  <2> QED
    BY <1>7, <2>1, <2>2 DEF RequestWrite
<1>8. CASE DropOldFile(q)
  <2>1. RequestsOK'
    BY <1>8, ProceedOK DEF DropOldFile, RequestPCs, IInv
  <2> QED
    BY <1>8, <2>1 DEF DropOldFile, IInv, StoreOK, TasksOK
<1>9. CASE Enqueue(q)
  <2>0. scene.tasks \subseteq Tasks
    BY SetsAssumption DEF IInv, StoreOK, AllScenes
  <2>1. CASE /\ \E t \in scene.tasks :
                  /\ task[t].pc = "free"
                  /\ task' = [task EXCEPT ![t] =
                       [Free EXCEPT !.pc = "queued", !.kind = TaskKind(q)]]
             /\ Return(q)
    <3>1. PICK t \in Tasks : task' = [task EXCEPT ![t] =
                               [Free EXCEPT !.pc = "queued", !.kind = TaskKind(q)]]
      BY <2>0, <2>1
    <3>2. TaskOK([Free EXCEPT !.pc = "queued", !.kind = TaskKind(q)])
      BY FreshOK DEF TaskOK, TaskStates, TaskKind, PastPrepare, PastRead, ReviewPCs
    <3>3. TasksOK' /\ RequestsOK'
      BY <2>1, <3>1, <3>2, TaskSet, ReturnOK DEF IInv
    <3> QED
      BY <1>9, <3>3 DEF Enqueue, IInv, StoreOK
  <2>2. CASE /\ IF req[q].op = "retry" /\ TaskKind(q) = "parse"
                THEN Return(q)
                ELSE req' = [req EXCEPT ![q].pc = "markFailed", ![q].r.status = "failed"]
             /\ UNCHANGED task
    <3>1. RequestsOK'
      <4> DEFINE x == [req[q] EXCEPT !.pc = "markFailed", !.r.status = "failed"]
      <4>1. Sound([req[q].r EXCEPT !.status = "failed"])
        BY <1>0, SoundChanges
      <4>2. RequestOK(x)
        BY <1>0, <4>1 DEF RequestOK, RequestStates, RequestPCs, Sound
      <4>3. Return(q) \/ req' = [req EXCEPT ![q] = x]
        BY <2>2
      <4> QED
        BY <4>2, <4>3, RequestSet, ReturnOK DEF IInv
    <3> QED
      BY <1>9, <2>2, <3>1 DEF Enqueue, IInv, StoreOK, TasksOK
  <2> QED
    BY <1>9, <2>1, <2>2 DEF Enqueue
<1>10. CASE MarkFailed(q)
  <2>1. RequestsOK' /\ Sound(row')
    BY <1>0, <1>10, ReturnOK, TryUpdateOK DEF MarkFailed, IInv
  <2> QED
    BY <1>10, <2>1 DEF MarkFailed, IInv, StoreOK, TasksOK
<1>11. CASE DeleteFile(q)
  <2>1. RequestsOK'
    BY <1>11, ProceedOK DEF DeleteFile, RequestPCs, IInv
  <2> QED
    BY <1>11, <2>1 DEF DeleteFile, IInv, StoreOK, TasksOK
<1>12. CASE RemoveReview(q)
  <2>1. RequestsOK'
    BY <1>12, ReturnOK DEF RemoveReview, IInv
  <2>2. CASE deleted' = TRUE /\ clauses' = NoClauses /\ issues' = {}
    <3>1. StoreOK'
      BY <1>12, <2>2, FS_EmptySet DEF RemoveReview, IInv, StoreOK, NoClauses
    <3> QED
      BY <1>12, <2>1, <2>2, <3>1 DEF RemoveReview, IInv, TasksOK, NoClauses
  <2>3. CASE UNCHANGED <<deleted, clauses, issues>>
    BY <1>12, <2>1, <2>3 DEF RemoveReview, IInv, StoreOK, TasksOK
  <2> QED
    BY <1>12, <2>2, <2>3 DEF RemoveReview
<1>13. CASE HangUp(q)
  <2>1. RequestsOK'
    BY <1>13, ReturnOK DEF HangUp, IInv
  <2> QED
    BY <1>13, <2>1 DEF HangUp, IInv, StoreOK, TasksOK
<1> QED
  BY <1>1, <1>2, <1>3, <1>4, <1>5, <1>6, <1>7, <1>8, <1>9, <1>10, <1>11, <1>12, <1>13
  DEF Request, RequestStep
-----------------------------------------------------------------------------
(* The steps of a worker *)

\* A step that moves one task and changes nothing else.
LEMMA TaskOnly ==
  ASSUME IInv, TasksOK', UNCHANGED <<scene, row, deleted, clauses, issues, files, saved, req>>
  PROVE  IInv'
BY DEF IInv, StoreOK, RequestsOK, NoResurrection, NoClauses

\* A step that moves one task and writes, or fails to write, the row.
LEMMA RowAndTask ==
  ASSUME IInv, TasksOK', Sound(row'),
         UNCHANGED <<scene, deleted, clauses, issues, files, saved, req>>
  PROVE  IInv'
BY DEF IInv, StoreOK, RequestsOK, NoResurrection, NoClauses

LEMMA ReceiveOK ==
  ASSUME IInv, NEW t \in Tasks, NEW kind, NEW mine, NEW reopen, NEW go,
         Receive(t, kind, mine, reopen, go),
         {reopen, go} \subseteq TaskPCs \ (PastPrepare \union PastRead)
  PROVE  IInv'
<1> DEFINE pc == IF row.status = "failed" THEN reopen ELSE go
           x == [task[t] EXCEPT !.r = row, !.pc = pc]
<1>1. CASE Done(t) \/ Redeliver(t)
  BY <1>1, DoneOK, RedeliverOK, TaskOnly DEF Receive, IInv
<1>2. CASE task' = [task EXCEPT ![t].r = row, ![t].pc = pc]
  <2>1. task' = [task EXCEPT ![t] = x]
    BY <1>2
  <2>2. task[t] \in TaskStates /\ Sound(row) /\ row \in Rows
    BY DEF IInv, TasksOK, Sound
  <2>3. x \in TaskStates /\ x.r = row /\ x.pc = pc
    BY <2>2 DEF TaskStates, TaskPCs
  <2>4. TaskOK(x)
    BY <2>2, <2>3 DEF TaskOK
  <2> QED
    BY <2>1, <2>4, TaskSet, TaskOnly DEF Receive, IInv
<1> QED
  BY <1>1, <1>2 DEF Receive

\* The handler's copy of the row changes with its place.
LEMMA CopyOK ==
  ASSUME TasksOK, NEW t \in Tasks, NEW pc \in TaskPCs, NEW r, Sound(r),
         pc \in PastPrepare => r.content # None,
         pc \in PastRead => r.ref # None,
         task' = [task EXCEPT ![t] = [task[t] EXCEPT !.pc = pc, !.r = r]]
  PROVE  TasksOK'
<1> DEFINE x == [task[t] EXCEPT !.pc = pc, !.r = r]
<1>1. x \in TaskStates /\ x.pc = pc /\ x.r = r
  BY DEF TasksOK, TaskStates, TaskPCs, Sound
<1> QED
  BY <1>1, TaskSet DEF TaskOK

LEMMA WorkerIInv ==
  ASSUME IInv, NEW t \in Tasks, WorkerStep(t) \/ Expire(t) \/ DieUnacknowledged(t)
  PROVE  IInv'
<1> DEFINE r == task[t].r
<1>0. /\ Sound(row) /\ Sound(r) /\ r \in Rows /\ task[t] \in TaskStates
      /\ task[t].pc \in PastPrepare => r.content # None
      /\ task[t].pc \in PastRead => r.ref # None
      /\ TasksOK
  BY DEF IInv, TasksOK, TaskOK, Sound
<1> USE DEF TaskPCs, DocumentPCs, ReviewPCs, PastPrepare, PastRead, At
<1>1. CASE ReceiveDocument(t)
  BY <1>1, ReceiveOK DEF ReceiveDocument
<1>2. CASE ReceiveReview(t)
  BY <1>2, ReceiveOK DEF ReceiveReview
<1>3. CASE Fail(t)
  <2>1. Sound(row')
    BY <1>0, <1>3, SoundChanges, TryUpdateOK DEF Fail, Failed
  <2> QED
    BY <1>0, <1>3, <2>1, RedeliverOK, RowAndTask DEF Fail
<1>4. CASE Expire(t) \/ DieUnacknowledged(t)
  BY <1>0, <1>4, RedeliverOK, TaskOnly DEF Expire, DieUnacknowledged
<1>21. CASE Acknowledge(t)
  BY <1>0, <1>21, FreshOK, TaskSet, TaskOnly DEF Acknowledge
<1>5. CASE ReopenDocument(t)
  <2>1. Sound([r EXCEPT !.status = "uploading"])
    BY <1>0, SoundChanges
  <2>2. Sound(row')
    BY <1>5, <2>1, TryUpdateOK DEF ReopenDocument
  <2>3. TasksOK'
    <3>1. task' = [task EXCEPT ![t] =
            [task[t] EXCEPT !.pc = "read", !.r = [r EXCEPT !.status = "uploading"]]]
      BY <1>0, <1>5 DEF ReopenDocument
    <3> QED
      BY <1>0, <2>1, <3>1, CopyOK
  <2> QED
    BY <1>5, <2>2, <2>3, RowAndTask DEF ReopenDocument
<1>6. CASE ReadDocument(t)
  <2>1. r.ref \in files => r.ref # None
    BY SetsAssumption DEF IInv, StoreOK
  <2>2. TasksOK'
    BY <1>0, <1>6, <2>1, GotoOK DEF ReadDocument
  <2> QED
    BY <1>6, <2>2, TaskOnly DEF ReadDocument
<1>7. CASE RecheckDocument(t)
  <2>1. TasksOK'
    BY <1>0, <1>7, GotoOK, DoneOK DEF RecheckDocument
  <2> QED
    BY <1>7, <2>1, TaskOnly DEF RecheckDocument
<1>8. CASE SaveText(t)
  <2>1. Sound([r EXCEPT !.status = "ready", !.content = r.ref])
    BY <1>0, <1>8, SoundChanges DEF SaveText
  <2>2. Sound(row')
    BY <1>0, <1>8, <2>1 DEF SaveText, Update, UpdateFails
  <2>3. TasksOK'
    BY <1>0, <1>8, DoneOK, RedeliverOK DEF SaveText
  <2> QED
    BY <1>8, <2>2, <2>3, RowAndTask DEF SaveText
<1>9. CASE ClearForRerun(t)
  <2>1. TasksOK'
    BY <1>0, <1>9, GotoOK, RedeliverOK DEF ClearForRerun
  <2>2. CASE ClearResults
    BY <1>9, <2>1, <2>2, FS_EmptySet
    DEF ClearForRerun, ClearResults, IInv, StoreOK, RequestsOK, NoResurrection, NoClauses
  <2>3. CASE UNCHANGED <<clauses, issues>>
    BY <1>9, <2>1, <2>3, TaskOnly DEF ClearForRerun
  <2> QED
    BY <1>9, <2>2, <2>3 DEF ClearForRerun
<1>10. CASE ReopenReview(t)
  <2>1. Sound([r EXCEPT !.status = "analyzing"])
    BY <1>0, SoundChanges
  <2>2. Sound(row')
    BY <1>0, <1>10, <2>1 DEF ReopenReview, Update, UpdateFails
  <2>3. TasksOK'
    <3>1. CASE Redeliver(t)
      BY <1>0, <3>1, RedeliverOK
    <3>2. CASE task' = [task EXCEPT ![t].pc = "prepare", ![t].r.status = "analyzing"]
      <4>1. task' = [task EXCEPT ![t] =
              [task[t] EXCEPT !.pc = "prepare", !.r = [r EXCEPT !.status = "analyzing"]]]
        BY <1>0, <3>2
      <4> QED
        BY <1>0, <2>1, <4>1, CopyOK
    <3> QED
      BY <1>10, <3>1, <3>2 DEF ReopenReview
  <2> QED
    BY <1>10, <2>2, <2>3, RowAndTask DEF ReopenReview
<1>11. CASE Prepare(t)
  <2>1. TasksOK'
    BY <1>0, <1>11, GotoOK DEF Prepare, HasClauses
  <2> QED
    BY <1>11, <2>1, TaskOnly DEF Prepare
<1>12. CASE ReplaceClauses(t)
  <2>1. TasksOK'
    BY <1>0, <1>12, GotoOK DEF ReplaceClauses
  <2>2. CASE /\ LockReview /\ issues' = {}
             /\ clauses' = [s \in Seqs |->
                             [by |-> t, doc |-> task[t].r.content, done |-> FALSE]]
    <3>1. r.content \in Docs
      BY <1>0, <1>12 DEF ReplaceClauses, Rows
    <3>2. StoreOK'
      BY <1>12, <2>2, <3>1, FS_EmptySet DEF ReplaceClauses, IInv, StoreOK, Clauses
    <3> QED
      BY <1>12, <2>1, <2>2, <3>2
      DEF ReplaceClauses, LockReview, IInv, RequestsOK, NoResurrection
  <2>3. CASE UNCHANGED <<clauses, issues>>
    BY <1>12, <2>1, <2>3, TaskOnly DEF ReplaceClauses
  <2> QED
    BY <1>12, <2>2, <2>3 DEF ReplaceClauses
<1>13. CASE MarkReviewing(t)
  <2>1. Sound([r EXCEPT !.status = "reviewing_clauses"])
    BY <1>0, <1>13, SoundChanges DEF MarkReviewing, Statuses
  <2>2. Sound(row')
    BY <1>0, <1>13, <2>1 DEF MarkReviewing, Update, UpdateFails
  <2>3. TasksOK'
    <3>1. CASE Redeliver(t)
      BY <1>0, <3>1, RedeliverOK
    <3>2. CASE task' = [task EXCEPT ![t].pc = "check",
                                    ![t].r.status = "reviewing_clauses"]
      <4>1. task' = [task EXCEPT ![t] =
              [task[t] EXCEPT !.pc = "check",
                              !.r = [r EXCEPT !.status = "reviewing_clauses"]]]
        BY <1>0, <3>2
      <4>2. [r EXCEPT !.status = "reviewing_clauses"].content # None
        BY <1>0, <1>13 DEF MarkReviewing, Rows
      <4> QED
        BY <1>0, <2>1, <4>1, <4>2, CopyOK
    <3> QED
      BY <1>13, <3>1, <3>2 DEF MarkReviewing
  <2> QED
    BY <1>13, <2>2, <2>3, RowAndTask DEF MarkReviewing
<1>14. CASE CheckReview(t)
  <2>1. TasksOK'
    BY <1>0, <1>14, GotoOK, DoneOK DEF CheckReview
  <2> QED
    BY <1>14, <2>1, TaskOnly DEF CheckReview
<1>15. CASE ReviewClause(t)
  <2>1. TasksOK'
    BY <1>0, <1>15, GotoOK, DoneOK DEF ReviewClause
  <2> QED
    BY <1>15, <2>1, TaskOnly DEF ReviewClause
<1>16. CASE StoreIssue(t)
  <2> DEFINE s == task[t].seq
  <2>1. CASE /\ LockReview
             /\ \E f \in Findings :
                  issues' = issues \union {[by |-> t, seq |-> s, finding |-> f]}
             /\ task' = [task EXCEPT ![t].found = @ + 1]
    <3>1. PICK f \in Findings :
            issues' = issues \union {[by |-> t, seq |-> s, finding |-> f]}
      BY <2>1
    <3>2. [by |-> t, seq |-> s, finding |-> f] \in Issues
      BY <1>0 DEF TaskStates, Issues
    <3>3. StoreOK'
      BY <1>16, <3>1, <3>2, FS_AddElement DEF StoreIssue, IInv, StoreOK
    <3>4. TasksOK'
      <4> DEFINE x == [task[t] EXCEPT !.found = @ + 1]
      <4>1. task[t].found + 1 \in 0 .. MaxFound
        BY <1>0, <1>16, ClausesAssumption DEF StoreIssue, TaskStates
      <4>2. TaskOK(x)
        BY <1>0, <4>1 DEF TasksOK, TaskOK, TaskStates
      <4> QED
        BY <1>0, <2>1, <4>2, TaskSet
    <3> QED
      BY <1>16, <2>1, <3>3, <3>4 DEF StoreIssue, LockReview, IInv, RequestsOK, NoResurrection
  <2>2. CASE Goto(t, "fail") /\ UNCHANGED issues
    BY <1>0, <1>16, <2>2, GotoOK, TaskOnly DEF StoreIssue
  <2> QED
    BY <1>16, <2>1, <2>2 DEF StoreIssue
<1>17. CASE CloseClause(t)
  <2> DEFINE s == task[t].seq
             closed == [by |-> t, doc |-> r.content, done |-> TRUE]
  <2>1. TasksOK'
    BY <1>0, <1>17, GotoOK DEF CloseClause
  <2>2. CASE LockReview /\ clauses' = [clauses EXCEPT ![s] = closed]
    <3>1. closed \in Clauses
      BY <1>0, <1>17 DEF CloseClause, Rows, Clauses
    <3>2. StoreOK'
      BY <1>17, <2>2, <3>1 DEF CloseClause, IInv, StoreOK
    <3> QED
      BY <1>17, <2>1, <2>2, <3>2 DEF CloseClause, LockReview, IInv, RequestsOK, NoResurrection
  <2>3. CASE UNCHANGED clauses
    BY <1>17, <2>1, <2>3, TaskOnly DEF CloseClause
  <2> QED
    BY <1>17, <2>2, <2>3 DEF CloseClause
<1>18. CASE SaveProgress(t)
  <2> DEFINE last == IsLast(task[t].seq)
             x == [task[t] EXCEPT !.found = 0,
                     !.seq = IF last THEN 0 ELSE task[t].seq + 1,
                     !.pc = IF last THEN "summarise" ELSE "check"]
  <2>1. Sound(row')
    BY <1>0, <1>18, TryUpdateOK DEF SaveProgress
  <2>2. (IF last THEN 0 ELSE task[t].seq + 1) \in Seqs /\ 0 \in 0 .. MaxFound
    BY <1>0, ClausesAssumption DEF TaskStates, Seqs, IsLast
  <2>3. x \in TaskStates /\ x.r = r
    BY <1>0, <2>2 DEF TaskStates
  <2>4. TaskOK(x)
    BY <1>0, <1>18, <2>3 DEF TaskOK, SaveProgress
  <2>5. task' = [task EXCEPT ![t] = x]
    BY <1>0, <1>18 DEF SaveProgress
  <2> QED
    BY <1>0, <1>18, <2>1, <2>4, <2>5, TaskSet, RowAndTask DEF SaveProgress
<1>19. CASE Summarise(t)
  <2>1. CASE task' = [task EXCEPT ![t].pc = "complete",
                                  ![t].r.overview = Cardinality(issues)]
    <3> DEFINE y == [r EXCEPT !.overview = Cardinality(issues)]
    <3>1. Cardinality(issues) \in Nat
      BY FS_CardinalityType DEF IInv, StoreOK
    <3>2. Sound(y) /\ y.content # None
      BY <1>0, <1>19, <3>1, SoundChanges DEF Summarise, Rows
    <3>3. task' = [task EXCEPT ![t] = [task[t] EXCEPT !.pc = "complete", !.r = y]]
      BY <1>0, <2>1
    <3>4. TasksOK'
      BY <1>0, <3>2, <3>3, CopyOK
    <3> QED
      BY <1>19, <3>4, TaskOnly DEF Summarise
  <2>2. CASE Redeliver(t)
    BY <1>0, <1>19, <2>2, RedeliverOK, TaskOnly DEF Summarise
  <2> QED
    BY <1>19, <2>1, <2>2 DEF Summarise
<1>20. CASE Complete(t)
  <2>1. Sound([r EXCEPT !.status = "completed"])
    BY <1>0, <1>20, SoundChanges DEF Complete, Statuses
  <2>2. Sound(row')
    BY <1>0, <1>20, <2>1 DEF Complete, Update, UpdateFails
  <2>3. TasksOK'
    BY <1>0, <1>20, DoneOK, RedeliverOK DEF Complete
  <2> QED
    BY <1>20, <2>2, <2>3, RowAndTask DEF Complete
<1> QED
  BY <1>1, <1>2, <1>3, <1>4, <1>5, <1>6, <1>7, <1>8, <1>9, <1>10, <1>11, <1>12, <1>13,
     <1>14, <1>15, <1>16, <1>17, <1>18, <1>19, <1>20, <1>21
  DEF WorkerStep, DocumentStep, ReviewStep

-----------------------------------------------------------------------------
(* The theorems *)

LEMMA StepIInv == IInv /\ [Next]_vars => IInv'
<1> SUFFICES ASSUME IInv, [Next]_vars PROVE IInv'
  OBVIOUS
<1>1. CASE \E q \in Requests : Request(q)
  BY <1>1, RequestIInv
<1>2. CASE \E t \in Tasks : WorkerStep(t) \/ Expire(t) \/ DieUnacknowledged(t)
  BY <1>2, WorkerIInv
<1>3. CASE UNCHANGED vars
  BY <1>3 DEF vars, IInv, StoreOK, RequestsOK, TasksOK, NoResurrection, NoClauses
<1> QED
  BY <1>1, <1>2, <1>3 DEF Next

\* Every variable keeps its type; the text of a review is that of its document;
\* a parsed or reviewed review has text; a deleted one has no results: whatever
\* the requests and the workers interleave.
THEOREM ContractReviewSafe ==
  Spec => [](TypeOK /\ RowIsConsistent /\ NoResurrection)
<1>1. Init => IInv
  BY InitIInv
<1>2. IInv /\ [Next]_vars => IInv'
  BY StepIInv
<1>3. IInv => TypeOK /\ RowIsConsistent /\ NoResurrection
  BY IInvProperties
<1> QED
  BY <1>1, <1>2, <1>3, PTL DEF Spec

\* No request and no worker undoes a delete, changes the deleted row or adds to
\* its results.
THEOREM DeleteIsFinal == Spec => DeletedIsFinal
<1>1. ASSUME Next, deleted PROVE deleted' /\ row' = row
  <2>1. ASSUME NEW q \in Requests, Request(q) PROVE deleted' /\ row' = row
    BY <1>1, <2>1 DEF Request, RequestStep, Edit, Upload, Start, Retry, Delete, RequestClear,
      RequestWrite, DropOldFile, Enqueue, MarkFailed, DeleteFile, RemoveReview, HangUp,
      Load, Update, UpdateFails, TryUpdate
  <2>2. ASSUME NEW t \in Tasks, WorkerStep(t) \/ Expire(t) \/ DieUnacknowledged(t) PROVE deleted' /\ row' = row
    BY <1>1, <2>2 DEF WorkerStep, DocumentStep, ReviewStep, Acknowledge, Expire, DieUnacknowledged, ReceiveDocument,
      ReceiveReview, Receive, ReopenDocument, ReadDocument, RecheckDocument, SaveText,
      Fail, ClearForRerun, ReopenReview, Prepare, ReplaceClauses, MarkReviewing,
      CheckReview, ReviewClause, StoreIssue, CloseClause, SaveProgress, Summarise,
      Complete, Update, UpdateFails, TryUpdate
  <2> QED
    BY <1>1, <2>1, <2>2 DEF Next
<1>2. IInv /\ IInv' /\ [Next]_vars =>
        [deleted => deleted' /\ row' = row /\ clauses' = clauses /\ issues' = issues]_vars
  BY <1>1 DEF IInv, NoResurrection, vars
<1> QED
  BY <1>2, InitIInv, StepIInv, PTL DEF Spec, DeletedIsFinal

-----------------------------------------------------------------------------
(***************************************************************************)
(* Reviews whose requests do not overlap.  In one browser tab, while        *)
(* neither parser, model nor database fails, and for a client that waits    *)
(* for the background work, while no call of the database fails, a request  *)
(* or a task that is under way knows what the others did.                   *)
(***************************************************************************)
OneTab == scene.clients # "concurrent" /\ Only({"expiry", "enqueue"})
Quiet == OneTab \/ Calm

\* Tasks that may still write.  The queue delivers an ending one again only in
\* the scenes of a client that waits for its end.
Works(x) == x.pc \notin {"free", "ending"}
Live(x) == Works(x) \/ (Calm /\ x.pc = "ending")
NoRun == \A t \in Tasks : ~Live(task[t])

Starts == {"upload", "start", "retry"}
Work == {"uploading", "analyzing", "reviewing_clauses", "failed"}

Same(a, b) ==
  a.status = b.status /\ a.ref = b.ref /\ a.content = b.content /\ a.overview = b.overview

OneRequest == \A p, q \in Requests : req[p].pc # "idle" /\ req[q].pc # "idle" => p = q
OneTask == \A t, u \in Tasks : Live(task[t]) /\ Live(task[u]) => t = u

\* A request that leads to a run: no other run is there until it has queued its
\* task, and the row is the one it loaded, or the one it wrote.
StartFits(x) ==
  x.op \in Starts =>
    /\ NoRun
    /\ x.pc \in {"clear", "write", "dropOld", "enqueue", "markFailed"}
    /\ x.r.ref # None
    /\ x.pc # "markFailed" => Running(x.r.status)
    /\ x.pc \in {"dropOld", "enqueue"} => Same(x.r, row)
    /\ x.pc = "markFailed" => Same(x.r, [row EXCEPT !.status = "failed"])
    /\ x.pc \in {"clear", "write"} =>
         /\ x.old = row.ref
         /\ x.op = "upload" => row.status # "completed"
         /\ x.op # "upload" => x.r.ref = row.ref /\ x.r.content = row.content
    /\ x.pc = "clear" => x.op # "start"
    /\ x.op = "upload" => x.r.ref # x.old
    /\ x.pc = "dropOld" => x.op = "upload" /\ x.old # None

\* An edit may write an older status back over a run, never over its outcome.
EditFits(x) ==
  x.op \in Edits =>
    /\ x.pc = "write" /\ x.r.ref = row.ref
    /\ x.r.status # "draft" => x.r.ref # None
    /\ Calm \/ ~Running(x.r.status) => NoRun /\ Same(x.r, row)
DeleteFits(x) ==
  x.op = "delete" => x.pc \in {"unlink", "remove"} /\ x.r.ref = row.ref

RequestFits(x) ==
  x.pc # "idle" =>
    ~deleted /\ x.op \in AllOps /\ StartFits(x) /\ EditFits(x) /\ DeleteFits(x)
RequestsFit == \A q \in Requests : RequestFits(req[q])

RowFits == row.status # "draft" => row.ref # None

Unlinked(x) == x.op = "delete" /\ x.pc = "remove"
Enters(x) == x.op = "upload" /\ x.pc \in {"clear", "write"}
Leaves(x) == x.pc = "dropOld"
Deleting == \E q \in Requests : Unlinked(req[q])

\* The file store: the document of the row, the one that will replace it and the
\* one that was replaced.
FilesFit ==
  files = (IF deleted \/ Deleting THEN {} ELSE {row.ref} \ {None})
            \union {req[q].r.ref : q \in {p \in Requests : Enters(req[p])}}
            \union {req[q].old : q \in {p \in Requests : Leaves(req[p])}}

\* A worker's copy of the row, and what it made of the clauses up to now.
Received(x) == x.pc \notin {"free", "queued", "ending"}
Counting == {"check", "infer", "issues", "progress"}
Reviewing == Counting \union {"mark", "summarise", "complete"}
Reviewed(x, s) ==
  x.pc \in {"summarise", "complete"} \/ s < x.seq \/ (x.pc = "progress" /\ s = x.seq)
WorkFits(t, x, r, cl, is) ==
  Live(x) =>
    /\ r.ref # None
    /\ Received(x) => r.status \in Work /\ x.r.ref = r.ref /\ x.r.status \in Work
    /\ x.pc \notin Counting \union {"fail"} => x.seq = 0
    /\ x.pc \in Reviewing =>
         \A s \in Seqs :
           /\ cl[s] # None /\ cl[s].by = t /\ cl[s].doc = x.r.content
           /\ Reviewed(x, s) => cl[s].done
    /\ x.pc = "complete" => x.r.overview = Cardinality(is)
WorksFit == ~deleted => \A t \in Tasks : WorkFits(t, task[t], row, clauses, issues)

\* While nothing fails a run never does, until the file is gone: its row and its
\* copy of it say that it runs.
InRun(kind, r) == Running(r.status) /\ (kind = "analyze" => r.content # None)
RunFits(x, r) ==
  Works(x) =>
    x.pc # "fail" /\ InRun(x.kind, r) /\ (Received(x) => InRun(x.kind, x.r))
RunsFit ==
  OneTab /\ ~deleted /\ ~Deleting =>
    \A t \in Tasks :
      /\ RunFits(task[t], row)
      /\ Works(task[t]) =>
           \A q \in Requests : req[q].pc # "idle" /\ req[q].op \in Edits => InRun(task[t].kind, req[q].r)

Clearing == \E q \in Requests : req[q].op = "retry" /\ req[q].pc = "write"
ReportFits == row.status = "completed" /\ ~deleted /\ ~Clearing => Reported

QInv ==
  /\ OneRequest /\ OneTask /\ RequestsFit /\ RowFits /\ FilesFit
  /\ WorksFit /\ RunsFit /\ ReportFits

LEMMA QuietFaults ==
  ASSUME Quiet
  PROVE  /\ scene.clients # "concurrent"
         /\ "db" \notin scene.faults /\ "hangup" \notin scene.faults
         /\ OneTab => {"parser", "model", "unacked"} \cap scene.faults = {}
         /\ Calm => scene.clients = "patient"
BY DEF Quiet, OneTab, Calm, Patient, WorkFails, Only

\* What a worker's step does to its task, the row and the results.
LEMMA WorkerKeeps ==
  ASSUME IInv, Quiet, WorksFit, RunsFit, RowFits, FilesFit, ~deleted,
         NEW t \in Tasks, WorkerStep(t) \/ Expire(t) \/ DieUnacknowledged(t)
  PROVE  /\ WorkFits(t, task'[t], row', clauses', issues')
         /\ OneTab /\ ~Deleting => RunFits(task'[t], row')
         /\ row'.status = "completed" => Reported' \/ UNCHANGED <<row, clauses, issues>>
         /\ row'.ref = row.ref
<1> DEFINE x == task[t]
           Keeps == /\ WorkFits(t, task'[t], row', clauses', issues')
                    /\ OneTab /\ ~Deleting => RunFits(task'[t], row')
                    /\ row'.status = "completed" => Reported' \/ UNCHANGED <<row, clauses, issues>>
                    /\ row'.ref = row.ref
<1>0. /\ x \in TaskStates /\ Sound(x.r) /\ x.r \in Rows /\ Sound(row) /\ row \in Rows
      /\ x.pc \in PastPrepare => x.r.content # None
      /\ task \in [Tasks -> TaskStates]
      /\ clauses \in [Seqs -> Clauses \union {None}]
      /\ WorkFits(t, x, row, clauses, issues)
      /\ OneTab /\ ~Deleting => RunFits(x, row)
      /\ row.ref # None => Deleting \/ row.ref \in files
  BY DEF IInv, TasksOK, TaskOK, StoreOK, Sound, WorksFit, RunsFit, FilesFit
<1>q. "db" \notin scene.faults /\ ~DbFails
      /\ (OneTab => {"parser", "model", "unacked"} \cap scene.faults = {})
  BY QuietFaults DEF DbFails
<1>f. /\ x.kind \in {None, "parse", "analyze"} /\ x.seq \in Seqs /\ x.found \in 0 .. MaxFound
      /\ x.pc \in TaskPCs /\ x.tries \in 0 .. 2
      /\ x = [pc |-> x.pc, kind |-> x.kind, tries |-> x.tries, r |-> x.r, seq |-> x.seq, found |-> x.found]
      /\ x.r = [status |-> x.r.status, ref |-> x.r.ref, content |-> x.r.content, party |-> x.r.party,
                archived |-> x.r.archived, overview |-> x.r.overview]
  BY <1>0 DEF TaskStates, TaskPCs, Rows
<1>s. ASSUME NEW y, task' = [task EXCEPT ![t] = y]
      PROVE  task'[t] = y
  BY <1>0, <1>s
<1> HIDE DEF x
<1>p. x = task[t]
  BY DEF x
\* The task goes back to the queue or leaves it.
<1>l. \A y : Live(y) <=> Works(y) \/ (Calm /\ y.pc = "ending")
  BY DEF Live
<1>t. ASSUME NEW y, NEW kind, NEW tries, task' = [task EXCEPT ![t] = [Free EXCEPT !.pc = y, !.kind = kind, !.tries = tries]]
      PROVE  task'[t].pc = y /\ task'[t].kind = kind /\ task'[t].seq = 0
  <2> DEFINE again == [Free EXCEPT !.pc = y, !.kind = kind, !.tries = tries]
  <2>1. again.pc = y /\ again.kind = kind /\ again.seq = 0
    BY DEF Free
  <2>2. task' = [task EXCEPT ![t] = again]
    BY <1>t
  <2> HIDE DEF again
  <2>3. task'[t] = again
    BY <1>s, <2>2
  <2> QED
    BY <2>1, <2>3
<1>v. ASSUME task' = [task EXCEPT ![t] = Free]
      PROVE  task'[t].pc = "free" /\ task'[t].seq = 0
  BY <1>s, <1>v DEF Free
<1>y. ASSUME Redeliver(t)
      PROVE  (task'[t].pc = "free" \/ (task'[t].pc = "queued" /\ task'[t].kind = x.kind)) /\ task'[t].seq = 0
  BY <1>p, <1>t, <1>v, <1>y DEF Redeliver
<1>z. ASSUME Done(t)
      PROVE  task'[t].pc = "ending" /\ task'[t].seq = 0
  BY <1>p, <1>t, <1>z DEF Done
\* The task goes back to the queue or ends.
<1>1. ASSUME Works(x), UNCHANGED <<row, clauses, issues>>, Done(t) \/ Redeliver(t)
      PROVE  Keeps
  <2>1. (task'[t].pc \in {"free", "ending"} \/ (task'[t].pc = "queued" /\ task'[t].kind = x.kind)) /\ task'[t].seq = 0
    BY <1>1, <1>y, <1>z
  <2> QED
    BY <1>0, <1>1, <1>l, <1>p, <2>1 DEF Works, WorkFits, RunFits, Received, Reviewing, Counting
<1>e. CASE Acknowledge(t) \/ DieUnacknowledged(t)
  <2>1. x.pc = "ending" /\ UNCHANGED <<row, clauses, issues>>
    BY <1>e, <1>p DEF Acknowledge, DieUnacknowledged
  <2>2. CASE Acknowledge(t)
    <3>1. task'[t].pc = "free"
      BY <1>v, <2>2 DEF Acknowledge
    <3> QED
      BY <1>l, <2>1, <3>1 DEF Works, WorkFits, RunFits, Received, Reviewing, Counting
  <2>3. CASE DieUnacknowledged(t)
    <3>1. (task'[t].pc = "free" \/ task'[t].pc = "queued") /\ task'[t].seq = 0
      BY <1>y, <2>3 DEF DieUnacknowledged
    <3>2. ~ OneTab /\ Calm
      BY <1>q, <2>3 DEF DieUnacknowledged, Quiet
    <3>3. row.ref # None
      BY <1>0, <1>p, <2>1, <3>2 DEF WorkFits, Live
    <3> QED
      BY <1>l, <2>1, <3>1, <3>2, <3>3 DEF Works, WorkFits, RunFits, Received, Reviewing, Counting
  <2> QED
    BY <1>e, <2>2, <2>3
\* The task moves on and the row keeps its document.
<1>w. /\ Works(x) => row.ref # None
      /\ Received(x) => row.status \in Work
  BY <1>0, <1>l, <1>p DEF WorkFits, Works, Received
<1> USE DEF Works
<1> USE DEF WorkFits, RunFits, Received, Reviewing, Counting, Work, Reviewed, InRun, Running
<1>2. ASSUME At(t, "parse", "queued") \/ At(t, "analyze", "queued"), row' = row,
             UNCHANGED <<clauses, issues>>, row.status \in Work,
             NEW pc \in {"reopen", "read", "clear", "prepare"},
             task' = [task EXCEPT ![t].r = row, ![t].pc = pc]
      PROVE  Keeps
  <2>1. task'[t].pc = pc /\ task'[t].r = row /\ task'[t].kind = x.kind /\ task'[t].seq = x.seq
    BY <1>0, <1>2, <1>p DEF TaskStates
  <2> QED
    BY <1>0, <1>2, <1>p, <1>l, <1>w, <2>1 DEF At
<1>3. CASE ReceiveDocument(t)
  BY <1>1, <1>2, <1>3, <1>p, <1>q DEF ReceiveDocument, Receive, At
<1>4. CASE ReceiveReview(t)
  BY <1>1, <1>2, <1>4, <1>p, <1>q DEF ReceiveReview, Receive, At
<1>5. CASE Expire(t)
  BY <1>1, <1>5, <1>p DEF Expire
<1>g. ASSUME NEW pc, Goto(t, pc)
      PROVE  task'[t].pc = pc /\ task'[t].r = x.r /\ task'[t].kind = x.kind /\ task'[t].seq = x.seq
  BY <1>0, <1>g, <1>p DEF TaskStates, Goto
<1>c. ASSUME NEW pc, NEW status, task' = [task EXCEPT ![t].pc = pc, ![t].r.status = status]
      PROVE  /\ task'[t].pc = pc /\ task'[t].kind = x.kind /\ task'[t].seq = x.seq
             /\ task'[t].r.status = status /\ task'[t].r.ref = x.r.ref /\ task'[t].r.content = x.r.content
  BY <1>0, <1>c, <1>p DEF TaskStates, Rows
<1>u. ASSUME NEW r, TryUpdate(r)
      PROVE  row' = r
  BY <1>q, <1>u DEF TryUpdate, Update, UpdateFails
<1>6. CASE Fail(t)
  <2>1. row' = Failed(x.r)
    BY <1>6, <1>u, <1>p DEF Fail
  <2>2. row'.status = "failed" /\ row'.ref = x.r.ref
    BY <1>0, <1>p, <2>1 DEF Failed, Rows
  <2>3. row'.ref = row.ref
    BY <1>0, <1>6, <1>l, <1>p, <2>2 DEF Fail
  <2>4. ~ (OneTab /\ ~Deleting)
    BY <1>0, <1>6, <1>p DEF Fail
  <2>5. (task'[t].pc = "free" \/ (task'[t].pc = "queued" /\ task'[t].kind = x.kind)) /\ task'[t].seq = 0
    BY <1>6, <1>y DEF Fail
  <2>6. row'.ref # None
    BY <1>6, <1>p, <1>l, <1>w, <2>3 DEF Fail
  <2> QED
    BY <1>6, <1>l, <1>p, <2>2, <2>3, <2>4, <2>5, <2>6 DEF Fail
<1>7. CASE ReopenDocument(t)
  <2>1. row' = [x.r EXCEPT !.status = "uploading"]
        /\ task' = [task EXCEPT ![t].pc = "read", ![t].r.status = "uploading"]
    BY <1>7, <1>p, <1>u DEF ReopenDocument
  <2>2. row'.status = "uploading" /\ row'.ref = x.r.ref /\ row'.content = x.r.content
    BY <1>0, <1>p, <2>1 DEF Rows
  <2>3. /\ task'[t].pc = "read" /\ task'[t].kind = x.kind /\ task'[t].seq = x.seq
        /\ task'[t].r.status = "uploading" /\ task'[t].r.ref = x.r.ref /\ task'[t].r.content = x.r.content
    BY <1>c, <2>1
  <2>4. x.pc = "reopen" /\ x.kind = "parse" /\ UNCHANGED <<clauses, issues>>
    BY <1>7, <1>p DEF ReopenDocument, At
  <2> QED
    BY <1>0, <1>p, <1>l, <1>w, <2>2, <2>3, <2>4
<1>8. CASE ReadDocument(t)
  <2>1. CASE Goto(t, "recheck")
    BY <1>0, <1>8, <1>g, <1>p, <1>l, <1>w, <2>1 DEF ReadDocument, At
  <2>2. CASE Goto(t, "fail") /\ (x.r.ref \notin files \/ "parser" \in scene.faults)
    <3>1. ~ (OneTab /\ ~Deleting)
      BY <1>0, <1>8, <1>p, <1>q, <1>l, <1>w, <2>2 DEF ReadDocument, At
    <3> QED
      BY <1>0, <1>8, <1>g, <1>p, <1>l, <1>w, <2>2, <3>1 DEF ReadDocument, At
  <2> QED
    BY <1>8, <1>p, <2>1, <2>2 DEF ReadDocument
<1>9. CASE RecheckDocument(t)
  BY <1>0, <1>9, <1>g, <1>p, <1>q, <1>l, <1>w DEF RecheckDocument, At
<1>10. CASE SaveText(t)
  <2>1. row' = [x.r EXCEPT !.status = "ready", !.content = x.r.ref] /\ Done(t)
    BY <1>10, <1>p, <1>q DEF SaveText, Update, UpdateFails
  <2>2. row'.status = "ready" /\ row'.ref = x.r.ref
    BY <1>0, <1>p, <2>1 DEF Rows
  <2>3. task'[t].pc = "ending" /\ task'[t].seq = 0
    BY <1>z, <2>1
  <2> QED
    BY <1>0, <1>10, <1>l, <1>p, <1>w, <2>2, <2>3 DEF SaveText, At
<1>11. CASE ClearForRerun(t)
  <2>1. Goto(t, "reopen") /\ row' = row /\ x.pc = "clear" /\ x.kind = "analyze"
    BY <1>11, <1>p, <1>q DEF ClearForRerun, At
  <2> QED
    BY <1>0, <1>g, <1>p, <1>l, <1>w, <2>1
<1>12. CASE ReopenReview(t)
  <2>1. row' = [x.r EXCEPT !.status = "analyzing"]
        /\ task' = [task EXCEPT ![t].pc = "prepare", ![t].r.status = "analyzing"]
    BY <1>12, <1>p, <1>q DEF ReopenReview, Update, UpdateFails
  <2>2. row'.status = "analyzing" /\ row'.ref = x.r.ref /\ row'.content = x.r.content
    BY <1>0, <1>p, <2>1 DEF Rows
  <2>3. /\ task'[t].pc = "prepare" /\ task'[t].kind = x.kind /\ task'[t].seq = x.seq
        /\ task'[t].r.status = "analyzing" /\ task'[t].r.ref = x.r.ref /\ task'[t].r.content = x.r.content
    BY <1>c, <2>1
  <2>4. x.pc = "reopen" /\ x.kind = "analyze" /\ UNCHANGED <<clauses, issues>>
    BY <1>12, <1>p DEF ReopenReview, At
  <2> QED
    BY <1>0, <1>p, <1>l, <1>w, <2>2, <2>3, <2>4
<1>13. CASE Prepare(t)
  <2>1. CASE Goto(t, "replace")
    BY <1>0, <1>13, <1>g, <1>p, <1>l, <1>w, <2>1 DEF Prepare, At
  <2>2. CASE Goto(t, "fail") /\ (~HasClauses(x.r) \/ "model" \in scene.faults)
    <3>1. ~ (OneTab /\ ~Deleting)
      BY <1>0, <1>13, <1>p, <1>q, <2>2 DEF Prepare, At, HasClauses
    <3> QED
      BY <1>0, <1>13, <1>g, <1>p, <1>l, <1>w, <2>2, <3>1 DEF Prepare, At
  <2> QED
    BY <1>13, <1>p, <2>1, <2>2 DEF Prepare
<1>14. CASE ReplaceClauses(t)
  <2>1. /\ clauses' = [s \in Seqs |-> [by |-> t, doc |-> x.r.content, done |-> FALSE]]
        /\ Goto(t, "mark") /\ row' = row /\ x.pc = "replace" /\ x.kind = "analyze"
    BY <1>14, <1>p, <1>q DEF ReplaceClauses, At
  <2>2. x.r.content \in Docs
    BY <1>0, <1>p, <2>1 DEF PastPrepare, ReviewPCs, Rows
  <2>3. \A s \in Seqs :
          clauses'[s] \in Clauses /\ clauses'[s].by = t /\ clauses'[s].doc = x.r.content
    BY <2>1, <2>2 DEF Clauses
  <2>4. /\ task'[t].pc = "mark" /\ task'[t].r = x.r /\ task'[t].kind = x.kind /\ task'[t].seq = 0
    BY <1>0, <1>g, <1>l, <1>p, <2>1
  <2>5. \A s \in Seqs : ~ (s < 0)
    BY DEF Seqs
  <2> QED
    BY <1>0, <1>p, <1>l, <1>w, <2>1, <2>3, <2>4, <2>5, ClauseAssumption
<1>15. CASE MarkReviewing(t)
  <2>1. row' = [x.r EXCEPT !.status = "reviewing_clauses"]
        /\ task' = [task EXCEPT ![t].pc = "check", ![t].r.status = "reviewing_clauses"]
    BY <1>15, <1>p, <1>q DEF MarkReviewing, Update, UpdateFails
  <2>2. row'.status = "reviewing_clauses" /\ row'.ref = x.r.ref /\ row'.content = x.r.content
    BY <1>0, <1>p, <2>1 DEF Rows
  <2>3. /\ task'[t].pc = "check" /\ task'[t].kind = x.kind /\ task'[t].seq = x.seq
        /\ task'[t].r.status = "reviewing_clauses" /\ task'[t].r.ref = x.r.ref /\ task'[t].r.content = x.r.content
    BY <1>c, <2>1
  <2>4. x.pc = "mark" /\ x.kind = "analyze" /\ UNCHANGED <<clauses, issues>>
    BY <1>15, <1>p DEF MarkReviewing, At
  <2> QED
    BY <1>0, <1>p, <1>l, <1>w, <2>2, <2>3, <2>4
<1>16. CASE CheckReview(t)
  <2>1. Goto(t, "infer") /\ row' = row /\ x.pc = "check" /\ x.kind = "analyze" /\ UNCHANGED <<clauses, issues>>
    BY <1>16, <1>p, <1>q DEF CheckReview, At
  <2> QED
    BY <1>0, <1>g, <1>p, <1>l, <1>w, <2>1
<1>17. CASE ReviewClause(t)
  <2>0. row' = row /\ x.pc = "infer" /\ x.kind = "analyze" /\ UNCHANGED <<clauses, issues>>
    BY <1>17, <1>p DEF ReviewClause, At
  <2>1. CASE Goto(t, "issues")
    BY <1>0, <1>g, <1>p, <1>l, <1>w, <2>0, <2>1
  <2>2. CASE Goto(t, "fail") /\ "model" \in scene.faults
    <3>1. ~ OneTab
      BY <1>q, <2>2
    <3>2. task'[t].pc = "fail" /\ task'[t].r = x.r /\ task'[t].kind = x.kind /\ task'[t].seq = x.seq
      BY <1>g, <2>2
    <3> QED
      BY <1>0, <1>p, <1>l, <1>w, <2>0, <3>1, <3>2
  <2> QED
    BY <1>17, <1>q, <2>1, <2>2 DEF ReviewClause
<1>18. CASE StoreIssue(t)
  <2>1. OwnerOf(x.seq) = t
    BY <1>0, <1>18, <1>f, <1>l, <1>p DEF StoreIssue, At, OwnerOf
  <2>2. task' = [task EXCEPT ![t].found = @ + 1] /\ row' = row /\ UNCHANGED clauses
        /\ x.pc = "issues" /\ x.kind = "analyze"
    BY <1>18, <1>p, <1>q, <2>1 DEF StoreIssue, At
  <2>3. /\ task'[t].pc = "issues" /\ task'[t].r = x.r /\ task'[t].kind = x.kind /\ task'[t].seq = x.seq
    BY <1>0, <1>p, <2>2 DEF TaskStates
  <2> QED
    BY <1>0, <1>p, <1>l, <1>w, <2>2, <2>3
<1>19. CASE CloseClause(t)
  <2> DEFINE closed == [by |-> t, doc |-> x.r.content, done |-> TRUE]
  <2>1. OwnerOf(x.seq) = t
    BY <1>0, <1>19, <1>f, <1>l, <1>p DEF CloseClause, At, OwnerOf
  <2>2. clauses' = [clauses EXCEPT ![x.seq] = closed] /\ row' = row /\ UNCHANGED issues
        /\ x.pc = "issues" /\ x.kind = "analyze" /\ Goto(t, "progress")
    BY <1>19, <1>p, <1>q, <2>1 DEF CloseClause, At
  <2>3. /\ task'[t].pc = "progress" /\ task'[t].r = x.r /\ task'[t].kind = x.kind /\ task'[t].seq = x.seq
    BY <1>g, <2>2
  <2>4. x.r.content \in Docs
    BY <1>0, <1>p, <2>2 DEF PastPrepare, ReviewPCs, Rows
  <2>5. closed \in Clauses /\ closed.by = t /\ closed.doc = x.r.content /\ closed.done
    BY <2>4 DEF Clauses
  <2>6. ASSUME NEW s \in Seqs
        PROVE  clauses'[s] = IF s = x.seq THEN closed ELSE clauses[s]
    BY <1>0, <2>2
  <2> HIDE DEF closed
  <2>7. ASSUME NEW s \in Seqs
        PROVE  /\ clauses'[s] # None /\ clauses'[s].by = t /\ clauses'[s].doc = x.r.content
               /\ s < x.seq \/ s = x.seq => clauses'[s].done
    BY <1>0, <1>l, <1>p, <2>2, <2>5, <2>6, ClauseAssumption
  <2> QED
    BY <1>0, <1>p, <1>l, <1>w, <2>2, <2>3, <2>7
<1>20. CASE SaveProgress(t)
  <2> DEFINE last == IsLast(x.seq)
  <2>1. /\ row' = x.r /\ x.pc = "progress" /\ x.kind = "analyze" /\ UNCHANGED <<clauses, issues>>
    BY <1>20, <1>p, <1>u DEF SaveProgress, At
  <2>2. /\ task'[t].pc = IF last THEN "summarise" ELSE "check"
        /\ task'[t].seq = IF last THEN 0 ELSE x.seq + 1
        /\ task'[t].r = x.r /\ task'[t].kind = x.kind
    BY <1>0, <1>20, <1>p DEF SaveProgress, TaskStates
  <2>3. ASSUME NEW s \in Seqs
        PROVE  /\ last => s < x.seq \/ s = x.seq
               /\ s < x.seq + 1 => s < x.seq \/ s = x.seq
               /\ ~ (s < 0)
    BY <1>f, ClausesAssumption DEF Seqs, IsLast
  <2> HIDE DEF last
  <2> QED
    BY <1>0, <1>p, <1>l, <1>w, <2>1, <2>2, <2>3
<1>21. CASE Summarise(t)
  <2>1. /\ task' = [task EXCEPT ![t].pc = "complete", ![t].r.overview = Cardinality(issues)]
        /\ row' = row /\ x.pc = "summarise" /\ x.kind = "analyze" /\ UNCHANGED <<clauses, issues>>
    BY <1>21, <1>p, <1>q DEF Summarise, At
  <2>2. /\ task'[t].pc = "complete" /\ task'[t].kind = x.kind /\ task'[t].seq = x.seq
        /\ task'[t].r.status = x.r.status /\ task'[t].r.ref = x.r.ref /\ task'[t].r.content = x.r.content
        /\ task'[t].r.overview = Cardinality(issues)
    BY <1>0, <1>p, <2>1 DEF TaskStates, Rows
  <2> QED
    BY <1>0, <1>p, <1>l, <1>w, <2>1, <2>2
<1>22. CASE Complete(t)
  <2>1. /\ row' = [x.r EXCEPT !.status = "completed"] /\ Done(t)
        /\ x.pc = "complete" /\ x.kind = "analyze" /\ UNCHANGED <<clauses, issues>>
    BY <1>22, <1>p, <1>q DEF Complete, Update, UpdateFails, At
  <2>2. row'.ref = x.r.ref /\ row'.overview = x.r.overview
    BY <1>0, <1>p, <2>1 DEF Rows
  <2>3. task'[t].pc = "ending" /\ task'[t].seq = 0
    BY <1>z, <2>1
  <2>4. x.r.content = x.r.ref
    BY <1>0, <1>p, <2>1 DEF PastPrepare, ReviewPCs, Sound
  <2>5. Reported'
    BY <1>0, <1>l, <1>p, <2>1, <2>2, <2>4 DEF Reported
  <2> QED
    BY <1>0, <1>l, <1>p, <1>w, <2>1, <2>2, <2>3, <2>5
<1> QED
  BY <1>e, <1>3, <1>4, <1>5, <1>6, <1>7, <1>8, <1>9, <1>10, <1>11, <1>12, <1>13, <1>14, <1>15, <1>16,
     <1>17, <1>18, <1>19, <1>20, <1>21, <1>22
  DEF WorkerStep, DocumentStep, ReviewStep

\* What a worker's step leaves alone.
LEMMA WorkerFrame ==
  ASSUME IInv, NEW t \in Tasks, WorkerStep(t) \/ Expire(t) \/ DieUnacknowledged(t)
  PROVE  /\ UNCHANGED <<scene, deleted, files, saved, req>>
         /\ task[t].pc # "free"
         /\ task'[t].pc # "free" => task'[t].kind = task[t].kind
         /\ \A u \in Tasks \ {t} : task'[u] = task[u]
         /\ deleted => row' = row
<1> DEFINE Frame == /\ UNCHANGED <<scene, deleted, files, saved, req>>
                    /\ task[t].pc # "free"
                    /\ task'[t].pc # "free" => task'[t].kind = task[t].kind
                    /\ \A u \in Tasks \ {t} : task'[u] = task[u]
                    /\ deleted => row' = row
<1>0. task \in [Tasks -> TaskStates] /\ TaskOK(Free)
  BY FreshOK DEF IInv, TasksOK
<1>1. ASSUME UNCHANGED <<scene, deleted, files, saved, req>>, task[t].pc # "free",
             deleted => row' = row, Done(t) \/ Redeliver(t)
      PROVE  Frame
  <2> DEFINE again == [Free EXCEPT !.pc = "queued", !.kind = task[t].kind, !.tries = task[t].tries + 1]
             ends == [Free EXCEPT !.pc = "ending", !.kind = task[t].kind, !.tries = task[t].tries]
  <2>1. Free.pc = "free" /\ again.kind = task[t].kind /\ ends.kind = task[t].kind
    BY DEF Free
  <2>2. \E y \in {Free, again, ends} : task' = [task EXCEPT ![t] = y]
    BY <1>1 DEF Done, Redeliver
  <2> HIDE DEF again, ends
  <2>3. task'[t] \in {Free, again, ends} /\ \A u \in Tasks \ {t} : task'[u] = task[u]
    BY <1>0, <2>2
  <2> QED
    BY <1>1, <2>1, <2>3
<1>2. ASSUME UNCHANGED <<scene, deleted, files, saved, req>>, task[t].pc # "free",
             deleted => row' = row,
             \/ \E pc : task' = [task EXCEPT ![t].pc = pc]
             \/ \E pc, s : task' = [task EXCEPT ![t].pc = pc, ![t].r.status = s]
             \/ \E pc, n : task' = [task EXCEPT ![t].pc = pc, ![t].r.overview = n]
             \/ \E n : task' = [task EXCEPT ![t].found = n]
             \/ \E n, s, pc : task' = [task EXCEPT ![t].found = n, ![t].seq = s, ![t].pc = pc]
      PROVE  Frame
  <2>1. CASE \E pc : task' = [task EXCEPT ![t].pc = pc]
    BY <1>0, <1>2, <2>1 DEF TaskStates
  <2>2. CASE \E pc, s : task' = [task EXCEPT ![t].pc = pc, ![t].r.status = s]
    BY <1>0, <1>2, <2>2 DEF TaskStates
  <2>3. CASE \E pc, n : task' = [task EXCEPT ![t].pc = pc, ![t].r.overview = n]
    BY <1>0, <1>2, <2>3 DEF TaskStates
  <2>5. CASE \E n : task' = [task EXCEPT ![t].found = n]
    BY <1>0, <1>2, <2>5 DEF TaskStates
  <2>6. CASE \E n, s, pc : task' = [task EXCEPT ![t].found = n, ![t].seq = s, ![t].pc = pc]
    BY <1>0, <1>2, <2>6 DEF TaskStates
  <2> QED
    BY <1>2, <2>1, <2>2, <2>3, <2>5, <2>6
<1> USE DEF At, Goto, Update, UpdateFails, TryUpdate
<1>3. CASE ReceiveDocument(t) \/ ReceiveReview(t)
  <2>1. UNCHANGED <<scene, row, deleted, files, saved, req>> /\ task[t].pc = "queued"
    BY <1>3 DEF ReceiveDocument, ReceiveReview, Receive
  <2>2. CASE Done(t) \/ Redeliver(t)
    BY <1>1, <2>1, <2>2
  <2>3. CASE task' = [task EXCEPT ![t].r = row, ![t].pc = IF row.status = "failed" THEN "reopen" ELSE "read"]
    BY <1>0, <2>1, <2>3 DEF TaskStates
  <2>4. CASE task' = [task EXCEPT ![t].r = row, ![t].pc = IF row.status = "failed" THEN "clear" ELSE "prepare"]
    BY <1>0, <2>1, <2>4 DEF TaskStates
  <2> QED
    BY <1>3, <2>2, <2>3, <2>4 DEF ReceiveDocument, ReceiveReview, Receive
<1>4. CASE Fail(t) \/ Expire(t) \/ DieUnacknowledged(t)
  BY <1>1, <1>4 DEF Fail, Expire, DieUnacknowledged
<1>14. CASE Acknowledge(t)
  BY <1>0, <1>14 DEF Acknowledge, Free
<1>5. CASE ReopenDocument(t)
  BY <1>2, <1>5 DEF ReopenDocument
<1>6. CASE ReadDocument(t) \/ RecheckDocument(t)
  BY <1>1, <1>2, <1>6 DEF ReadDocument, RecheckDocument
<1>7. CASE SaveText(t) \/ Complete(t)
  BY <1>1, <1>7 DEF SaveText, Complete
<1>8. CASE ClearForRerun(t) \/ ReplaceClauses(t) \/ Prepare(t)
  BY <1>1, <1>2, <1>8 DEF ClearForRerun, ReplaceClauses, Prepare
<1>9. CASE ReopenReview(t) \/ MarkReviewing(t)
  BY <1>1, <1>2, <1>9 DEF ReopenReview, MarkReviewing
<1>10. CASE CheckReview(t) \/ ReviewClause(t)
  BY <1>1, <1>2, <1>10 DEF CheckReview, ReviewClause
<1>11. CASE StoreIssue(t) \/ CloseClause(t)
  BY <1>2, <1>11 DEF StoreIssue, CloseClause
<1>12. CASE SaveProgress(t)
  BY <1>2, <1>12 DEF SaveProgress
<1>13. CASE Summarise(t)
  BY <1>1, <1>2, <1>13 DEF Summarise
<1> QED
  BY <1>3, <1>4, <1>5, <1>6, <1>7, <1>8, <1>9, <1>10, <1>11, <1>12, <1>13, <1>14
  DEF WorkerStep, DocumentStep, ReviewStep

LEMMA WorkerQInv ==
  ASSUME IInv, Quiet, QInv, NEW t \in Tasks, WorkerStep(t) \/ Expire(t) \/ DieUnacknowledged(t)
  PROVE  QInv'
<1>0. /\ UNCHANGED <<scene, deleted, files, saved, req>>
      /\ task[t].pc # "free"
      /\ task'[t].pc # "free" => task'[t].kind = task[t].kind
      /\ \A u \in Tasks \ {t} : task'[u] = task[u]
      /\ deleted => row' = row
  BY WorkerFrame
<1>3. (Deleting' <=> Deleting) /\ (OneTab' <=> OneTab) /\ (Calm' <=> Calm) /\ (Clearing' <=> Clearing)
  BY <1>0 DEF Deleting, OneTab, Calm, Patient, Only, Clearing
\* The queue learns that a task ended.
<1>6. CASE Acknowledge(t)
  <2>3. UNCHANGED <<row, clauses, issues>> /\ task'[t].pc = "free"
    BY <1>6 DEF Acknowledge, Free, IInv, TasksOK
  <2>4. ~ Works(task'[t]) /\ ~ Received(task'[t]) /\ ~ Live(task[t])'
    BY <2>3 DEF Live, Works, Received
  <2>5. OneRequest' /\ OneTask' /\ RowFits'
    BY <1>0, <1>3, <2>3, <2>4 DEF Live, QInv, OneRequest, OneTask, RowFits
  <2>6. RequestsFit'
    BY <1>0, <1>3, <2>3, <2>4
    DEF Live, QInv, RequestsFit, RequestFits, StartFits, EditFits, DeleteFits, NoRun
  <2>7. FilesFit' /\ ReportFits'
    BY <1>0, <1>3, <2>3 DEF QInv, FilesFit, ReportFits, Reported
  <2>8. WorksFit'
    BY <1>0, <1>3, <2>3, <2>4 DEF Live, QInv, WorksFit, WorkFits
  <2>9. RunsFit'
    BY <1>0, <1>3, <2>3, <2>4 DEF QInv, RunsFit, RunFits
  <2> QED
    BY <2>5, <2>6, <2>7, <2>8, <2>9 DEF QInv
\* Every other step is one of a task that may still write.
<1>7. ~ Acknowledge(t) => Live(task[t]) /\ (OneTab => Works(task[t]))
  <2> SUFFICES ASSUME ~ Acknowledge(t), task[t].pc = "ending" PROVE Calm /\ ~ OneTab
    BY <1>0 DEF Live, Works
  <2>1. DieUnacknowledged(t)
    BY DEF WorkerStep, DocumentStep, ReviewStep, Expire, ReceiveDocument, ReceiveReview, Receive,
      ReopenDocument, ReadDocument, RecheckDocument, SaveText, Fail, ClearForRerun, ReopenReview, Prepare,
      ReplaceClauses, MarkReviewing, CheckReview, ReviewClause, StoreIssue, CloseClause, SaveProgress,
      Summarise, Complete, At
  <2> QED
    BY <2>1, QuietFaults DEF DieUnacknowledged, Quiet
<1>1. ASSUME Live(task[t]), NEW u \in Tasks \ {t}
      PROVE  ~ Live(task[u]) /\ ~ Live(task[u])' /\ task'[u] = task[u]
  BY <1>0, <1>1, <1>3 DEF Live, QInv, OneTask
<1>2. Live(task[t]) => OneRequest' /\ OneTask'
  BY <1>0, <1>1, <1>3 DEF Live, QInv, OneRequest, OneTask
<1>4. CASE ~ Acknowledge(t) /\ deleted
  <2>1. RequestsFit' /\ RowFits'
    <3>1. \A q \in Requests : req[q].pc = "idle"
      BY <1>4 DEF QInv, RequestsFit, RequestFits
    <3> QED
      BY <1>0, <1>4, <3>1 DEF QInv, RequestsFit, RequestFits, RowFits
  <2>2. FilesFit'
    BY <1>0, <1>3, <1>4 DEF QInv, FilesFit
  <2>3. WorksFit' /\ RunsFit' /\ ReportFits'
    BY <1>0, <1>4 DEF WorksFit, RunsFit, ReportFits
  <2> QED
    BY <1>2, <1>4, <1>7, <2>1, <2>2, <2>3 DEF QInv
<1>5. CASE ~ Acknowledge(t) /\ ~ deleted
  <2>l. Live(task[t]) /\ (OneTab => Works(task[t]))
    BY <1>5, <1>7
  <2>0. /\ WorkFits(t, task'[t], row', clauses', issues')
        /\ OneTab /\ ~Deleting => RunFits(task'[t], row')
        /\ row'.status = "completed" => Reported' \/ UNCHANGED <<row, clauses, issues>>
        /\ row'.ref = row.ref
    BY <1>5, WorkerKeeps DEF QInv
  <2>1. RowFits'
    <3>1. row.ref # None
      BY <1>5, <2>l DEF QInv, WorksFit, WorkFits
    <3> QED
      BY <2>0, <3>1 DEF RowFits
  <2>2. RequestsFit'
    <3> SUFFICES ASSUME NEW q \in Requests, req[q].pc # "idle"
                 PROVE  RequestFits(req[q])'
      BY <1>0 DEF RequestsFit, RequestFits
    <3>1. RequestFits(req[q]) /\ ~ NoRun
      BY <2>l DEF QInv, RequestsFit, NoRun
    <3>2. req[q].op \notin Starts /\ ~ (req[q].op \in Edits /\ (Calm \/ ~Running(req[q].r.status)))
      BY <3>1 DEF RequestFits, StartFits, EditFits
    <3> QED
      BY <1>0, <1>3, <2>0, <3>1, <3>2 DEF RequestFits, StartFits, EditFits, DeleteFits
  <2>3. FilesFit'
    BY <1>0, <1>3, <2>0 DEF QInv, FilesFit
  <2>4. WorksFit'
    <3>1. WorkFits(t, task[t], row, clauses, issues)'
      BY <1>3, <2>0 DEF Live, WorkFits
    <3>2. ASSUME NEW u \in Tasks \ {t} PROVE WorkFits(u, task[u], row, clauses, issues)'
      BY <1>1, <1>3, <2>l DEF Live, WorkFits, Works, Received, Reviewing, Counting
    <3> QED
      BY <3>1, <3>2 DEF WorksFit
  <2>5. RunsFit'
    <3> SUFFICES ASSUME OneTab, ~ Deleting, NEW u \in Tasks, Works(task'[u])
                 PROVE  /\ RunFits(task'[u], row')
                        /\ \A q \in Requests : req[q].pc # "idle" /\ req[q].op \in Edits =>
                                                 InRun(task'[u].kind, req[q].r)
      BY <1>0, <1>3 DEF RunsFit, RunFits
    <3>1. u = t
      BY <1>1, <1>3, <2>l DEF Live
    <3> QED
      BY <1>0, <1>5, <2>0, <2>l, <3>1 DEF QInv, RunsFit, Works
  <2>6. ReportFits'
    BY <1>0, <1>3, <2>0 DEF QInv, ReportFits, Reported
  <2> QED
    BY <1>2, <2>l, <2>1, <2>2, <2>3, <2>4, <2>5, <2>6 DEF QInv
<1> QED
  BY <1>4, <1>5, <1>6

\* While one request is in flight, it alone decides what the sets of requests say.
LEMMA Single ==
  ASSUME NEW rq, NEW q \in Requests, \A p \in Requests \ {q} : rq[p].pc = "idle"
  PROVE  /\ (\E p \in Requests : Unlinked(rq[p])) <=> Unlinked(rq[q])
         /\ (\E p \in Requests : rq[p].op = "retry" /\ rq[p].pc = "write")
              <=> rq[q].op = "retry" /\ rq[q].pc = "write"
         /\ {rq[p].r.ref : p \in {p \in Requests : Enters(rq[p])}}
              = IF Enters(rq[q]) THEN {rq[q].r.ref} ELSE {}
         /\ {rq[p].old : p \in {p \in Requests : Leaves(rq[p])}}
              = IF Leaves(rq[q]) THEN {rq[q].old} ELSE {}
BY DEF Unlinked, Enters, Leaves

FilesOf(x, gone, r) ==
  (IF gone \/ Unlinked(x) THEN {} ELSE {r.ref} \ {None})
    \union (IF Enters(x) THEN {x.r.ref} ELSE {}) \union (IF Leaves(x) THEN {x.old} ELSE {})

LEMMA RequestFrame ==
  ASSUME IInv, scene.clients # "concurrent", OneRequest, NEW q \in Requests, Request(q)
  PROVE  /\ scene' = scene
         /\ \A p \in Requests \ {q} : req[p].pc = "idle" /\ req'[p] = req[p]
<1>0. req \in [Requests -> RequestStates] /\ scene.clients # "concurrent"
  BY DEF IInv, RequestsOK
<1>1. ASSUME NEW op, NEW pc, NEW r, Load(q, op, pc, r)
      PROVE  \A p \in Requests \ {q} : req[p].pc = "idle" /\ req'[p] = req[p]
  BY <1>0, <1>1 DEF Load, MaySend, NoneInFlight
<1>2. ASSUME Return(q) \/ \E pc : Proceed(q, pc)
      PROVE  \A p \in Requests \ {q} : req'[p] = req[p]
  BY <1>0, <1>2 DEF Return, Proceed
<1>3. CASE Edit(q) \/ Upload(q) \/ Start(q) \/ Retry(q) \/ Delete(q)
  BY <1>1, <1>3 DEF Edit, Upload, Start, Retry, Delete
<1>4. CASE RequestStep(q) \/ HangUp(q)
  <2>1. req[q].pc # "idle" /\ scene' = scene
    BY <1>4 DEF RequestStep, RequestClear, RequestWrite, DropOldFile, Enqueue, MarkFailed, DeleteFile,
      RemoveReview, HangUp
  <2>2. \A p \in Requests \ {q} : req'[p] = req[p]
    <3>1. CASE RequestClear(q) \/ DropOldFile(q) \/ MarkFailed(q) \/ DeleteFile(q) \/ RemoveReview(q) \/ HangUp(q)
      BY <1>2, <3>1 DEF RequestClear, DropOldFile, MarkFailed, DeleteFile, RemoveReview, HangUp, GiveUp
    <3>2. CASE RequestWrite(q)
      BY <1>2, <3>2 DEF RequestWrite, GiveUp, AfterWrite
    <3>3. CASE Enqueue(q)
      BY <1>0, <1>2, <3>3 DEF Enqueue
    <3> QED
      BY <1>4, <3>1, <3>2, <3>3 DEF RequestStep
  <2> QED
    BY <2>1, <2>2 DEF OneRequest
<1> QED
  BY <1>3, <1>4 DEF Request

LEMMA RequestQInv ==
  ASSUME IInv, Quiet, QInv, NEW q \in Requests, Request(q)
  PROVE  QInv'
<1> DEFINE x == req[q]
           FilesGoal == files' = FilesOf(req'[q], deleted', row')
<1>0. /\ x \in RequestStates /\ x.r \in Rows /\ row \in Rows /\ Sound(x.r) /\ Sound(row)
      /\ req \in [Requests -> RequestStates] /\ task \in [Tasks -> TaskStates]
      /\ files \subseteq saved /\ saved \subseteq Docs /\ None \notin Docs
      /\ x = [pc |-> x.pc, op |-> x.op, r |-> x.r, old |-> x.old]
  BY SetsAssumption DEF IInv, RequestsOK, RequestOK, TasksOK, StoreOK, Sound, RequestStates
<1>1. /\ scene' = scene /\ (OneTab' <=> OneTab) /\ (Calm' <=> Calm) /\ Quiet'
      /\ "db" \notin scene.faults /\ "hangup" \notin scene.faults
      /\ \A p \in Requests \ {q} : req[p].pc = "idle" /\ req'[p].pc = "idle"
  BY RequestFrame, QuietFaults DEF QInv, OneTab, Calm, Patient, Only, Quiet
<1>2. /\ (Deleting <=> Unlinked(x)) /\ (Deleting' <=> Unlinked(req[q])')
      /\ (Clearing <=> x.op = "retry" /\ x.pc = "write")
      /\ (Clearing' <=> req'[q].op = "retry" /\ req'[q].pc = "write")
  BY <1>1, Single DEF Deleting, Clearing
<1>3. files = FilesOf(x, deleted, row)
  BY <1>1, <1>2, Single DEF QInv, FilesFit, FilesOf
<1>4. FilesGoal => FilesFit'
  BY <1>1, <1>2, Single DEF FilesFit, FilesOf
<1>5. OneRequest' /\ (RequestFits(req[q])' => RequestsFit')
  BY <1>1 DEF OneRequest, RequestsFit, RequestFits
<1>6. RequestFits(x)
  BY DEF QInv, RequestsFit
<1>7. ASSUME UNCHANGED <<row, deleted, clauses, issues, task>>
      PROVE  OneTask' /\ RowFits' /\ WorksFit'
  BY <1>1, <1>7 DEF QInv, OneTask, RowFits, WorksFit, WorkFits, Live
\* What requests ask of the tasks depends on the tasks alone.
<1>n. /\ task' = task => (NoRun' <=> NoRun)
      /\ NoRun => \A t \in Tasks : ~ Works(task[t]) /\ ~ Received(task[t]) /\ ~ Live(task[t])
  BY <1>1 DEF NoRun, Live, Works, Received
<1> HIDE DEF x
<1>x. x = req[q]
  BY DEF x
<1>8. ASSUME NEW op \in AllOps, NEW pc \in RequestPCs \ {"idle"}, NEW r \in Rows, Load(q, op, pc, r)
      PROVE  /\ ~ deleted /\ x.pc = "idle" /\ files = {row.ref} \ {None}
             /\ req'[q] = [pc |-> pc, op |-> op, r |-> r, old |-> row.ref]
             /\ row.ref \in saved \union {None}
             /\ Calm /\ op # "delete" => NoRun
             /\ ~ Running(row.status) /\ op # "delete" => NoRun
             /\ ~ Deleting /\ ~ Clearing
  <2>1. ~ deleted /\ x.pc = "idle"
    BY <1>8, <1>x DEF Load
  <2>2. files = {row.ref} \ {None} /\ ~ Deleting /\ ~ Clearing
    BY <1>2, <1>3, <1>x, <2>1 DEF FilesOf, Unlinked, Enters, Leaves
  <2>3. Calm /\ op # "delete" => NoRun
    BY <1>8 DEF Load, MaySend, Calm, Patient, NoTask, NoRun, Live, Works
  <2>4. OneTab /\ ~ Calm /\ ~ Running(row.status) => NoRun
    BY <2>1, <2>2 DEF QInv, RunsFit, RunFits, InRun, NoRun, Live
  <2>5. req'[q] = [pc |-> pc, op |-> op, r |-> r, old |-> row.ref]
    BY <1>0, <1>8 DEF Load
  <2> QED
    BY <1>0, <2>1, <2>2, <2>3, <2>4, <2>5 DEF Quiet
<1>9. CASE Edit(q)
  <2>1. PICK op \in Edits : \E r \in Edited(op) : Load(q, op, "write", r)
    BY <1>9 DEF Edit
  <2>2. PICK r \in Edited(op) : Load(q, op, "write", r)
    BY <2>1
  <2>3. r \in Rows /\ Same(r, row)
    <3>1. \/ r = row
          \/ \E p \in Parties : r = [row EXCEPT !.party = p]
          \/ \E b \in BOOLEAN : r = [row EXCEPT !.archived = b]
      <4>1. CASE op = "rename"
        BY <2>2, <4>1 DEF Edited
      <4>2. CASE op = "configure"
        BY <2>2, <4>2 DEF Edited
      <4>3. CASE op = "archive"
        BY <2>2, <4>3 DEF Edited
      <4>4. CASE op = "restore"
        BY <2>2, <4>4 DEF Edited
      <4> QED
        BY <2>1, <4>1, <4>2, <4>3, <4>4 DEF Edits
    <3> QED
      BY <1>0, <3>1 DEF Rows, Same
  <2>4. UNCHANGED <<scene, row, deleted, clauses, issues, files, saved, task>>
    BY <1>9 DEF Edit
  <2> DEFINE y == [pc |-> "write", op |-> op, r |-> r, old |-> row.ref]
  <2>5. /\ ~ deleted /\ files = {row.ref} \ {None} /\ req'[q] = y /\ ~ Deleting /\ ~ Clearing
        /\ Calm => NoRun
        /\ ~ Running(row.status) => NoRun
    BY <1>8, <2>1, <2>2, <2>3 DEF AllOps, Edits, RequestPCs
  <2>6. y.pc = "write" /\ y.op = op /\ y.r = r /\ y.op \in Edits /\ op \notin Starts \union {"delete", "retry"}
    BY <2>1 DEF Edits, Starts
  <2> HIDE DEF y
  <2>7. RequestFits(req[q])'
    BY <1>n, <1>1, <1>x, <2>1, <2>3, <2>4, <2>5, <2>6
    DEF RequestFits, StartFits, EditFits, DeleteFits, Same, QInv, RowFits, AllOps
  <2>8. FilesGoal
    BY <2>4, <2>5, <2>6 DEF FilesOf, Unlinked, Enters, Leaves, Starts
  <2>9. RunsFit'
    BY <1>1, <1>2, <1>x, <2>3, <2>4, <2>5, <2>6 DEF QInv, RunsFit, RunFits, InRun, Same, Unlinked
  <2>10. ReportFits'
    BY <2>4, <2>5 DEF QInv, ReportFits, Reported
  <2> QED
    BY <1>4, <1>5, <1>7, <1>x, <2>4, <2>7, <2>8, <2>9, <2>10 DEF QInv
<1>10. CASE Upload(q)
  <2>1. PICK d \in Docs \ saved :
          /\ Load(q, "upload", "clear", Uploaded(row, d))
          /\ saved' = saved \union {d} /\ files' = files \union {d}
    BY <1>10 DEF Upload
  <2> DEFINE u == Uploaded(row, d)
  <2>u. u \in Rows /\ u.ref = d /\ u.status = "uploading"
    BY <1>0 DEF Uploaded, Rows, Statuses
  <2> HIDE DEF u
  <2>2. PICK r \in Rows : r = u /\ r.ref = d /\ r.status = "uploading"
    BY <2>u
  <2>l. Load(q, "upload", "clear", r)
    BY <2>1, <2>2 DEF u
  <2>3. UNCHANGED <<scene, row, deleted, clauses, issues, task>> /\ row.status \in {"draft", "ready", "failed"}
    BY <1>10 DEF Upload, CanUpload
  <2> DEFINE y == [pc |-> "clear", op |-> "upload", r |-> r, old |-> row.ref]
  <2>4. /\ ~ deleted /\ files = {row.ref} \ {None} /\ req'[q] = y /\ ~ Deleting /\ ~ Clearing
        /\ row.ref \in saved \union {None}
        /\ ~ Running(row.status) => NoRun
    BY <1>8, <2>l DEF AllOps, Edits, RequestPCs
  <2>5. y.pc = "clear" /\ y.op = "upload" /\ y.r = r /\ y.old = row.ref
    OBVIOUS
  <2> HIDE DEF y
  <2>6. NoRun /\ d # None /\ d # row.ref
    BY <1>0, <2>3, <2>4 DEF Running
  <2>7. RequestFits(req[q])'
    BY <1>n, <1>x, <2>2, <2>3, <2>4, <2>5, <2>6
    DEF RequestFits, StartFits, EditFits, DeleteFits, Running, AllOps, Edits
  <2>8. FilesGoal
    BY <2>1, <2>2, <2>3, <2>4, <2>5 DEF FilesOf, Unlinked, Enters, Leaves
  <2>9. RunsFit'
    BY <1>n, <2>3, <2>6 DEF RunsFit, RunFits
  <2>10. ReportFits'
    BY <2>3, <2>4 DEF QInv, ReportFits, Reported
  <2> QED
    BY <1>4, <1>5, <1>7, <1>x, <2>3, <2>7, <2>8, <2>9, <2>10 DEF QInv
<1>11. CASE Start(q) \/ Retry(q)
  <2>1. PICK op \in {"start", "retry"}, pc \in {"clear", "write"}, r \in Rows :
          /\ Load(q, op, pc, r) /\ Running(r.status) /\ r.ref = row.ref /\ r.content = row.content
          /\ pc = "clear" => op = "retry"
    <3>1. CASE Start(q)
      <4>1. Load(q, "start", "write", [row EXCEPT !.status = "analyzing"])
        BY <3>1 DEF Start
      <4>2. [row EXCEPT !.status = "analyzing"] \in Rows /\ Running([row EXCEPT !.status = "analyzing"].status)
        BY <1>0 DEF Rows, Statuses, Running
      <4> QED
        BY <1>0, <4>1, <4>2 DEF Rows
    <3>2. CASE Retry(q) /\ row.content = None
      <4>1. Load(q, "retry", "write", [row EXCEPT !.status = "uploading"])
        BY <3>2 DEF Retry
      <4>2. [row EXCEPT !.status = "uploading"] \in Rows /\ Running([row EXCEPT !.status = "uploading"].status)
        BY <1>0 DEF Rows, Statuses, Running
      <4> QED
        BY <1>0, <4>1, <4>2 DEF Rows
    <3>3. CASE Retry(q) /\ row.content # None
      <4> DEFINE r == [row EXCEPT !.status = "analyzing", !.overview = None]
      <4>1. Load(q, "retry", "clear", r)
        BY <3>3 DEF Retry
      <4>2. r \in Rows /\ Running(r.status) /\ r.ref = row.ref /\ r.content = row.content
        BY <1>0 DEF Rows, Statuses, Running
      <4> HIDE DEF r
      <4> QED
        BY <4>1, <4>2
    <3> QED
      BY <1>11, <3>1, <3>2, <3>3
  <2>2. UNCHANGED <<scene, row, deleted, clauses, issues, files, saved, task>>
        /\ row.status \in {"ready", "failed", "completed"}
    BY <1>11 DEF Start, Retry, CanRetry
  <2> DEFINE y == [pc |-> pc, op |-> op, r |-> r, old |-> row.ref]
  <2>3. /\ ~ deleted /\ files = {row.ref} \ {None} /\ req'[q] = y /\ ~ Deleting /\ ~ Clearing
        /\ ~ Running(row.status) => NoRun
    BY <1>8, <2>1 DEF AllOps, Edits, RequestPCs
  <2>4. y.pc = pc /\ y.op = op /\ y.r = r /\ y.old = row.ref
    OBVIOUS
  <2> HIDE DEF y
  <2>5. NoRun /\ row.ref # None
    BY <2>2, <2>3 DEF Running, QInv, RowFits
  <2>6. RequestFits(req[q])'
    BY <1>n, <1>x, <2>1, <2>2, <2>3, <2>4, <2>5
    DEF RequestFits, StartFits, EditFits, DeleteFits, AllOps, Edits
  <2>7. FilesGoal
    BY <2>1, <2>2, <2>3, <2>4 DEF FilesOf, Unlinked, Enters, Leaves
  <2>8. RunsFit'
    BY <1>n, <2>2, <2>5 DEF RunsFit, RunFits
  <2>9. ReportFits'
    BY <2>2, <2>3 DEF QInv, ReportFits, Reported
  <2> QED
    BY <1>4, <1>5, <1>7, <1>x, <2>2, <2>6, <2>7, <2>8, <2>9 DEF QInv
<1>12. CASE Delete(q)
  <2>1. PICK pc \in {"remove", "unlink"} : Load(q, "delete", pc, row) /\ (pc = "remove" => row.ref = None)
    BY <1>12 DEF Delete
  <2>2. UNCHANGED <<scene, row, deleted, clauses, issues, files, saved, task>>
    BY <1>12 DEF Delete
  <2> DEFINE y == [pc |-> pc, op |-> "delete", r |-> row, old |-> row.ref]
  <2>3. /\ ~ deleted /\ files = {row.ref} \ {None} /\ req'[q] = y /\ ~ Deleting /\ ~ Clearing
    BY <1>0, <1>8, <2>1 DEF AllOps, Edits, RequestPCs
  <2>4. y.pc = pc /\ y.op = "delete" /\ y.r = row
    OBVIOUS
  <2> HIDE DEF y
  <2>5. RequestFits(req[q])'
    BY <1>x, <2>1, <2>2, <2>3, <2>4
    DEF RequestFits, StartFits, EditFits, DeleteFits, AllOps, Edits, Starts
  <2>6. FilesGoal
    BY <2>1, <2>2, <2>3, <2>4 DEF FilesOf, Unlinked, Enters, Leaves
  <2>7. RunsFit'
    <3>1. \A p \in Requests : ~ (req'[p].pc # "idle" /\ req'[p].op \in Edits)
      BY <1>1, <2>3, <2>4 DEF Edits
    <3> QED
      BY <1>1, <2>2, <2>3, <3>1 DEF QInv, RunsFit, RunFits
  <2>8. ReportFits'
    BY <2>2, <2>3 DEF QInv, ReportFits, Reported
  <2> QED
    BY <1>4, <1>5, <1>7, <1>x, <2>2, <2>5, <2>6, <2>7, <2>8 DEF QInv
<1>13. CASE RequestStep(q)
  <2>1. x.pc # "idle"
    BY <1>x, <1>13 DEF RequestStep, RequestClear, RequestWrite, DropOldFile, Enqueue, MarkFailed,
      DeleteFile, RemoveReview
  <2>2. ~ deleted /\ x.op \in AllOps /\ StartFits(x) /\ EditFits(x) /\ DeleteFits(x) /\ ~ DbFails
    BY <1>1, <1>6, <2>1 DEF RequestFits, DbFails
  <2>3. x.op \in Edits \/ x.op \in Starts \/ x.op = "delete"
    BY <2>2 DEF AllOps, Starts
  <2>4. ASSUME NEW pc, Proceed(q, pc)
        PROVE  req'[q] = [pc |-> pc, op |-> x.op, r |-> x.r, old |-> x.old]
    BY <1>0, <1>x, <2>4 DEF Proceed
  <2>5. ASSUME Return(q)
        PROVE  /\ req'[q] = Idle /\ RequestFits(req[q])' /\ ~ Clearing' /\ ~ Deleting'
               /\ files' = (IF deleted' THEN {} ELSE {row'.ref} \ {None}) => FilesGoal
    <3>1. req'[q] = Idle
      BY <1>0, <2>5 DEF Return
    <3> QED
      BY <1>2, <1>x, <3>1 DEF Idle, RequestFits, FilesOf, Unlinked, Enters, Leaves
  <2>6. x.op \in Starts => NoRun
    BY <2>2 DEF StartFits
  <2>7. ASSUME NoRun, UNCHANGED task
        PROVE  OneTask' /\ WorksFit' /\ RunsFit'
    BY <1>1, <1>n, <2>7 DEF OneTask, WorksFit, WorkFits, RunsFit, RunFits, Live, Received, Works, Reviewing, Counting
  <2>8. CASE RequestClear(q)
    <3>1. x.op \in {"upload", "retry"} /\ x.pc = "clear"
      BY <1>x, <2>2, <2>3, <2>8 DEF RequestClear, StartFits, EditFits, DeleteFits, Starts
    <3>2. Proceed(q, "write") /\ UNCHANGED <<row, deleted, files, task>>
      BY <2>2, <2>8 DEF RequestClear
    <3> DEFINE y == [pc |-> "write", op |-> x.op, r |-> x.r, old |-> x.old]
    <3>3. req'[q] = y
      BY <2>4, <3>2
    <3>4. y.pc = "write" /\ y.op = x.op /\ y.r = x.r /\ y.old = x.old
      OBVIOUS
    <3> HIDE DEF y
    <3>5. RequestFits(req[q])'
      BY <1>n, <2>2, <2>6, <3>1, <3>2, <3>3, <3>4
      DEF RequestFits, StartFits, EditFits, DeleteFits, Starts, Edits
    <3>6. FilesGoal
      BY <1>3, <3>1, <3>2, <3>3, <3>4 DEF FilesOf, Unlinked, Enters, Leaves
    <3>7. ReportFits'
      BY <1>2, <2>2, <3>1, <3>2, <3>3, <3>4 DEF ReportFits, StartFits, Starts
    <3>8. RowFits'
      BY <3>2 DEF QInv, RowFits
    <3> QED
      BY <1>4, <1>5, <2>6, <2>7, <3>1, <3>2, <3>5, <3>6, <3>7, <3>8 DEF QInv, Starts
  <2>9. CASE RequestWrite(q) /\ x.op \in Edits
    <3>1. x.pc = "write" /\ Return(q) /\ row' = x.r /\ UNCHANGED <<deleted, files, task, clauses, issues>>
      BY <1>x, <2>2, <2>9 DEF RequestWrite, Update, UpdateFails, AfterWrite, Edits
    <3>2. /\ x.r.ref = row.ref /\ (x.r.status # "draft" => x.r.ref # None)
          /\ (Calm \/ ~ Running(x.r.status) => NoRun /\ Same(x.r, row))
      BY <2>2, <2>9 DEF EditFits
    <3>3. ~ Unlinked(x) /\ ~ Enters(x) /\ ~ Leaves(x) /\ ~ Clearing /\ ~ Deleting
      BY <1>2, <2>9, <3>1 DEF Unlinked, Enters, Leaves, Edits
    <3>4. FilesGoal
      BY <1>3, <2>5, <3>1, <3>2, <3>3 DEF FilesOf
    <3>5. RowFits'
      BY <3>1, <3>2 DEF RowFits
    <3>6. WorksFit'
      <4>1. CASE NoRun
        BY <2>7, <3>1, <4>1
      <4>2. CASE Running(x.r.status)
        BY <1>1, <2>2, <3>1, <3>2, <4>2 DEF QInv, WorksFit, WorkFits, Running, Work, Live
      <4> QED
        BY <3>2, <4>1, <4>2
    <3>7. RunsFit'
      <4>1. \A p \in Requests : req'[p].pc = "idle"
        BY <1>1, <2>5, <3>1 DEF Idle
      <4>2. ASSUME OneTab, NEW t \in Tasks PROVE RunFits(task[t], x.r)
        BY <1>x, <2>1, <2>2, <2>9, <3>3, <4>2 DEF QInv, RunsFit, RunFits
      <4> QED
        BY <1>1, <3>1, <4>1, <4>2 DEF RunsFit
    <3>8. ReportFits'
      BY <2>2, <3>1, <3>2, <3>3 DEF QInv, ReportFits, Reported, Same, Running
    <3>9. OneTask'
      BY <1>1, <3>1 DEF QInv, OneTask, Live
    <3> QED
      BY <1>4, <1>5, <2>5, <3>1, <3>4, <3>5, <3>6, <3>7, <3>8, <3>9 DEF QInv
  <2>10. CASE RequestWrite(q) /\ x.op \in Starts
    <3>1. x.pc = "write" /\ row' = x.r /\ UNCHANGED <<deleted, files, task, clauses, issues>>
      BY <1>x, <2>2, <2>10 DEF RequestWrite, Update, UpdateFails
    <3>2. PICK pc \in {"enqueue", "dropOld"} :
            /\ Proceed(q, pc)
            /\ pc = "dropOld" <=> x.op = "upload" /\ x.old # None
      BY <1>x, <2>2, <2>10 DEF RequestWrite, Update, UpdateFails, AfterWrite, Starts, Edits
    <3> DEFINE y == [pc |-> pc, op |-> x.op, r |-> x.r, old |-> x.old]
    <3>3. req'[q] = y
      BY <2>4, <3>2
    <3>4. y.pc = pc /\ y.op = x.op /\ y.r = x.r /\ y.old = x.old
      OBVIOUS
    <3> HIDE DEF y
    <3>5. /\ NoRun /\ Running(x.r.status) /\ x.r.ref # None /\ x.old = row.ref
          /\ x.op = "upload" => x.r.ref # x.old
          /\ x.op # "upload" => x.r.ref = row.ref
      BY <2>2, <2>10, <3>1 DEF StartFits
    <3>6. RequestFits(req[q])'
      BY <1>n, <2>2, <2>10, <3>1, <3>2, <3>3, <3>4, <3>5
      DEF RequestFits, StartFits, EditFits, DeleteFits, Starts, Edits, Same
    <3>7. FilesGoal
      BY <1>3, <2>2, <2>10, <3>1, <3>2, <3>3, <3>4, <3>5 DEF FilesOf, Unlinked, Enters, Leaves, Starts
    <3>8. RowFits' /\ ReportFits'
      BY <3>1, <3>5 DEF RowFits, ReportFits, Running
    <3> QED
      BY <1>4, <1>5, <2>7, <3>1, <3>5, <3>6, <3>7, <3>8 DEF QInv
  <2>11. CASE DropOldFile(q)
    <3>1. x.pc = "dropOld" /\ Proceed(q, "enqueue") /\ files' = files \ {x.old}
          /\ UNCHANGED <<row, deleted, task>>
      BY <1>x, <2>11 DEF DropOldFile
    <3>2. /\ x.op = "upload" /\ NoRun /\ Running(x.r.status) /\ Same(x.r, row)
          /\ x.r.ref # None /\ x.r.ref # x.old
      BY <2>2, <2>3, <3>1 DEF StartFits, EditFits, DeleteFits, Starts
    <3> DEFINE y == [pc |-> "enqueue", op |-> x.op, r |-> x.r, old |-> x.old]
    <3>3. req'[q] = y
      BY <2>4, <3>1
    <3>4. y.pc = "enqueue" /\ y.op = x.op /\ y.r = x.r /\ y.old = x.old
      OBVIOUS
    <3> HIDE DEF y
    <3>5. RequestFits(req[q])'
      BY <1>n, <2>2, <3>1, <3>2, <3>3, <3>4
      DEF RequestFits, StartFits, EditFits, DeleteFits, Starts, Edits, Same
    <3>6. FilesGoal
      BY <1>3, <2>2, <3>1, <3>2, <3>3, <3>4 DEF FilesOf, Unlinked, Enters, Leaves, Same
    <3>7. RowFits' /\ ReportFits'
      BY <3>1, <3>2 DEF QInv, RowFits, ReportFits, Running, Same
    <3> QED
      BY <1>4, <1>5, <2>7, <3>1, <3>2, <3>5, <3>6, <3>7 DEF QInv
  <2>12. ASSUME Enqueue(q)
         PROVE  /\ x.pc = "enqueue" /\ x.op \in Starts /\ NoRun
                /\ Running(x.r.status) /\ Same(x.r, row) /\ x.r.ref # None
                /\ UNCHANGED <<row, deleted, files, clauses, issues>>
                /\ files = {row.ref} \ {None}
                /\ RowFits' /\ ReportFits'
    <3>1. x.pc = "enqueue" /\ UNCHANGED <<row, deleted, files, clauses, issues>>
      BY <1>x, <2>12 DEF Enqueue
    <3>2. x.op \in Starts
      BY <2>2, <2>3, <3>1 DEF EditFits, DeleteFits
    <3>3. NoRun /\ Running(x.r.status) /\ Same(x.r, row) /\ x.r.ref # None
      BY <2>2, <3>1, <3>2 DEF StartFits
    <3>4. files = {row.ref} \ {None}
      BY <1>3, <2>2, <3>1 DEF FilesOf, Unlinked, Enters, Leaves
    <3>5. RowFits' /\ ReportFits'
      BY <3>1, <3>3 DEF QInv, RowFits, ReportFits, Running, Same
    <3> QED
      BY <3>1, <3>2, <3>3, <3>4, <3>5
  <2>13. CASE Enqueue(q) /\ task' = task
    <3>1. CASE Return(q)
      BY <1>4, <1>5, <2>2, <2>5, <2>7, <2>12, <2>13, <3>1 DEF QInv
    <3>2. CASE req' = [req EXCEPT ![q].pc = "markFailed", ![q].r.status = "failed"]
      <4> DEFINE y == [pc |-> "markFailed", op |-> x.op, r |-> [x.r EXCEPT !.status = "failed"], old |-> x.old]
      <4>1. req'[q] = y
        BY <1>0, <1>x, <3>2
      <4>2. y.pc = "markFailed" /\ y.op = x.op /\ y.r = [x.r EXCEPT !.status = "failed"] /\ y.old = x.old
        OBVIOUS
      <4>3. /\ y.r.status = "failed" /\ y.r.ref = x.r.ref /\ y.r.content = x.r.content
            /\ y.r.overview = x.r.overview
        BY <1>0, <4>2 DEF Rows
      <4>4. Same(y.r, [row EXCEPT !.status = "failed"])
        BY <1>0, <2>12, <2>13, <4>3 DEF Same, Rows
      <4> HIDE DEF y
      <4>5. RequestFits(req[q])'
        <5>1. x.op = "upload" => x.r.ref # x.old
          BY <2>2, <2>12, <2>13 DEF StartFits
        <5> QED
          BY <1>n, <2>2, <2>12, <2>13, <4>1, <4>2, <4>3, <4>4, <5>1
          DEF RequestFits, StartFits, EditFits, DeleteFits, Starts, Edits
      <4>6. FilesGoal
        BY <2>2, <2>12, <2>13, <4>1, <4>2 DEF FilesOf, Unlinked, Enters, Leaves
      <4> QED
        BY <1>4, <1>5, <2>7, <2>12, <2>13, <4>5, <4>6 DEF QInv
    <3> QED
      <4>1. (\E t \in scene.tasks : task[t].pc = "free" /\ task'[t].pc = "queued") => task' # task
        OBVIOUS
      <4>2. CASE \E t \in scene.tasks :
                   /\ task[t].pc = "free"
                   /\ task' = [task EXCEPT ![t] = [Free EXCEPT !.pc = "queued", !.kind = TaskKind(q)]]
        <5>1. PICK t \in scene.tasks :
                   /\ task[t].pc = "free"
                   /\ task' = [task EXCEPT ![t] = [Free EXCEPT !.pc = "queued", !.kind = TaskKind(q)]]
          BY <4>2
        <5>2. t \in Tasks
          BY SetsAssumption DEF IInv, StoreOK, AllScenes
        <5> QED
          BY <1>0, <4>1, <5>1, <5>2, <2>13 DEF Free
      <4> QED
        BY <2>13, <3>1, <3>2, <4>2 DEF Enqueue
  <2>14. CASE Enqueue(q) /\ task' # task
    <3>1. Return(q)
      BY <2>14 DEF Enqueue
    <3>2. PICK t \in scene.tasks :
            /\ task[t].pc = "free"
            /\ task' = [task EXCEPT ![t] = [Free EXCEPT !.pc = "queued", !.kind = TaskKind(q)]]
      BY <2>14 DEF Enqueue
    <3>3. t \in Tasks
      BY SetsAssumption DEF IInv, StoreOK, AllScenes
    <3>4. /\ \A u \in Tasks \ {t} : task'[u] = task[u] /\ ~ Live(task[u]) /\ ~ Works(task[u])
          /\ task'[t].pc = "queued" /\ task'[t].seq = 0
          /\ task'[t].kind = "analyze" => x.r.content # None
      BY <1>0, <1>n, <1>x, <2>12, <2>14, <3>2, <3>3 DEF Free, TaskKind
    <3>5. OneTask'
      BY <1>1, <3>4 DEF OneTask, Live
    <3>6. WorksFit'
      BY <1>1, <2>12, <2>14, <3>4
      DEF WorksFit, WorkFits, Received, Works, Live, Counting, Reviewing, Running, Work, Same
    <3>7. RunsFit'
      <4>1. \A p \in Requests : req'[p].pc = "idle"
        BY <1>1, <2>5, <3>1 DEF Idle
      <4> QED
        BY <2>12, <2>14, <3>4, <4>1 DEF RunsFit, RunFits, InRun, Received, Works, Same
    <3> QED
      BY <1>4, <1>5, <2>2, <2>5, <2>12, <2>14, <3>1, <3>5, <3>6, <3>7 DEF QInv
  <2>15. CASE MarkFailed(q)
    <3>1. x.pc = "markFailed" /\ Return(q) /\ row' = x.r /\ UNCHANGED <<deleted, files, task>>
      BY <1>x, <2>2, <2>15 DEF MarkFailed, TryUpdate, Update, UpdateFails
    <3>2. NoRun /\ x.r.ref # None /\ x.r.ref = row.ref /\ x.r.status = "failed"
      BY <1>0, <2>2, <2>3, <3>1 DEF StartFits, EditFits, DeleteFits, Same, Rows
    <3>3. FilesGoal
      BY <1>3, <2>2, <2>5, <3>1, <3>2 DEF FilesOf, Unlinked, Enters, Leaves
    <3>4. RowFits' /\ ReportFits'
      BY <3>1, <3>2 DEF RowFits, ReportFits
    <3> QED
      BY <1>4, <1>5, <2>5, <2>7, <3>1, <3>2, <3>3, <3>4 DEF QInv
  <2>16. CASE DeleteFile(q)
    <3>1. x.pc = "unlink" /\ Proceed(q, "remove") /\ files' = files \ {x.r.ref}
          /\ UNCHANGED <<row, deleted, clauses, issues, task>>
      BY <1>x, <2>16 DEF DeleteFile
    <3>2. x.op = "delete" /\ x.r.ref = row.ref
      BY <2>2, <2>3, <3>1 DEF StartFits, EditFits, DeleteFits
    <3> DEFINE y == [pc |-> "remove", op |-> x.op, r |-> x.r, old |-> x.old]
    <3>3. req'[q] = y
      BY <2>4, <3>1
    <3>4. y.pc = "remove" /\ y.op = x.op /\ y.r = x.r /\ y.old = x.old
      OBVIOUS
    <3> HIDE DEF y
    <3>5. RequestFits(req[q])'
      BY <2>2, <3>1, <3>2, <3>3, <3>4
      DEF RequestFits, StartFits, EditFits, DeleteFits, Starts, Edits
    <3>6. FilesGoal /\ Deleting'
      BY <1>2, <1>3, <1>x, <2>2, <3>1, <3>2, <3>3, <3>4 DEF FilesOf, Unlinked, Enters, Leaves
    <3>7. ReportFits' /\ RunsFit'
      BY <1>2, <3>1, <3>2, <3>3, <3>4, <3>6 DEF QInv, ReportFits, Reported, RunsFit
    <3> QED
      BY <1>4, <1>5, <1>7, <3>1, <3>5, <3>6, <3>7 DEF QInv
  <2>17. CASE RemoveReview(q)
    <3>1. x.pc = "remove" /\ Return(q) /\ deleted' /\ UNCHANGED <<row, files, task>>
      BY <1>x, <2>2, <2>17 DEF RemoveReview
    <3>2. x.op = "delete" /\ Unlinked(x)
      BY <2>2, <2>3, <3>1 DEF StartFits, EditFits, Unlinked
    <3>3. FilesGoal
      BY <1>3, <2>5, <3>1, <3>2 DEF FilesOf, Unlinked, Enters, Leaves
    <3>4. ReportFits' /\ RunsFit' /\ WorksFit' /\ RowFits' /\ OneTask'
      BY <1>1, <3>1 DEF QInv, ReportFits, RunsFit, WorksFit, RowFits, OneTask, Live
    <3> QED
      BY <1>4, <1>5, <2>5, <3>1, <3>3, <3>4 DEF QInv
  <2>18. RequestWrite(q) => x.op # "delete"
    BY <1>x, <2>2 DEF RequestWrite, DeleteFits
  <2> QED
    BY <1>13, <2>3, <2>8, <2>9, <2>10, <2>11, <2>13, <2>14, <2>15, <2>16, <2>17, <2>18 DEF RequestStep
<1> QED
  BY <1>1, <1>9, <1>10, <1>11, <1>12, <1>13 DEF Request, HangUp

LEMMA InitQInv == Init => QInv
BY DEF Init, QInv, OneRequest, OneTask, RequestsFit, RequestFits, RowFits, FilesFit, Deleting, Unlinked,
  Enters, Leaves, WorksFit, WorkFits, RunsFit, RunFits, ReportFits, NewRow, Idle, Free, Live, Works,
  Received, Reviewing, Counting

LEMMA SceneStays == [Next]_vars => scene' = scene
BY DEF vars, Next, Request, RequestStep, Edit, Upload, Start, Retry, Delete, RequestClear,
  RequestWrite, DropOldFile, Enqueue, MarkFailed, DeleteFile, RemoveReview, HangUp,
  WorkerStep, DocumentStep, ReviewStep, Acknowledge, Expire, DieUnacknowledged, ReceiveDocument,
  ReceiveReview, Receive, ReopenDocument, ReadDocument, RecheckDocument, SaveText,
  Fail, ClearForRerun, ReopenReview, Prepare, ReplaceClauses, MarkReviewing,
  CheckReview, ReviewClause, StoreIssue, CloseClause, SaveProgress, Summarise, Complete

LEMMA StepQInv == IInv /\ (Quiet => QInv) /\ [Next]_vars => (Quiet => QInv)'
<1> SUFFICES ASSUME IInv, Quiet => QInv, [Next]_vars, Quiet' PROVE QInv'
  OBVIOUS
<1>1. scene' = scene
  BY SceneStays
<1>2. Quiet /\ QInv
  BY <1>1 DEF Quiet, OneTab, Calm, Patient, Only
<1>3. CASE UNCHANGED vars
  BY <1>2, <1>3 DEF vars, QInv, OneRequest, OneTask, Live, WorkFits, RequestsFit, RequestFits, StartFits, EditFits,
    DeleteFits, NoRun, RowFits, FilesFit, Deleting, Clearing, WorksFit, RunsFit, ReportFits, Reported,
    OneTab, Calm, Patient, Only
<1> QED
  BY <1>2, <1>3, RequestQInv, WorkerQInv DEF Next

\* At most one task of a review is queued or running, in one tab and while
\* neither parser, model nor database fails: a run is started only when the row
\* says that none is there, and while a task exists the row says that one is.
THEOREM OneRunHolds == Spec => []OneRunAtATime
<1>1. IInv /\ (Quiet => QInv) => OneRunAtATime
  BY DEF Quiet, OneTab, QInv, OneTask, OneRunAtATime, Active, Live, Works
<1> QED
  BY <1>1, InitIInv, StepIInv, InitQInv, StepQInv, PTL DEF Spec

\* For a client that waits for the background work, and while no call of the
\* database fails, a completed review has a complete result: one run reviewed
\* every clause of the document shown, and the overview counts the issues stored.
THEOREM ReportHolds == Spec => []ReportMatchesResults
<1>1. IInv /\ (Quiet => QInv) => ReportMatchesResults
  BY DEF Quiet, QInv, ReportFits, Clearing, NoneInFlight, ReportMatchesResults
<1> QED
  BY <1>1, InitIInv, StepIInv, InitQInv, StepQInv, PTL DEF Spec

-----------------------------------------------------------------------------
(***************************************************************************)
(* The file store, for a client that waits, while the database may fail as  *)
(* well.  A request that is under way knows the document of the row, and so *)
(* does a worker; what is in the store beside that document is about to     *)
(* enter the row, or has just left it.                                      *)
(***************************************************************************)
Steady == Patient(WorkFails \union {"db"})
Whole == "db" \in scene.faults => "delete" \notin scene.ops

RefFits(x) ==
  x.pc # "idle" =>
    /\ ~deleted /\ x.op \in scene.ops
    /\ x.op # "delete" => NoTask
    /\ x.pc \in {"unlink", "remove"} <=> x.op = "delete"
    /\ IF Enters(x)
       THEN x.old = row.ref /\ x.r.ref # row.ref /\ x.r.ref \in saved
       ELSE x.r.ref = row.ref
    /\ Leaves(x) => x.op = "upload" /\ x.old # row.ref
RefsFit == \A q \in Requests : RefFits(req[q])

CopiesMatch == ~deleted => \A t \in Tasks : Received(task[t]) => task[t].r.ref = row.ref

FilesAtMost(x) ==
  files \subseteq (IF deleted \/ Unlinked(x) THEN {} ELSE {row.ref})
                    \union (IF Enters(x) THEN {x.r.ref} ELSE {})
                    \union (IF Leaves(x) THEN {x.old} ELSE {})
FilesAtLeast(x) ==
  /\ Enters(x) => x.r.ref \in files
  /\ Whole /\ ~deleted /\ row.ref # None /\ ~Unlinked(x) => row.ref \in files

\* What one request may have done, when it is the only one.
FilesBound ==
  \A q \in Requests :
    (\A p \in Requests \ {q} : req[p].pc = "idle") => FilesAtMost(req[q]) /\ FilesAtLeast(req[q])

FInv ==
  /\ OneRequest /\ RefsFit /\ CopiesMatch /\ FilesBound
  /\ row.ref \in saved \union {None}
  /\ Requests = {} => files = {} /\ row.ref = None

LEMMA WorkerRefs ==
  ASSUME IInv, NEW t \in Tasks, WorkerStep(t) \/ Expire(t) \/ DieUnacknowledged(t),
         Received(task[t]) => task[t].r.ref = row.ref
  PROVE  row'.ref = row.ref /\ (Received(task'[t]) => task'[t].r.ref = row.ref)
<1> DEFINE x == task[t]
           Goal == row'.ref = row.ref /\ (Received(task'[t]) => task'[t].r.ref = row.ref)
<1>0. /\ task \in [Tasks -> TaskStates] /\ x \in TaskStates /\ x.r \in Rows /\ row \in Rows
      /\ Free.pc = "free"
  BY DEF IInv, TasksOK, TaskOK, Sound, Free
<1>1. ASSUME Done(t) \/ Redeliver(t)
      PROVE  ~ Received(task'[t])
  <2> DEFINE again == [Free EXCEPT !.pc = "queued", !.kind = task[t].kind, !.tries = task[t].tries + 1]
             ends == [Free EXCEPT !.pc = "ending", !.kind = task[t].kind, !.tries = task[t].tries]
  <2>1. again.pc = "queued" /\ ends.pc = "ending"
    BY DEF Free
  <2>2. \E y \in {Free, again, ends} : task' = [task EXCEPT ![t] = y]
    BY <1>1 DEF Done, Redeliver
  <2> HIDE DEF again, ends
  <2>3. task'[t] \in {Free, again, ends}
    BY <1>0, <2>2
  <2> QED
    BY <1>0, <2>1, <2>3 DEF Received
<1>2. ASSUME \/ \E pc : task' = [task EXCEPT ![t].pc = pc]
             \/ \E pc, s : task' = [task EXCEPT ![t].pc = pc, ![t].r.status = s]
             \/ \E pc, n : task' = [task EXCEPT ![t].pc = pc, ![t].r.overview = n]
             \/ \E n : task' = [task EXCEPT ![t].found = n]
             \/ \E n, s, pc : task' = [task EXCEPT ![t].found = n, ![t].seq = s, ![t].pc = pc]
      PROVE  task'[t].r.ref = x.r.ref
  <2>1. CASE \E pc : task' = [task EXCEPT ![t].pc = pc]
    BY <1>0, <2>1 DEF TaskStates
  <2>2. CASE \E pc, s : task' = [task EXCEPT ![t].pc = pc, ![t].r.status = s]
    BY <1>0, <2>2 DEF TaskStates, Rows
  <2>3. CASE \E pc, n : task' = [task EXCEPT ![t].pc = pc, ![t].r.overview = n]
    BY <1>0, <2>3 DEF TaskStates, Rows
  <2>4. CASE \E n : task' = [task EXCEPT ![t].found = n]
    BY <1>0, <2>4 DEF TaskStates
  <2>5. CASE \E n, s, pc : task' = [task EXCEPT ![t].found = n, ![t].seq = s, ![t].pc = pc]
    BY <1>0, <2>5 DEF TaskStates
  <2> QED
    BY <1>2, <2>1, <2>2, <2>3, <2>4, <2>5
\* The row is left alone, or the worker's copy is written to it.
<1>3. ASSUME Received(x),
             \/ row' = row \/ row' = x.r
             \/ \E s : row' = [x.r EXCEPT !.status = s]
             \/ \E s, c : row' = [x.r EXCEPT !.status = s, !.content = c]
      PROVE  row'.ref = row.ref
  BY <1>0, <1>3 DEF Rows
<1>4. ASSUME row' = row, Done(t) \/ Redeliver(t) PROVE Goal
  BY <1>1, <1>4
<1> USE DEF At, Goto, Update, UpdateFails, TryUpdate
<1>5. CASE ReceiveDocument(t) \/ ReceiveReview(t)
  <2>1. row' = row
    BY <1>5 DEF ReceiveDocument, ReceiveReview, Receive
  <2>2. CASE Done(t) \/ Redeliver(t)
    BY <1>4, <2>1, <2>2
  <2>3. CASE \E pc : task' = [task EXCEPT ![t].r = row, ![t].pc = pc]
    BY <1>0, <2>1, <2>3 DEF TaskStates
  <2> QED
    BY <1>5, <2>2, <2>3 DEF ReceiveDocument, ReceiveReview, Receive
<1>6. CASE Acknowledge(t) \/ Expire(t) \/ DieUnacknowledged(t)
  BY <1>0, <1>4, <1>6 DEF Acknowledge, Expire, DieUnacknowledged, Received
<1>7. CASE Fail(t)
  <2>1. Received(x) /\ (row' = row \/ row' = [x.r EXCEPT !.status = "failed"]) /\ Redeliver(t)
    BY <1>7 DEF Fail, Failed, Received
  <2> QED
    BY <1>1, <1>3, <2>1
<1>8. CASE SaveText(t)
  <2>1. /\ Done(t) \/ Redeliver(t)
        /\ row' = row \/ row' = [x.r EXCEPT !.status = "ready", !.content = x.r.ref]
    BY <1>8 DEF SaveText, Received
  <2>2. Received(x)
    BY <1>8 DEF SaveText, Received
  <2> QED
    BY <1>1, <1>3, <2>1, <2>2
<1>9. CASE Complete(t)
  <2>1. /\ Received(x) /\ (Done(t) \/ Redeliver(t))
        /\ row' = row \/ row' = [x.r EXCEPT !.status = "completed"]
    BY <1>9 DEF Complete, Received
  <2> QED
    BY <1>1, <1>3, <2>1
<1>10. CASE ReopenDocument(t)
  <2>1. Received(x) /\ (row' = row \/ row' = [x.r EXCEPT !.status = "uploading"])
    BY <1>10 DEF ReopenDocument, Received
  <2> QED
    BY <1>2, <1>3, <1>10, <2>1 DEF ReopenDocument
<1>11. CASE ReopenReview(t)
  <2>1. Received(x) /\ (row' = row \/ row' = [x.r EXCEPT !.status = "analyzing"])
    BY <1>11 DEF ReopenReview, Received
  <2>2. row'.ref = row.ref
    BY <1>3, <2>1
  <2>3. CASE task' = [task EXCEPT ![t].pc = "prepare", ![t].r.status = "analyzing"]
    BY <1>2, <2>1, <2>2, <2>3
  <2>4. CASE Redeliver(t)
    BY <1>1, <2>2, <2>4
  <2> QED
    BY <1>11, <2>3, <2>4 DEF ReopenReview
<1>12. CASE MarkReviewing(t)
  <2>1. Received(x) /\ (row' = row \/ row' = [x.r EXCEPT !.status = "reviewing_clauses"])
    BY <1>12 DEF MarkReviewing, Received
  <2>2. row'.ref = row.ref
    BY <1>3, <2>1
  <2>3. CASE task' = [task EXCEPT ![t].pc = "check", ![t].r.status = "reviewing_clauses"]
    BY <1>2, <2>1, <2>2, <2>3
  <2>4. CASE Redeliver(t)
    BY <1>1, <2>2, <2>4
  <2> QED
    BY <1>12, <2>3, <2>4 DEF MarkReviewing
<1>13. CASE SaveProgress(t)
  <2>1. Received(x) /\ (row' = row \/ row' = x.r)
    BY <1>13 DEF SaveProgress, Received
  <2> QED
    BY <1>2, <1>3, <1>13, <2>1 DEF SaveProgress
<1>14. ASSUME Received(x), row' = row, task'[t].r.ref = x.r.ref PROVE Goal
  BY <1>14
<1>15. CASE ReadDocument(t) \/ RecheckDocument(t)
  BY <1>2, <1>4, <1>14, <1>15 DEF ReadDocument, RecheckDocument, Received
<1>16. CASE ClearForRerun(t) \/ Prepare(t) \/ ReplaceClauses(t)
  BY <1>2, <1>4, <1>14, <1>16 DEF ClearForRerun, Prepare, ReplaceClauses, Received
<1>17. CASE CheckReview(t) \/ ReviewClause(t)
  BY <1>2, <1>4, <1>14, <1>17 DEF CheckReview, ReviewClause, Received
<1>18. CASE StoreIssue(t) \/ CloseClause(t)
  BY <1>2, <1>14, <1>18 DEF StoreIssue, CloseClause, Received
<1>19. CASE Summarise(t)
  <2>1. Received(x) /\ row' = row
    BY <1>19 DEF Summarise, Received
  <2>2. CASE task' = [task EXCEPT ![t].pc = "complete", ![t].r.overview = Cardinality(issues)]
    BY <1>2, <1>14, <2>1, <2>2
  <2> QED
    BY <1>4, <1>19, <2>1, <2>2 DEF Summarise
<1> QED
  BY <1>5, <1>6, <1>7, <1>8, <1>9, <1>10, <1>11, <1>12, <1>13, <1>15, <1>16, <1>17, <1>18, <1>19
  DEF WorkerStep, DocumentStep, ReviewStep

\* The database fails or not: what a request has done stays within the bound.
LEMMA WorkerFInv ==
  ASSUME IInv, FInv, NEW t \in Tasks, WorkerStep(t) \/ Expire(t) \/ DieUnacknowledged(t)
  PROVE  FInv'
<1>0. /\ UNCHANGED <<scene, deleted, files, saved, req>>
      /\ task[t].pc # "free"
      /\ \A u \in Tasks \ {t} : task'[u] = task[u]
      /\ deleted => row' = row
  BY WorkerFrame
<1>1. row'.ref = row.ref /\ CopiesMatch'
  <2>1. CASE deleted
    BY <1>0, <2>1 DEF CopiesMatch
  <2>2. CASE ~ deleted
    <3>1. row'.ref = row.ref /\ (Received(task'[t]) => task'[t].r.ref = row.ref)
      BY <2>2, WorkerRefs DEF FInv, CopiesMatch
    <3> QED
      BY <1>0, <2>2, <3>1 DEF FInv, CopiesMatch
  <2> QED
    BY <2>1, <2>2
<1>2. \A q \in Requests : req[q].pc # "idle" => req[q].op = "delete"
  BY <1>0 DEF FInv, RefsFit, RefFits, NoTask
<1>3. RefsFit'
  BY <1>0, <1>1, <1>2 DEF FInv, RefsFit, RefFits
<1>4. FilesBound' /\ OneRequest' /\ row'.ref \in saved' \union {None}
  BY <1>0, <1>1 DEF FInv, FilesBound, FilesAtMost, FilesAtLeast, Whole, OneRequest
<1> QED
  BY <1>0, <1>1, <1>3, <1>4 DEF FInv

LEMMA RequestFInv ==
  ASSUME IInv, Steady, FInv, NEW q \in Requests, Request(q)
  PROVE  FInv'
<1> DEFINE x == req[q]
<1>0. /\ x \in RequestStates /\ x.r \in Rows /\ row \in Rows
      /\ req \in [Requests -> RequestStates] /\ task \in [Tasks -> TaskStates]
      /\ files \subseteq saved /\ saved \subseteq Docs /\ None \notin Docs
      /\ scene.clients = "patient" /\ "hangup" \notin scene.faults
      /\ Idle.pc = "idle"
  BY SetsAssumption DEF IInv, RequestsOK, RequestOK, TasksOK, StoreOK, Sound, Steady, Patient, WorkFails, Only, Idle
<1>1. scene' = scene /\ \A p \in Requests \ {q} : req[p].pc = "idle" /\ req'[p] = req[p]
  BY <1>0, RequestFrame DEF FInv
<1>2. RefFits(x) /\ FilesAtMost(x) /\ FilesAtLeast(x)
  BY <1>1 DEF FInv, RefsFit, FilesBound
<1>3. ASSUME RefFits(req[q])', FilesAtMost(req[q])', FilesAtLeast(req[q])', CopiesMatch',
             row'.ref \in saved' \union {None}
      PROVE  FInv'
  <2>1. ASSUME NEW p \in Requests, \A u \in Requests \ {p} : req'[u].pc = "idle"
        PROVE  FilesAtMost(req[p])' /\ FilesAtLeast(req[p])'
    <3>1. CASE p = q
      BY <1>3, <3>1
    <3>2. CASE p # q
      <4>1. req'[q].pc = "idle" /\ req'[p].pc = "idle"
        BY <1>1, <2>1, <3>2
      <4> QED
        BY <1>3, <4>1 DEF FilesAtMost, FilesAtLeast, Unlinked, Enters, Leaves
    <3> QED
      BY <3>1, <3>2
  <2> QED
    BY <1>1, <1>3, <2>1 DEF FInv, OneRequest, RefsFit, RefFits, FilesBound
<1> HIDE DEF x
<1>x. x = req[q]
  BY DEF x
\* A request that ends.
<1>4. ASSUME Return(q)
      PROVE  /\ RefFits(req[q])'
             /\ files' \subseteq (IF deleted' THEN {} ELSE {row'.ref}) => FilesAtMost(req[q])'
             /\ ((Whole /\ ~deleted' /\ row'.ref # None => row'.ref \in files')) => FilesAtLeast(req[q])'
  <2>1. req'[q] = Idle
    BY <1>0, <1>4 DEF Return
  <2> QED
    BY <1>0, <1>1, <2>1 DEF RefFits, FilesAtMost, FilesAtLeast, Unlinked, Enters, Leaves, Whole
<1>5. ASSUME UNCHANGED <<row, deleted, task>> PROVE CopiesMatch'
  BY <1>5 DEF FInv, CopiesMatch
\* A request that begins: it loads the row when nothing else goes on.
<1>6. ASSUME NEW op \in AllOps, NEW pc \in RequestPCs \ {"idle"}, NEW r \in Rows, Load(q, op, pc, r)
      PROVE  /\ ~ deleted /\ x.pc = "idle" /\ op \in scene.ops
             /\ op # "delete" => NoTask
             /\ req'[q] = [pc |-> pc, op |-> op, r |-> r, old |-> row.ref]
             /\ files \subseteq {row.ref}
             /\ Whole /\ row.ref # None => row.ref \in files
  <2>1. ~ deleted /\ x.pc = "idle" /\ op \in scene.ops /\ (op # "delete" => NoTask)
    BY <1>0, <1>6, <1>x DEF Load, MaySend
  <2>2. req'[q] = [pc |-> pc, op |-> op, r |-> r, old |-> row.ref]
    BY <1>0, <1>6 DEF Load
  <2> QED
    BY <1>2, <2>1, <2>2 DEF FilesAtMost, FilesAtLeast, Unlinked, Enters, Leaves
\* A request that begins and keeps the document of the row.
<1>7. ASSUME NEW op \in AllOps \ {"upload"}, NEW pc \in RequestPCs \ {"idle", "dropOld"}, NEW r \in Rows,
             Load(q, op, pc, r), r.ref = row.ref, op = "delete" <=> pc \in {"unlink", "remove"},
             pc = "remove" => row.ref = None, UNCHANGED <<row, deleted, files, saved, task>>
      PROVE  FInv'
  <2> DEFINE y == [pc |-> pc, op |-> op, r |-> r, old |-> row.ref]
  <2>1. /\ ~ deleted /\ op \in scene.ops /\ (op # "delete" => NoTask) /\ req'[q] = y
        /\ files \subseteq {row.ref} /\ (Whole /\ row.ref # None => row.ref \in files)
    BY <1>6, <1>7
  <2>2. y.pc = pc /\ y.op = op /\ y.r = r /\ y.old = row.ref
    OBVIOUS
  <2> HIDE DEF y
  <2>3. RefFits(req[q])'
    BY <1>1, <1>7, <2>1, <2>2 DEF RefFits, Enters, Leaves, NoTask
  <2>4. FilesAtMost(req[q])'
    BY <1>0, <1>7, <2>1, <2>2 DEF FilesAtMost, Unlinked, Enters, Leaves
  <2>5. FilesAtLeast(req[q])'
    BY <1>1, <1>7, <2>1, <2>2 DEF FilesAtLeast, Unlinked, Enters, Whole
  <2> QED
    BY <1>3, <1>5, <1>7, <2>3, <2>4, <2>5 DEF FInv
<1>8. CASE Edit(q)
  <2>1. PICK op \in Edits : \E r \in Edited(op) : Load(q, op, "write", r)
    BY <1>8 DEF Edit
  <2>2. PICK r \in Edited(op) : Load(q, op, "write", r)
    BY <2>1
  <2>3. r \in Rows /\ r.ref = row.ref
    <3>1. \/ r = row
          \/ \E p \in Parties : r = [row EXCEPT !.party = p]
          \/ \E b \in BOOLEAN : r = [row EXCEPT !.archived = b]
      BY <2>2 DEF Edited, Edits
    <3> QED
      BY <1>0, <3>1 DEF Rows
  <2>4. UNCHANGED <<row, deleted, files, saved, task>>
    BY <1>8 DEF Edit
  <2> QED
    BY <1>7, <2>2, <2>3, <2>4 DEF AllOps, Edits, RequestPCs
<1>9. CASE Upload(q)
  <2>1. PICK d \in Docs \ saved :
          /\ Load(q, "upload", "clear", Uploaded(row, d))
          /\ files' = files \union {d} /\ saved' = saved \union {d}
    BY <1>9 DEF Upload
  <2> DEFINE r == Uploaded(row, d)
             y == [pc |-> "clear", op |-> "upload", r |-> r, old |-> row.ref]
  <2>2. r \in Rows /\ r.ref = d
    BY <1>0 DEF Uploaded, Rows, Statuses
  <2> HIDE DEF r
  <2>l. Load(q, "upload", "clear", r)
    BY <2>1 DEF r
  <2>3. /\ ~ deleted /\ "upload" \in scene.ops /\ NoTask /\ req'[q] = y
        /\ files \subseteq {row.ref} /\ (Whole /\ row.ref # None => row.ref \in files)
    BY <1>6, <2>2, <2>l DEF AllOps, Edits, RequestPCs
  <2>4. y.pc = "clear" /\ y.op = "upload" /\ y.r = r /\ y.old = row.ref
    OBVIOUS
  <2> HIDE DEF y
  <2>5. UNCHANGED <<row, deleted, task>>
    BY <1>9 DEF Upload
  \* The document is a new one: what the row shows has been saved before.
  <2>6. d # row.ref /\ d # None
    BY <1>0, <2>1 DEF FInv
  <2>7. RefFits(req[q])'
    BY <1>1, <2>1, <2>2, <2>3, <2>4, <2>5, <2>6 DEF RefFits, Enters, Leaves, NoTask
  <2>8. FilesAtMost(req[q])' /\ FilesAtLeast(req[q])'
    BY <1>1, <2>1, <2>2, <2>3, <2>4, <2>5 DEF FilesAtMost, FilesAtLeast, Unlinked, Enters, Leaves, Whole
  <2> QED
    BY <1>3, <1>5, <2>1, <2>5, <2>7, <2>8 DEF FInv

<1>10. CASE Start(q)
  <2> DEFINE r == [row EXCEPT !.status = "analyzing"]
  <2>1. r \in Rows /\ r.ref = row.ref
    BY <1>0 DEF Rows, Statuses
  <2>2. Load(q, "start", "write", r) /\ UNCHANGED <<row, deleted, files, saved, task>>
    BY <1>10 DEF Start
  <2> HIDE DEF r
  <2> QED
    BY <1>7, <2>1, <2>2 DEF AllOps, RequestPCs
<1>11. CASE Retry(q)
  <2> DEFINE r1 == [row EXCEPT !.status = "uploading"]
             r2 == [row EXCEPT !.status = "analyzing", !.overview = None]
  <2>1. r1 \in Rows /\ r1.ref = row.ref /\ r2 \in Rows /\ r2.ref = row.ref
    BY <1>0 DEF Rows, Statuses
  <2>2. /\ Load(q, "retry", "write", r1) \/ Load(q, "retry", "clear", r2)
        /\ UNCHANGED <<row, deleted, files, saved, task>>
    BY <1>11 DEF Retry
  <2> HIDE DEF r1, r2
  <2> QED
    BY <1>7, <2>1, <2>2 DEF AllOps, RequestPCs
<1>12. CASE Delete(q)
  <2>1. /\ Load(q, "delete", IF row.ref = None THEN "remove" ELSE "unlink", row)
        /\ UNCHANGED <<row, deleted, files, saved, task>>
    BY <1>12 DEF Delete
  <2> QED
    BY <1>0, <1>7, <2>1 DEF AllOps, RequestPCs
<1>13. CASE RequestStep(q)
  <2>1. x.pc # "idle"
    BY <1>x, <1>13 DEF RequestStep, RequestClear, RequestWrite, DropOldFile, Enqueue, MarkFailed,
      DeleteFile, RemoveReview
  <2>2. ~ deleted /\ x.op \in scene.ops
    BY <1>2, <2>1 DEF RefFits
  <2>3. ASSUME NEW pc, Proceed(q, pc)
        PROVE  req'[q].pc = pc /\ req'[q].op = x.op /\ req'[q].r = x.r /\ req'[q].old = x.old
    BY <1>0, <1>x, <2>3 DEF Proceed, RequestStates
  <2>4. ASSUME GiveUp(q), x.pc \in {"clear", "write"}, UNCHANGED <<row, deleted, saved, task>>
        PROVE  FInv'
    <3>1. Return(q) /\ files' = IF x.op = "upload" THEN files \ {x.r.ref} ELSE files
      BY <1>x, <2>4 DEF GiveUp
    <3>2. files' \subseteq {row.ref} /\ (Whole /\ row.ref # None => row.ref \in files')
      BY <1>2, <2>2, <2>4, <3>1 DEF RefFits, FilesAtMost, FilesAtLeast, Unlinked, Enters, Leaves
    <3>3. RefFits(req[q])' /\ FilesAtMost(req[q])' /\ FilesAtLeast(req[q])'
      BY <1>4, <2>2, <2>4, <3>1, <3>2
    <3> QED
      BY <1>3, <1>5, <2>4, <3>3 DEF FInv
  \* A request that goes on and leaves row and files alone.
  <2>5. ASSUME NEW pc, Proceed(q, pc), <<x.pc, pc>> \in {<<"clear", "write">>},
               UNCHANGED <<row, deleted, files, saved, task>>
        PROVE  FInv'
    <3>1. req'[q].pc = pc /\ req'[q].op = x.op /\ req'[q].r = x.r /\ req'[q].old = x.old
      BY <2>3, <2>5
    <3>2. RefFits(req[q])' /\ FilesAtMost(req[q])' /\ FilesAtLeast(req[q])'
      BY <1>1, <1>2, <2>5, <3>1 DEF RefFits, FilesAtMost, FilesAtLeast, Unlinked, Enters, Leaves, Whole, NoTask
    <3> QED
      BY <1>3, <1>5, <2>5, <3>2 DEF FInv
  <2>6. CASE RequestClear(q)
    BY <1>x, <2>4, <2>5, <2>6 DEF RequestClear
  <2>7. CASE RequestWrite(q)
    <3>1. x.pc = "write" /\ x.op # "delete" /\ UNCHANGED <<scene, deleted, saved, task>> /\ NoTask
      BY <1>2, <1>x, <2>7 DEF RequestWrite, RefFits
    <3>2. CASE UpdateFails /\ GiveUp(q)
      BY <2>4, <3>1, <3>2 DEF UpdateFails
    <3>3. CASE Update(req[q].r) /\ AfterWrite(q) /\ UNCHANGED files
      <4>1. row' = x.r /\ row'.ref \in saved' \union {None} /\ CopiesMatch'
        BY <1>2, <1>x, <2>1, <3>1, <3>3 DEF Update, RefFits, FInv, CopiesMatch, NoTask, Received
      <4>2. CASE x.op = "upload"
        <5>1. /\ x.old = row.ref /\ x.r.ref # row.ref /\ x.r.ref \in files
              /\ files \subseteq {row.ref, x.r.ref}
          BY <1>2, <2>1, <2>2, <3>1, <4>2 DEF RefFits, FilesAtMost, FilesAtLeast, Enters, Leaves, Unlinked
        <5>2. Proceed(q, IF x.old = None THEN "enqueue" ELSE "dropOld")
          BY <1>x, <3>3, <4>2 DEF AfterWrite, Edits
        <5> DEFINE pc == IF x.old = None THEN "enqueue" ELSE "dropOld"
        <5>3. req'[q].pc = pc /\ req'[q].op = x.op /\ req'[q].r = x.r /\ req'[q].old = x.old
          BY <2>3, <5>2
        <5>4. pc \in {"enqueue", "dropOld"} /\ (pc = "dropOld" <=> x.old # None)
          OBVIOUS
        <5> HIDE DEF pc
        <5>5. RefFits(req[q])'
          BY <1>1, <2>2, <3>1, <4>1, <4>2, <5>1, <5>3, <5>4 DEF RefFits, Enters, Leaves, NoTask
        <5>6. FilesAtMost(req[q])' /\ FilesAtLeast(req[q])'
          BY <1>0, <2>2, <3>1, <3>3, <4>1, <4>2, <5>1, <5>3, <5>4
          DEF FilesAtMost, FilesAtLeast, Enters, Leaves, Unlinked
        <5> QED
          BY <1>3, <4>1, <5>5, <5>6
      <4>3. CASE x.op # "upload"
        <5>1. /\ row'.ref = row.ref
              /\ files \subseteq {row.ref} /\ (Whole /\ row.ref # None => row.ref \in files)
          BY <1>2, <2>1, <2>2, <3>1, <4>1, <4>3
          DEF RefFits, FilesAtMost, FilesAtLeast, Enters, Leaves, Unlinked
        <5>2. CASE Return(q)
          BY <1>3, <1>4, <2>2, <3>1, <3>3, <4>1, <5>1, <5>2
        <5>3. CASE Proceed(q, "enqueue")
          <6>1. req'[q].pc = "enqueue" /\ req'[q].op = x.op /\ req'[q].r = x.r /\ req'[q].old = x.old
            BY <2>3, <5>3
          <6>2. RefFits(req[q])'
            BY <1>1, <2>2, <3>1, <4>1, <4>3, <6>1 DEF RefFits, Enters, Leaves, NoTask
          <6>3. FilesAtMost(req[q])' /\ FilesAtLeast(req[q])'
            BY <1>1, <2>2, <3>1, <3>3, <4>3, <5>1, <6>1
            DEF FilesAtMost, FilesAtLeast, Enters, Leaves, Unlinked, Whole
          <6> QED
            BY <1>3, <4>1, <6>2, <6>3
        <5> QED
          BY <1>x, <3>3, <4>3, <5>2, <5>3 DEF AfterWrite
      <4> QED
        BY <4>2, <4>3
    <3> QED
      BY <2>7, <3>2, <3>3 DEF RequestWrite
  <2>8. CASE DropOldFile(q)
    <3>1. /\ x.pc = "dropOld" /\ files' = files \ {x.old} /\ Proceed(q, "enqueue")
          /\ UNCHANGED <<row, deleted, saved, task>>
      BY <1>x, <2>8 DEF DropOldFile
    <3>2. req'[q].pc = "enqueue" /\ req'[q].op = x.op /\ req'[q].r = x.r /\ req'[q].old = x.old
      BY <2>3, <3>1
    <3>3. x.op = "upload" /\ x.old # row.ref /\ x.r.ref = row.ref
      BY <1>2, <2>1, <3>1 DEF RefFits, Enters, Leaves
    <3>4. RefFits(req[q])'
      BY <1>1, <1>2, <2>1, <2>2, <3>1, <3>2, <3>3 DEF RefFits, Enters, Leaves, NoTask
    <3>5. FilesAtMost(req[q])' /\ FilesAtLeast(req[q])'
      BY <1>1, <1>2, <2>2, <3>1, <3>2, <3>3 DEF FilesAtMost, FilesAtLeast, Enters, Leaves, Unlinked, Whole
    <3> QED
      BY <1>3, <1>5, <3>1, <3>4, <3>5 DEF FInv
  <2>9. CASE Enqueue(q)
    <3>1. x.pc = "enqueue" /\ UNCHANGED <<row, deleted, files, saved>> /\ x.op # "delete" /\ NoTask
      BY <1>2, <1>x, <2>9 DEF Enqueue, RefFits
    <3>2. files \subseteq {row.ref} /\ (Whole /\ row.ref # None => row.ref \in files)
      BY <1>2, <2>2, <3>1 DEF FilesAtMost, FilesAtLeast, Enters, Leaves, Unlinked
    <3>3. \A t \in Tasks : Received(task'[t]) => FALSE
      <4>1. CASE task' = task
        BY <3>1, <4>1 DEF NoTask, Received
      <4>2. CASE \E t \in scene.tasks :
                   task' = [task EXCEPT ![t] = [Free EXCEPT !.pc = "queued", !.kind = TaskKind(q)]]
        <5> DEFINE y == [Free EXCEPT !.pc = "queued", !.kind = TaskKind(q)]
        <5>1. y.pc = "queued"
          BY DEF Free
        <5>2. PICK t \in scene.tasks : task' = [task EXCEPT ![t] = y]
          BY <4>2
        <5> HIDE DEF y
        <5> QED
          BY <1>0, <3>1, <5>1, <5>2 DEF NoTask, Received
      <4> QED
        BY <2>9, <4>1, <4>2 DEF Enqueue
    <3>4. CopiesMatch'
      BY <3>3 DEF CopiesMatch
    <3>5. CASE Return(q)
      BY <1>3, <1>4, <2>2, <3>1, <3>2, <3>4, <3>5 DEF FInv
    <3>6. CASE /\ req' = [req EXCEPT ![q].pc = "markFailed", ![q].r.status = "failed"]
               /\ task' = task
      <4>1. /\ req'[q].pc = "markFailed" /\ req'[q].op = x.op /\ req'[q].old = x.old
            /\ req'[q].r.ref = x.r.ref
        BY <1>0, <1>x, <3>6 DEF RequestStates, Rows
      <4>2. RefFits(req[q])'
        BY <1>1, <1>2, <2>1, <2>2, <3>1, <3>6, <4>1 DEF RefFits, Enters, Leaves, NoTask
      <4>3. FilesAtMost(req[q])' /\ FilesAtLeast(req[q])'
        BY <1>1, <2>2, <3>1, <3>2, <4>1 DEF FilesAtMost, FilesAtLeast, Enters, Leaves, Unlinked, Whole
      <4> QED
        BY <1>3, <3>1, <3>4, <4>2, <4>3 DEF FInv
    <3> QED
      BY <2>9, <3>5, <3>6 DEF Enqueue
  <2>10. CASE MarkFailed(q)
    <3>1. /\ x.pc = "markFailed" /\ Return(q) /\ UNCHANGED <<scene, deleted, files, saved, task>>
          /\ row' = x.r \/ row' = row
      BY <1>x, <2>10 DEF MarkFailed, TryUpdate, Update, UpdateFails
    <3>2. row'.ref = row.ref
      BY <1>2, <3>1 DEF RefFits, Enters
    <3>3. files \subseteq {row.ref} /\ (Whole /\ row.ref # None => row.ref \in files)
      BY <1>2, <2>2, <3>1 DEF RefFits, FilesAtMost, FilesAtLeast, Enters, Leaves, Unlinked
    <3>4. CopiesMatch'
      BY <3>1, <3>2 DEF FInv, CopiesMatch
    <3> QED
      BY <1>3, <1>4, <2>2, <3>1, <3>2, <3>3, <3>4 DEF FInv
  <2>11. CASE DeleteFile(q)
    <3>1. /\ x.pc = "unlink" /\ files' = files \ {x.r.ref} /\ Proceed(q, "remove")
          /\ UNCHANGED <<row, deleted, saved, task>>
      BY <1>x, <2>11 DEF DeleteFile
    <3>2. req'[q].pc = "remove" /\ req'[q].op = x.op /\ req'[q].r = x.r /\ req'[q].old = x.old
      BY <2>3, <3>1
    <3>3. x.op = "delete" /\ x.r.ref = row.ref
      BY <1>2, <2>1, <3>1 DEF RefFits, Enters
    <3>4. RefFits(req[q])'
      BY <1>1, <2>2, <3>1, <3>2, <3>3 DEF RefFits, Enters, Leaves
    <3>5. FilesAtMost(req[q])' /\ FilesAtLeast(req[q])'
      BY <1>2, <2>2, <3>1, <3>2, <3>3 DEF FilesAtMost, FilesAtLeast, Enters, Leaves, Unlinked
    <3> QED
      BY <1>3, <1>5, <3>1, <3>4, <3>5 DEF FInv
  <2>12. CASE RemoveReview(q)
    <3>1. x.pc = "remove" /\ Return(q) /\ UNCHANGED <<row, files, saved, task>>
      BY <1>x, <2>12 DEF RemoveReview
    <3>2. x.op = "delete" /\ files = {}
      BY <1>2, <2>1, <2>2, <3>1 DEF RefFits, FilesAtMost, Enters, Leaves, Unlinked
    <3>3. deleted' \/ ("db" \in scene.faults /\ deleted' = deleted)
      BY <2>2, <2>12 DEF RemoveReview, DbFails
    <3>4. deleted' \/ ~ Whole
      BY <2>2, <3>2, <3>3 DEF Whole
    <3>5. CopiesMatch'
      BY <2>2, <3>1, <3>3 DEF FInv, CopiesMatch
    <3> QED
      BY <1>3, <1>4, <3>1, <3>2, <3>4, <3>5 DEF FInv
  <2> QED
    BY <1>13, <2>6, <2>7, <2>8, <2>9, <2>10, <2>11, <2>12 DEF RequestStep
<1> QED
  BY <1>0, <1>8, <1>9, <1>10, <1>11, <1>12, <1>13 DEF Request, HangUp

LEMMA InitFInv == Init => FInv
BY DEF Init, FInv, OneRequest, RefsFit, RefFits, CopiesMatch, Received, FilesBound, FilesAtMost, FilesAtLeast,
       Unlinked, Enters, Leaves, NewRow, Idle, Free

LEMMA StepFInv ==
  IInv /\ (Steady => FInv) /\ [Next]_vars => (Steady => FInv)'
<1> SUFFICES ASSUME IInv, Steady => FInv, [Next]_vars, Steady' PROVE FInv'
  OBVIOUS
<1>1. Steady /\ FInv
  BY SceneStays DEF Steady, Patient, Only
<1>2. CASE UNCHANGED vars
  BY <1>1, <1>2 DEF vars, FInv, OneRequest, RefsFit, RefFits, CopiesMatch, FilesBound, FilesAtMost,
    FilesAtLeast, Whole, NoTask
<1> QED
  BY <1>1, <1>2, WorkerFInv, RequestFInv DEF Next

\* The file store keeps nothing but the document of the review, and keeps that
\* one, for a client that waits: an upload that replaces a document, one whose
\* row or results could not be stored and a delete each clean up after them.
THEOREM FilesHold == Spec => []FilesMatchReview
<1>1. IInv /\ (Steady => FInv) => FilesMatchReview
  <2> SUFFICES ASSUME IInv, Steady => FInv, Steady, NoneInFlight
               PROVE  /\ files \subseteq IF deleted THEN {} ELSE {row.ref}
                      /\ ~deleted /\ row.ref # None /\ Whole => row.ref \in files
    BY DEF FilesMatchReview, Steady, Whole
  <2>1. CASE Requests = {}
    BY <2>1 DEF FInv
  <2>2. CASE Requests # {}
    <3>1. PICK q \in Requests : TRUE
      BY <2>2
    <3>2. req[q].pc = "idle" /\ FilesAtMost(req[q]) /\ FilesAtLeast(req[q])
      BY DEF NoneInFlight, FInv, FilesBound
    <3> QED
      BY <3>2 DEF FilesAtMost, FilesAtLeast, Unlinked, Enters, Leaves, RequestsOK, RequestOK, IInv
  <2> QED
    BY <2>1, <2>2
<1> QED
  BY <1>1, InitIInv, StepIInv, InitFInv, StepFInv, PTL DEF Spec

-----------------------------------------------------------------------------
(***************************************************************************)
(* The life cycle a patient client is promised.  A request knows the state  *)
(* the row was in when it loaded it, and a worker's copy of the row is the  *)
(* row, so every write of either is a step of the life cycle.               *)
(***************************************************************************)
LoadFits(x) ==
  /\ x.pc \in {"clear", "write"} =>
       /\ x.op = "upload" =>
            /\ row.status \in {"draft", "ready", "failed"}
            /\ x.r.status = "uploading" /\ x.r.content = None
       /\ x.op = "start" => row.status = "ready" /\ x.r.status = "analyzing"
       /\ x.op = "retry" =>
            /\ CanRetry(row.status)
            /\ x.r.status = IF row.content = None THEN "uploading" ELSE "analyzing"
  /\ x.pc = "markFailed" => Running(row.status)

CopyFits(x, r) ==
  x.pc # "free" =>
    /\ \/ x.kind = IF r.content = None THEN "parse" ELSE "analyze"
       \/ ~Received(x) /\ r.status \in {"ready", "completed"}
    /\ Received(x) => x.r.status = r.status /\ x.r.content = r.content
    /\ x.pc \in {"clear", "reopen"} => r.status = "failed"
    /\ x.pc \in {"read", "recheck", "saveText"} => r.status = "uploading"
    /\ x.pc \in {"prepare", "replace", "mark"} => r.status \in {"analyzing", "reviewing_clauses"}
    /\ x.pc \in Counting \union {"summarise", "complete"} => r.status = "reviewing_clauses"
    /\ x.pc = "fail" => Running(r.status)

LoadsFit == \A q \in Requests : LoadFits(req[q])
CopiesFit == ~deleted => \A t \in Tasks : CopyFits(task[t], row)

\* A step of the life cycle, but for the report, from stage s and row r.
Moves(s, r, s2, r2) ==
  \/ s2 = s /\ r2.ref = r.ref /\ r2.content = r.content
  \/ s \in {"draft", "ready", "failed"} /\ s2 = "uploading" /\ r2.ref \in Docs /\ r2.content = None
  \/ s = "uploading" /\ s2 = "ready" /\ r2.ref = r.ref /\ r2.content = r.ref
  \/ /\ r2.ref = r.ref /\ r2.content = r.content
     /\ \/ s = "ready" /\ s2 = "analyzing"
        \/ s = "analyzing" /\ s2 = "reviewing_clauses"
        \/ s = "reviewing_clauses" /\ s2 = "completed"
        \/ Running(s) /\ s2 = "failed"
        \/ s = "failed" /\ r.content = None /\ s2 = "uploading"
        \/ s \in {"failed", "completed"} /\ r.content # None /\ s2 = "analyzing"
        \/ s # "deleted" /\ s2 = "deleted"

\* The report is what the stage says it is, so the stage and the row decide.
LEMMA MovesImplement ==
  ASSUME IInv, QInv, IInv', QInv', Moves(Stage, row, Stage', row')
  PROVE  [Lifecycle!Next]_(Lifecycle!vars)
<1>1. Report = IF Stage = "completed" THEN row.content ELSE None
  BY DEF Report, Stage, Withdrawn, QInv, ReportFits, Clearing, IInv, Sound
<1>2. Report' = IF Stage' = "completed" THEN row'.content ELSE None
  BY DEF Report, Stage, Withdrawn, QInv, ReportFits, Clearing, IInv, Sound
<1>3. ASSUME NEW s, NEW s2, NEW r, NEW r2, s = Stage, s2 = Stage', r = Report, r2 = Report'
      PROVE  [Lifecycle!Next]_(Lifecycle!vars)
  BY <1>1, <1>2, <1>3
  DEF Moves, Running, Lifecycle!Next, Lifecycle!Submit, Lifecycle!Parse, Lifecycle!Begin,
    Lifecycle!Review, Lifecycle!Finish, Lifecycle!GiveUp, Lifecycle!Again, Lifecycle!Remove,
    Lifecycle!InProgress, Lifecycle!vars
<1> QED
  BY <1>3

\* A client that waits does so until the last task is acknowledged.
LEMMA CalmWaits ==
  ASSUME Calm
  PROVE  (NoRun <=> \A t \in Tasks : task[t].pc = "free") /\ \A x : Live(x) <=> x.pc # "free"
BY DEF NoRun, Live, Works

LEMMA WorkerMoves ==
  ASSUME IInv, Calm, QInv, LoadsFit, CopiesFit, NEW t \in Tasks, WorkerStep(t) \/ Expire(t) \/ DieUnacknowledged(t)
  PROVE  LoadsFit' /\ CopiesFit' /\ Moves(Stage, row, Stage', row')
<1> DEFINE x == task[t]
<1>0. /\ x \in TaskStates /\ x.r \in Rows /\ row \in Rows /\ Sound(x.r) /\ Sound(row)
      /\ x.pc \in TaskPCs
      /\ task \in [Tasks -> TaskStates]
  BY DEF IInv, TasksOK, TaskOK, Sound, TaskStates, TaskPCs
<1>1. /\ UNCHANGED <<scene, deleted, files, saved, req>>
      /\ x.pc # "free"
      /\ \A u \in Tasks \ {t} : task'[u] = task[u]
      /\ deleted => row' = row
  BY WorkerFrame
<1>2. CASE deleted
  <2>1. LoadsFit' /\ CopiesFit'
    BY <1>1, <1>2 DEF LoadsFit, LoadFits, CopiesFit
  <2>2. Stage = "deleted" /\ Stage' = "deleted"
    BY <1>1, <1>2 DEF Stage
  <2> QED
    BY <1>1, <1>2, <2>1, <2>2 DEF Moves
<1>3. CASE ~ deleted
  <2> DEFINE Goal == CopyFits(task'[t], row') /\ Moves(row.status, row, row'.status, row')
  <2>1. \A q \in Requests : req[q].pc = "idle" \/ req[q].op = "delete"
    BY <1>1, CalmWaits DEF QInv, RequestsFit, RequestFits, StartFits, EditFits, Starts, AllOps
  <2>2. /\ \A q \in Requests : ~ (req[q].op = "retry" /\ req[q].pc = "write")
        /\ \A q \in Requests : req[q].pc \notin {"idle"} => req[q].pc \in {"unlink", "remove"}
    BY <2>1 DEF QInv, RequestsFit, RequestFits, DeleteFits
  <2>3. Stage = row.status /\ Stage' = row'.status
    BY <1>1, <1>3, <2>2 DEF Stage, Withdrawn
  <2>4. LoadsFit'
    BY <1>1, <2>2 DEF LoadsFit, LoadFits
  <2>5. Goal => CopiesFit'
    BY <1>1, CalmWaits DEF CopiesFit, QInv, OneTask, CopyFits, Received, Counting
  <2> SUFFICES Goal
    BY <2>3, <2>4, <2>5
  <2>6. CopyFits(x, row) /\ ~ DbFails /\ "db" \notin scene.faults
        /\ (Received(x) => x.r.ref = row.ref)
    BY <1>1, <1>3, QuietFaults, CalmWaits DEF CopiesFit, DbFails, Quiet, QInv, WorksFit, WorkFits
  <2> HIDE DEF x
  <2>p. x = task[t]
    BY DEF x
  <2>s. ASSUME NEW y, task' = [task EXCEPT ![t] = y]
        PROVE  task'[t] = y
    BY <1>0, <2>s
  <2>g. ASSUME NEW pc, Goto(t, pc)
        PROVE  task'[t].pc = pc /\ task'[t].r = x.r /\ task'[t].kind = x.kind
    BY <1>0, <2>g, <2>p DEF TaskStates, Goto
  <2>c. ASSUME NEW pc, NEW status, task' = [task EXCEPT ![t].pc = pc, ![t].r.status = status]
        PROVE  /\ task'[t].pc = pc /\ task'[t].kind = x.kind
               /\ task'[t].r.status = status /\ task'[t].r.content = x.r.content
    BY <1>0, <2>c, <2>p DEF TaskStates, Rows
  <2>u. ASSUME NEW r, TryUpdate(r)
        PROVE  row' = r
    BY <2>6, <2>u DEF TryUpdate, Update, UpdateFails
  \* The task goes back to the queue or leaves it.
  <2>d. ASSUME Done(t) \/ Redeliver(t)
        PROVE  task'[t].pc = "free" \/ (task'[t].pc \in {"queued", "ending"} /\ task'[t].kind = x.kind)
    <3> DEFINE again == [Free EXCEPT !.pc = "queued", !.kind = x.kind, !.tries = x.tries + 1]
           ends == [Free EXCEPT !.pc = "ending", !.kind = x.kind, !.tries = x.tries]
    <3>1. /\ Free.pc = "free" /\ again.pc = "queued" /\ again.kind = x.kind
          /\ ends.pc = "ending" /\ ends.kind = x.kind
      BY DEF Free
    <3>2. \E y \in {Free, again, ends} : task' = [task EXCEPT ![t] = y]
      BY <2>d, <2>p DEF Done, Redeliver
    <3> HIDE DEF again, ends
    <3>3. task'[t] \in {Free, again, ends}
      BY <2>s, <3>2
    <3> QED
      BY <3>1, <3>3
  <2>e. ASSUME Done(t) \/ Redeliver(t), row' = row
        PROVE  Goal
    BY <1>1, <2>d, <2>e, <2>p, <2>6 DEF CopyFits, Received, Counting, Moves
  <2>t. ASSUME Done(t)
        PROVE  task'[t].pc \in {"free", "ending"} /\ task'[t].kind \in {x.kind, None}
    <3> DEFINE ends == [Free EXCEPT !.pc = "ending", !.kind = x.kind, !.tries = x.tries]
    <3>1. ends.pc = "ending" /\ ends.kind = x.kind
      BY DEF Free
    <3>2. task' = [task EXCEPT ![t] = ends]
      BY <2>p, <2>t DEF Done
    <3> HIDE DEF ends
    <3> QED
      BY <2>s, <3>1, <3>2
  <2> USE DEF CopyFits, Received, Counting, Moves, Running
  <2>7. CASE ReceiveDocument(t)
    <3>1. row' = row /\ x.pc = "queued" /\ x.kind = "parse"
      BY <2>7, <2>p DEF ReceiveDocument, Receive, At
    <3>2. CASE Done(t) \/ Redeliver(t)
      BY <2>e, <3>1, <3>2
    <3>3. CASE /\ row.status = "uploading" \/ (row.status = "failed" /\ row.content = None)
               /\ task' = [task EXCEPT ![t].r = row,
                             ![t].pc = IF row.status = "failed" THEN "reopen" ELSE "read"]
      <4>1. /\ task'[t].pc = (IF row.status = "failed" THEN "reopen" ELSE "read")
            /\ task'[t].r = row /\ task'[t].kind = x.kind
        BY <1>0, <2>p, <3>3 DEF TaskStates
      <4> QED
        BY <1>1, <2>p, <2>6, <3>1, <3>3, <4>1
    <3> QED
      BY <2>7, <3>2, <3>3 DEF ReceiveDocument, Receive
  <2>8. CASE ReceiveReview(t)
    <3>1. row' = row /\ x.pc = "queued" /\ x.kind = "analyze"
      BY <2>8, <2>p DEF ReceiveReview, Receive, At
    <3>2. CASE Done(t) \/ Redeliver(t)
      BY <2>e, <3>1, <3>2
    <3>3. CASE /\ row.status \in {"analyzing", "reviewing_clauses", "failed"}
               /\ task' = [task EXCEPT ![t].r = row,
                             ![t].pc = IF row.status = "failed" THEN "clear" ELSE "prepare"]
      <4>1. /\ task'[t].pc = (IF row.status = "failed" THEN "clear" ELSE "prepare")
            /\ task'[t].r = row /\ task'[t].kind = x.kind
        BY <1>0, <2>p, <3>3 DEF TaskStates
      <4> QED
        BY <1>1, <2>p, <2>6, <3>1, <3>3, <4>1
    <3> QED
      BY <2>8, <3>2, <3>3 DEF ReceiveReview, Receive
  <2>9. CASE Expire(t)
    BY <2>9, <2>e DEF Expire
  <2>21. CASE Acknowledge(t)
    <3>1. task'[t].pc = "free" /\ row' = row
      BY <2>21, <2>s DEF Acknowledge, Free
    <3> QED
      BY <2>6, <3>1
  <2>22. CASE DieUnacknowledged(t)
    BY <2>22, <2>e DEF DieUnacknowledged
  <2>10. CASE Fail(t)
    <3>1. row' = Failed(x.r) /\ x.pc = "fail"
      BY <2>10, <2>p, <2>u DEF Fail
    <3>2. row'.status = "failed" /\ row'.ref = row.ref /\ row'.content = row.content
      BY <1>0, <2>6, <3>1 DEF Failed, Rows
    <3> QED
      BY <1>1, <2>6, <2>10, <2>d, <3>1, <3>2 DEF Fail
  <2>11. CASE ReopenDocument(t)
    <3>1. /\ row' = [x.r EXCEPT !.status = "uploading"] /\ x.pc = "reopen" /\ x.kind = "parse"
          /\ task' = [task EXCEPT ![t].pc = "read", ![t].r.status = "uploading"]
      BY <2>11, <2>p, <2>u DEF ReopenDocument, At
    <3>2. row'.status = "uploading" /\ row'.ref = row.ref /\ row'.content = row.content
      BY <1>0, <2>6, <3>1 DEF Rows
    <3>3. /\ task'[t].pc = "read" /\ task'[t].kind = x.kind
          /\ task'[t].r.status = "uploading" /\ task'[t].r.content = x.r.content
      BY <2>c, <3>1
    <3> QED
      BY <2>6, <3>1, <3>2, <3>3
  <2>12. CASE ReadDocument(t) \/ RecheckDocument(t)
    <3>1. row' = row /\ x.pc \in {"read", "recheck"} /\ x.kind = "parse"
      BY <2>12, <2>p DEF ReadDocument, RecheckDocument, At
    <3>2. PICK pc \in {"recheck", "saveText", "fail"} : Goto(t, pc)
      BY <2>6, <2>12 DEF ReadDocument, RecheckDocument
    <3> QED
      BY <2>6, <2>g, <3>1, <3>2
  <2>13. CASE SaveText(t)
    <3>1. row' = [x.r EXCEPT !.status = "ready", !.content = x.r.ref] /\ Done(t)
          /\ x.pc = "saveText" /\ x.kind = "parse"
      BY <2>6, <2>13, <2>p DEF SaveText, Update, UpdateFails, At
    <3>2. row'.status = "ready" /\ row'.ref = row.ref /\ row'.content = row.ref
      BY <1>0, <2>6, <3>1 DEF Rows
    <3>3. task'[t].pc \in {"free", "ending"} /\ task'[t].kind \in {x.kind, None}
      BY <2>t, <3>1
    <3> QED
      BY <2>6, <3>1, <3>2, <3>3
  <2>14. CASE ClearForRerun(t) \/ ReplaceClauses(t) \/ Prepare(t) \/ CheckReview(t) \/ ReviewClause(t)
               \/ CloseClause(t)
    <3>1. row' = row /\ x.kind = "analyze"
      BY <2>14, <2>p DEF ClearForRerun, ReplaceClauses, Prepare, CheckReview, ReviewClause, CloseClause, At
    <3>2. \/ x.pc = "clear" /\ Goto(t, "reopen")
          \/ x.pc = "prepare" /\ (Goto(t, "replace") \/ Goto(t, "fail"))
          \/ x.pc = "replace" /\ Goto(t, "mark")
          \/ x.pc = "check" /\ Goto(t, "infer")
          \/ x.pc = "infer" /\ (Goto(t, "issues") \/ Goto(t, "fail"))
          \/ x.pc = "issues" /\ Goto(t, "progress")
      BY <2>6, <2>14, <2>p
      DEF ClearForRerun, ReplaceClauses, Prepare, CheckReview, ReviewClause, CloseClause, At
    <3>3. PICK pc : Goto(t, pc) /\ <<x.pc, pc>> \in
            {<<"clear", "reopen">>, <<"prepare", "replace">>, <<"prepare", "fail">>, <<"replace", "mark">>,
             <<"check", "infer">>, <<"infer", "issues">>, <<"infer", "fail">>, <<"issues", "progress">>}
      BY <3>2
    <3> QED
      BY <2>6, <2>g, <3>1, <3>3
  <2>15. CASE ReopenReview(t)
    <3>1. /\ row' = [x.r EXCEPT !.status = "analyzing"] /\ x.pc = "reopen" /\ x.kind = "analyze"
          /\ task' = [task EXCEPT ![t].pc = "prepare", ![t].r.status = "analyzing"]
      BY <2>6, <2>15, <2>p DEF ReopenReview, Update, UpdateFails, At
    <3>2. row'.status = "analyzing" /\ row'.ref = row.ref /\ row'.content = row.content
      BY <1>0, <2>6, <3>1 DEF Rows
    <3>3. /\ task'[t].pc = "prepare" /\ task'[t].kind = x.kind
          /\ task'[t].r.status = "analyzing" /\ task'[t].r.content = x.r.content
      BY <2>c, <3>1
    <3> QED
      BY <2>6, <3>1, <3>2, <3>3
  <2>16. CASE MarkReviewing(t)
    <3>1. /\ row' = [x.r EXCEPT !.status = "reviewing_clauses"] /\ x.pc = "mark" /\ x.kind = "analyze"
          /\ task' = [task EXCEPT ![t].pc = "check", ![t].r.status = "reviewing_clauses"]
      BY <2>6, <2>16, <2>p DEF MarkReviewing, Update, UpdateFails, At
    <3>2. row'.status = "reviewing_clauses" /\ row'.ref = row.ref /\ row'.content = row.content
      BY <1>0, <2>6, <3>1 DEF Rows
    <3>3. /\ task'[t].pc = "check" /\ task'[t].kind = x.kind
          /\ task'[t].r.status = "reviewing_clauses" /\ task'[t].r.content = x.r.content
      BY <2>c, <3>1
    <3> QED
      BY <2>6, <3>1, <3>2, <3>3
  <2>17. CASE StoreIssue(t)
    <3>1. row' = row /\ x.pc = "issues" /\ x.kind = "analyze"
      BY <2>17, <2>p DEF StoreIssue, At
    <3>2. CASE Goto(t, "fail")
      BY <2>6, <2>g, <3>1, <3>2
    <3>3. CASE task' = [task EXCEPT ![t].found = @ + 1]
      <4>1. task'[t].pc = x.pc /\ task'[t].r = x.r /\ task'[t].kind = x.kind
        BY <1>0, <2>p, <3>3 DEF TaskStates
      <4> QED
        BY <2>6, <3>1, <4>1
    <3> QED
      BY <2>17, <3>2, <3>3 DEF StoreIssue
  <2>18. CASE SaveProgress(t)
    <3>1. row' = x.r /\ x.pc = "progress" /\ x.kind = "analyze"
      BY <2>18, <2>p, <2>u DEF SaveProgress, At
    <3>2. /\ task'[t].pc \in {"summarise", "check"} /\ task'[t].r = x.r /\ task'[t].kind = x.kind
      BY <1>0, <2>18, <2>p DEF SaveProgress, TaskStates
    <3> QED
      BY <2>6, <3>1, <3>2
  <2>19. CASE Summarise(t)
    <3>1. /\ task' = [task EXCEPT ![t].pc = "complete", ![t].r.overview = Cardinality(issues)]
          /\ row' = row /\ x.pc = "summarise" /\ x.kind = "analyze"
      BY <2>6, <2>19, <2>p DEF Summarise, At
    <3>2. /\ task'[t].pc = "complete" /\ task'[t].kind = x.kind
          /\ task'[t].r.status = x.r.status /\ task'[t].r.content = x.r.content
      BY <1>0, <2>p, <3>1 DEF TaskStates, Rows
    <3> QED
      BY <2>6, <3>1, <3>2
  <2>20. CASE Complete(t)
    <3>1. /\ row' = [x.r EXCEPT !.status = "completed"] /\ Done(t)
          /\ x.pc = "complete" /\ x.kind = "analyze"
      BY <2>6, <2>20, <2>p DEF Complete, Update, UpdateFails, At
    <3>2. row'.status = "completed" /\ row'.ref = row.ref /\ row'.content = row.content
      BY <1>0, <2>6, <3>1 DEF Rows
    <3>3. task'[t].pc \in {"free", "ending"} /\ task'[t].kind \in {x.kind, None}
      BY <2>t, <3>1
    <3> QED
      BY <2>6, <3>1, <3>2, <3>3
  <2> QED
    BY <2>7, <2>8, <2>9, <2>10, <2>11, <2>12, <2>13, <2>14, <2>15, <2>16, <2>17, <2>18, <2>19, <2>20, <2>21, <2>22
    DEF WorkerStep, DocumentStep, ReviewStep
<1> QED
  BY <1>2, <1>3

LEMMA RequestMoves ==
  ASSUME IInv, Calm, QInv, LoadsFit, CopiesFit, NEW q \in Requests, Request(q)
  PROVE  LoadsFit' /\ CopiesFit' /\ Moves(Stage, row, Stage', row')
<1> DEFINE x == req[q]
           Goal == LoadsFit' /\ CopiesFit' /\ Moves(Stage, row, Stage', row')
<1>0. /\ x \in RequestStates /\ x.r \in Rows /\ row \in Rows /\ Sound(x.r) /\ Sound(row)
      /\ req \in [Requests -> RequestStates] /\ task \in [Tasks -> TaskStates]
      /\ None \notin Docs
      /\ "db" \notin scene.faults /\ "hangup" \notin scene.faults
  BY QuietFaults, SetsAssumption
  DEF IInv, RequestsOK, RequestOK, TasksOK, StoreOK, Sound, RequestStates, Quiet
<1>1. \A p \in Requests \ {q} : req[p].pc = "idle" /\ req'[p] = req[p]
  BY QuietFaults, RequestFrame DEF QInv, Quiet
<1>2. /\ Withdrawn <=> x.op = "retry" /\ x.pc = "write"
      /\ Withdrawn' <=> req'[q].op = "retry" /\ req'[q].pc = "write"
  BY <1>1 DEF Withdrawn
<1>3. LoadFits(req[q])' => LoadsFit'
  <2>1. ASSUME NEW p \in Requests \ {q} PROVE LoadFits(req[p])'
    BY <1>1, <2>1 DEF LoadFits
  <2> QED
    BY <2>1 DEF LoadsFit
<1>4. RequestFits(x) /\ LoadFits(x)
  BY DEF QInv, RequestsFit, LoadsFit
<1> HIDE DEF x
<1>x. x = req[q]
  BY DEF x
\* A request that loads the row changes nothing that the life cycle shows.
<1>5. ASSUME NEW op \in AllOps, NEW pc, NEW r, Load(q, op, pc, r),
             UNCHANGED <<row, deleted, task>>,
             ~ (op = "retry" /\ pc = "write" /\ row.content # None),
             pc \in {"clear", "write"} =>
               /\ op = "upload" =>
                    /\ row.status \in {"draft", "ready", "failed"}
                    /\ r.status = "uploading" /\ r.content = None
               /\ op = "start" => row.status = "ready" /\ r.status = "analyzing"
               /\ op = "retry" =>
                    /\ CanRetry(row.status)
                    /\ r.status = IF row.content = None THEN "uploading" ELSE "analyzing",
             pc # "markFailed"
      PROVE  Goal
  <2>1. ~ deleted /\ x.pc = "idle" /\ req'[q] = [pc |-> pc, op |-> op, r |-> r, old |-> row.ref]
    BY <1>0, <1>5, <1>x DEF Load
  <2>2. LoadFits(req[q])'
    BY <1>5, <2>1 DEF LoadFits
  <2>3. CopiesFit'
    BY <1>5 DEF CopiesFit, CopyFits
  <2>4. Stage = row.status /\ Stage' = row.status
    BY <1>2, <1>5, <2>1 DEF Stage
  <2> QED
    BY <1>3, <1>5, <2>2, <2>3, <2>4 DEF Moves
<1>6. CASE Edit(q)
  <2>1. PICK op \in Edits : \E r \in Edited(op) : Load(q, op, "write", r)
    BY <1>6 DEF Edit
  <2>2. PICK r \in Edited(op) : Load(q, op, "write", r)
    BY <2>1
  <2> QED
    BY <1>5, <1>6, <2>1, <2>2 DEF Edit, Edits, AllOps
<1>7. CASE Upload(q)
  <2>1. PICK d \in Docs \ saved : Load(q, "upload", "clear", Uploaded(row, d))
    BY <1>7 DEF Upload
  <2> DEFINE r == Uploaded(row, d)
  <2>2. r.status = "uploading" /\ r.content = None
    BY <1>0 DEF Uploaded, Rows
  <2> HIDE DEF r
  <2>3. Load(q, "upload", "clear", r)
    BY <2>1 DEF r
  <2>4. row.status \in {"draft", "ready", "failed"} /\ UNCHANGED <<row, deleted, task>>
    BY <1>7 DEF Upload, CanUpload
  <2> QED
    BY <1>5, <2>2, <2>3, <2>4 DEF AllOps
<1>8. CASE Start(q)
  <2> DEFINE r == [row EXCEPT !.status = "analyzing"]
  <2>1. r.status = "analyzing"
    BY <1>0 DEF Rows
  <2>2. Load(q, "start", "write", r) /\ row.status = "ready" /\ UNCHANGED <<row, deleted, task>>
    BY <1>8 DEF Start
  <2> HIDE DEF r
  <2> QED
    BY <1>5, <2>1, <2>2 DEF AllOps
<1>9. CASE Retry(q) /\ row.content = None
  <2> DEFINE r == [row EXCEPT !.status = "uploading"]
  <2>1. r.status = "uploading"
    BY <1>0 DEF Rows
  <2>2. Load(q, "retry", "write", r) /\ CanRetry(row.status) /\ UNCHANGED <<row, deleted, task>>
    BY <1>9 DEF Retry
  <2> HIDE DEF r
  <2> QED
    BY <1>5, <1>9, <2>1, <2>2 DEF AllOps
<1>10. CASE Retry(q) /\ row.content # None
  <2> DEFINE r == [row EXCEPT !.status = "analyzing", !.overview = None]
  <2>1. r.status = "analyzing"
    BY <1>0 DEF Rows
  <2>2. Load(q, "retry", "clear", r) /\ CanRetry(row.status) /\ UNCHANGED <<row, deleted, task>>
    BY <1>10 DEF Retry
  <2> HIDE DEF r
  <2> QED
    BY <1>5, <1>10, <2>1, <2>2 DEF AllOps
<1>11. CASE Delete(q)
  <2>1. PICK pc \in {"remove", "unlink"} : Load(q, "delete", pc, row)
    BY <1>11 DEF Delete
  <2> QED
    BY <1>5, <1>11, <2>1 DEF Delete, AllOps
<1>12. CASE RequestStep(q)
  <2>1. x.pc # "idle"
    BY <1>x, <1>12 DEF RequestStep, RequestClear, RequestWrite, DropOldFile, Enqueue, MarkFailed,
      DeleteFile, RemoveReview
  <2>2. ~ deleted /\ x.op \in AllOps /\ StartFits(x) /\ EditFits(x) /\ DeleteFits(x) /\ ~ DbFails
    BY <1>0, <1>4, <2>1 DEF RequestFits, DbFails
  <2>3. x.op \in Edits \/ x.op \in Starts \/ x.op = "delete"
    BY <2>2 DEF AllOps, Starts
  <2>4. ASSUME NEW pc, Proceed(q, pc)
        PROVE  req'[q].pc = pc /\ req'[q].op = x.op /\ req'[q].r = x.r
    BY <1>0, <1>x, <2>4 DEF Proceed, RequestStates
  <2>5. ASSUME Return(q)
        PROVE  LoadsFit' /\ ~ Withdrawn'
    <3>1. req'[q] = Idle
      BY <1>0, <2>5 DEF Return
    <3> QED
      BY <1>2, <1>3, <3>1 DEF Idle, LoadFits
  <2>6. ASSUME NoRun, UNCHANGED task
        PROVE  CopiesFit'
    BY <2>6, CalmWaits DEF CopiesFit, CopyFits
  <2>7. ASSUME UNCHANGED <<row, deleted, task>>
        PROVE  CopiesFit' /\ (~ Withdrawn /\ ~ Withdrawn' => Moves(Stage, row, Stage', row'))
    BY <2>2, <2>7 DEF CopiesFit, CopyFits, Stage, Moves
  <2>8. CASE RequestClear(q)
    <3>1. x.op \in {"upload", "retry"} /\ x.pc = "clear"
      BY <1>x, <2>2, <2>3, <2>8 DEF RequestClear, StartFits, EditFits, DeleteFits, Starts
    <3>2. Proceed(q, "write") /\ UNCHANGED <<row, deleted, task>>
      BY <2>2, <2>8 DEF RequestClear
    <3>3. req'[q].pc = "write" /\ req'[q].op = x.op /\ req'[q].r = x.r
      BY <2>4, <3>2
    <3>4. LoadsFit'
      BY <1>3, <1>4, <3>1, <3>2, <3>3 DEF LoadFits
    <3>5. CASE x.op = "upload"
      BY <1>2, <2>7, <3>2, <3>3, <3>4, <3>5
    <3>6. CASE x.op = "retry"
      <4>1. CanRetry(row.status)
        BY <1>4, <3>1, <3>6 DEF LoadFits
      <4>2. Stage = row.status /\ Stage' = IF row.content = None THEN row.status ELSE "analyzing"
        BY <1>2, <2>2, <3>1, <3>2, <3>3, <3>6 DEF Stage
      <4> QED
        BY <2>7, <3>2, <3>4, <4>1, <4>2 DEF Moves, CanRetry
    <3> QED
      BY <3>1, <3>5, <3>6
  <2>9. CASE RequestWrite(q) /\ x.op \in Edits
    <3>1. x.pc = "write" /\ Return(q) /\ row' = x.r /\ UNCHANGED <<deleted, task>>
      BY <1>x, <2>2, <2>9 DEF RequestWrite, Update, UpdateFails, AfterWrite, Edits
    <3>2. NoRun /\ Same(x.r, row)
      BY <2>2, <2>9 DEF EditFits
    <3>3. Stage = row.status /\ Stage' = row'.status
      BY <1>2, <2>2, <2>5, <2>9, <3>1 DEF Stage, Edits
    <3> QED
      BY <2>5, <2>6, <3>1, <3>2, <3>3 DEF Moves, Same
  <2>10. CASE RequestWrite(q) /\ x.op \in Starts
    <3>1. x.pc = "write" /\ row' = x.r /\ UNCHANGED <<deleted, task>>
      BY <1>x, <2>2, <2>10 DEF RequestWrite, Update, UpdateFails
    <3>2. PICK pc \in {"enqueue", "dropOld"} : Proceed(q, pc)
      BY <1>x, <2>2, <2>10 DEF RequestWrite, Update, UpdateFails, AfterWrite, Starts, Edits
    <3>3. req'[q].pc = pc /\ req'[q].op = x.op /\ req'[q].r = x.r
      BY <2>4, <3>2
    <3>4. LoadsFit'
      BY <1>3, <3>2, <3>3 DEF LoadFits
    <3>5. NoRun /\ x.r.ref \in Docs /\ (x.op # "upload" => x.r.ref = row.ref /\ x.r.content = row.content)
      BY <1>0, <2>2, <2>10, <3>1 DEF StartFits, Rows
    <3>6. Stage' = row'.status
      BY <1>2, <2>2, <3>1, <3>2, <3>3 DEF Stage
    <3>7. Moves(Stage, row, Stage', row')
      <4>1. CASE x.op = "upload"
        <5>1. Stage = row.status
          BY <1>2, <2>2, <4>1 DEF Stage
        <5> QED
          BY <1>4, <3>1, <3>5, <3>6, <4>1, <5>1 DEF LoadFits, Moves
      <4>2. CASE x.op = "start"
        <5>1. Stage = row.status
          BY <1>2, <2>2, <4>2 DEF Stage
        <5> QED
          BY <1>4, <3>1, <3>5, <3>6, <4>2, <5>1 DEF LoadFits, Moves
      <4>3. CASE x.op = "retry" /\ row.content = None
        <5>1. Stage = row.status /\ row.status = "failed"
          BY <1>0, <1>2, <1>4, <2>2, <3>1, <4>3 DEF Stage, LoadFits, CanRetry, Sound
        <5> QED
          BY <1>4, <3>1, <3>5, <3>6, <4>3, <5>1 DEF LoadFits, Moves
      <4>4. CASE x.op = "retry" /\ row.content # None
        <5>1. Stage = "analyzing"
          BY <1>2, <2>2, <3>1, <4>4 DEF Stage
        <5> QED
          BY <1>4, <3>1, <3>5, <3>6, <4>4, <5>1 DEF LoadFits, Moves
      <4> QED
        BY <2>10, <4>1, <4>2, <4>3, <4>4 DEF Starts
    <3> QED
      BY <2>6, <3>1, <3>4, <3>5, <3>7
  <2>11. CASE DropOldFile(q)
    <3>1. x.pc = "dropOld" /\ Proceed(q, "enqueue") /\ UNCHANGED <<row, deleted, task>>
      BY <1>x, <2>11 DEF DropOldFile
    <3>2. req'[q].pc = "enqueue"
      BY <2>4, <3>1
    <3> QED
      BY <1>2, <1>3, <2>7, <3>1, <3>2 DEF LoadFits
  <2>12. CASE Enqueue(q)
    <3>1. x.pc = "enqueue" /\ UNCHANGED <<row, deleted>>
      BY <1>x, <2>12 DEF Enqueue
    <3>2. x.op \in Starts /\ NoRun /\ Running(x.r.status) /\ Same(x.r, row)
      BY <2>2, <2>3, <3>1 DEF StartFits, EditFits, DeleteFits
    <3>3. CASE task' = task /\ Return(q)
      BY <1>2, <2>5, <2>7, <3>1, <3>3
    <3>4. CASE task' = task /\ req' = [req EXCEPT ![q].pc = "markFailed", ![q].r.status = "failed"]
      <4>1. req'[q].pc = "markFailed"
        BY <1>0, <3>4 DEF RequestStates
      <4>2. LoadsFit'
        BY <1>3, <3>1, <3>2, <4>1 DEF LoadFits, Same
      <4> QED
        BY <1>2, <2>7, <3>1, <3>4, <4>1, <4>2
    <3>5. CASE /\ Return(q)
               /\ \E t \in scene.tasks :
                    /\ task[t].pc = "free"
                    /\ task' = [task EXCEPT ![t] = [Free EXCEPT !.pc = "queued", !.kind = TaskKind(q)]]
      <4>1. PICK t \in scene.tasks :
              task' = [task EXCEPT ![t] = [Free EXCEPT !.pc = "queued", !.kind = TaskKind(q)]]
        BY <3>5
      <4>2. t \in Tasks
        BY SetsAssumption DEF IInv, StoreOK, AllScenes
      <4>3. /\ \A u \in Tasks \ {t} : task'[u].pc = "free"
            /\ task'[t].pc = "queued"
            /\ task'[t].kind = IF row.content = None THEN "parse" ELSE "analyze"
        BY <1>0, <1>x, <3>2, <4>1, <4>2, CalmWaits DEF Free, TaskKind, Same
      <4>4. CopiesFit'
        BY <3>1, <4>3 DEF CopiesFit, CopyFits, Received, Counting
      <4>5. Stage' = Stage
        BY <1>2, <2>2, <2>5, <3>1, <3>5 DEF Stage
      <4> QED
        BY <2>5, <3>1, <3>5, <4>4, <4>5 DEF Moves
    <3> QED
      BY <2>12, <3>3, <3>4, <3>5 DEF Enqueue
  <2>13. CASE MarkFailed(q)
    <3>1. x.pc = "markFailed" /\ Return(q) /\ row' = x.r /\ UNCHANGED <<deleted, task>>
      BY <1>x, <2>2, <2>13 DEF MarkFailed, TryUpdate, Update, UpdateFails
    <3>2. /\ NoRun /\ Running(row.status) /\ x.r.status = "failed"
          /\ x.r.ref = row.ref /\ x.r.content = row.content
      BY <1>0, <1>4, <2>2, <2>3, <3>1 DEF StartFits, EditFits, DeleteFits, LoadFits, Same, Rows
    <3>3. Stage = row.status /\ Stage' = row'.status
      BY <1>2, <2>2, <2>5, <3>1 DEF Stage
    <3> QED
      BY <2>5, <2>6, <3>1, <3>2, <3>3 DEF Moves
  <2>14. CASE DeleteFile(q)
    <3>1. x.pc = "unlink" /\ Proceed(q, "remove") /\ UNCHANGED <<row, deleted, task>>
      BY <1>x, <2>14 DEF DeleteFile
    <3>2. req'[q].pc = "remove"
      BY <2>4, <3>1
    <3> QED
      BY <1>2, <1>3, <2>7, <3>1, <3>2 DEF LoadFits
  <2>15. CASE RemoveReview(q)
    <3>1. Return(q) /\ deleted' /\ UNCHANGED <<row, task>>
      BY <2>2, <2>15 DEF RemoveReview
    <3>2. Stage' = "deleted" /\ Stage # "deleted"
      BY <1>0, <2>2, <3>1 DEF Stage, Rows, Statuses
    <3> QED
      BY <2>5, <3>1, <3>2 DEF Moves, CopiesFit
  <2>16. RequestWrite(q) => x.op # "delete"
    BY <1>x, <2>2 DEF RequestWrite, DeleteFits
  <2> QED
    BY <1>12, <2>3, <2>8, <2>9, <2>10, <2>11, <2>12, <2>13, <2>14, <2>15, <2>16 DEF RequestStep
<1> QED
  BY <1>0, <1>6, <1>7, <1>8, <1>9, <1>10, <1>11, <1>12 DEF Request, HangUp

LInv == Calm => LoadsFit /\ CopiesFit

LEMMA InitLInv == Init => LInv
BY DEF Init, LInv, LoadsFit, LoadFits, CopiesFit, CopyFits, Idle, Free

LEMMA StepLInv ==
  IInv /\ IInv' /\ (Quiet => QInv) /\ (Quiet => QInv)' /\ LInv /\ [Next]_vars
    => LInv' /\ (Calm => [Lifecycle!Next]_(Lifecycle!vars)) /\ (Calm' <=> Calm)
<1> SUFFICES ASSUME IInv, IInv', Quiet => QInv, (Quiet => QInv)', LInv, [Next]_vars
             PROVE  LInv' /\ (Calm => [Lifecycle!Next]_(Lifecycle!vars)) /\ (Calm' <=> Calm)
  OBVIOUS
<1>1. Calm' <=> Calm
  BY SceneStays DEF Calm, Patient, Only
<1>2. CASE ~ Calm
  BY <1>1, <1>2 DEF LInv
<1>3. CASE Calm
  <2>1. Calm' /\ QInv /\ QInv' /\ LoadsFit /\ CopiesFit
    BY <1>1, <1>3 DEF Quiet, LInv
  <2>2. LoadsFit' /\ CopiesFit' /\ Moves(Stage, row, Stage', row')
    <3>1. CASE UNCHANGED vars
      BY <2>1, <3>1 DEF vars, LoadsFit, LoadFits, CopiesFit, CopyFits, Moves, Stage, Withdrawn
    <3> QED
      BY <1>3, <2>1, <3>1, RequestMoves, WorkerMoves DEF Next
  <2> QED
    BY <1>1, <2>1, <2>2, MovesImplement DEF LInv
<1> QED
  BY <1>2, <1>3

\* For a client that waits for the background work, and while no call of the
\* database fails, the service as users see it takes the steps of the documented
\* life cycle and no other: every write of the row, by a request or a worker, is
\* one of them, and the report is shown exactly while the review is completed.
THEOREM LifecycleHolds == Spec /\ Calm => ImplementsLifecycle
<1>1. Init => Lifecycle!Init
  BY DEF Init, Lifecycle!Init, NewRow, Stage, Withdrawn, Report, Idle
<1> QED
  BY <1>1, InitIInv, StepIInv, InitQInv, StepQInv, InitLInv, StepLInv, PTL
  DEF Spec, ImplementsLifecycle, Lifecycle!Spec
=============================================================================
