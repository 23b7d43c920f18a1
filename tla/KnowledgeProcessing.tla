------------------------- MODULE KnowledgeProcessing -------------------------
(***************************************************************************)
(* The processing of one document of a knowledge base, from the upload to  *)
(* a searchable, enriched row: the document task (parse, chunk, index),    *)
(* the image tasks and their counter in Redis, the post-process task that  *)
(* hands the row over to the enrichment subtasks (summary, questions,      *)
(* graph), the counter those subtasks drain, the requests of users         *)
(* (cancel, delete, reparse) and the housekeeping sweep.                   *)
(*                                                                         *)
(* All of them write the same row of the table `knowledges`, some columns  *)
(* at a time (UpdateKnowledgeColumns, SetFinalizing, FinalizeSubtask),     *)
(* others the whole row they loaded earlier (UpdateKnowledge, a GORM Save  *)
(* that leaves the counter and deleted_at out).                            *)
(*                                                                         *)
(* A task runs at least once: a worker that dies ("crash") leaves its task *)
(* to the recovery of asynq, which counts it as a retry.  `setting` is     *)
(* chosen once: which faults, requests and kinds of documents a behaviour  *)
(* has.  Documents of knowledge bases with an embedding model and without  *)
(* the wiki index are modelled; errors of the database are not.            *)
(***************************************************************************)
EXTENDS Integers, FiniteSets

CONSTANTS
    Images,         \* the images stored with the document
    Subtasks,       \* the enrichment subtasks of one fan-out
    Summary,        \* the one that writes the row
    None,
    MaxRetry,       \* retries of a task after its first try
    MaxAttempt,     \* bound: attempts opened for the row
    MaxCrash,       \* bound: workers that die
    Settings        \* the sets `setting` is chosen from

Features == {"images", "empty", "fail", "enqueue", "redis", "probe", "crash",
             "signal", "lite", "cancel", "delete", "reparse", "impatient", "window",
             "overwrite"}

ASSUME KnowledgeAssumption ==
    /\ IsFiniteSet(Images) /\ IsFiniteSet(Subtasks)
    /\ Summary \in Subtasks
    /\ None \notin Images \cup Subtasks
    /\ MaxRetry \in Nat /\ MaxAttempt \in Nat \ {0} /\ MaxCrash \in Nat
    /\ Settings \subseteq SUBSET Features

VARIABLES
    setting,
    row,            \* parse_status and pending_subtasks_count
    attempt,        \* the latest attempt of the span table
    chunks, index,  \* the attempts whose text chunks are stored and indexed
    pendingImages,  \* the Redis key multimodal:pending:<id>
    task,
    request,        \* the request of a user
    sweep,          \* what the housekeeping sweep found
    crashes         \* workers that died

vars == <<setting, row, attempt, chunks, index, pendingImages, task, request, sweep,
          crashes>>

Attempts == 1 .. MaxAttempt
Statuses == {"pending", "processing", "finalizing", "completed", "failed",
             "cancelled", "deleting", "deleted"}
InProgress == {"pending", "processing", "finalizing"}

(* The first document task comes from the upload, the second from a reparse.
   The other tasks carry the attempt they belong to; a post-process task is
   enqueued by an image, or by the document task when there are none. *)
Document(n) == [kind |-> "document", run |-> n, item |-> None]
Image(a, i) == [kind |-> "image", run |-> a, item |-> i]
Post(a, i) == [kind |-> "post", run |-> a, item |-> i]
Sub(a, s) == [kind |-> "sub", run |-> a, item |-> s]

Documents == {Document(n) : n \in 1 .. 2}
ImageTasks == {Image(a, i) : a \in Attempts, i \in Images}
PostTasks == {Post(a, i) : a \in Attempts, i \in Images \cup {None}}
SubTasks == {Sub(a, s) : a \in Attempts, s \in Subtasks}
Tasks == Documents \cup ImageTasks \cup PostTasks \cup SubTasks

Phases == {"none", "queued", "loaded", "marked", "cleaned", "writing", "written",
           "indexing", "indexed", "checked", "saved", "running", "counting", "listing",
           "seeding", "completing", "fanning", "releasing", "working", "saving",
           "draining", "promoting", "ending", "done"}
Idle == {"none", "done"}

Fresh == [at |-> "none", attempt |-> 0, tries |-> 0, seen |-> "pending",
          text |-> {}, short |-> 0, signalled |-> FALSE]
Queued == [Fresh EXCEPT !.at = "queued"]
Ended == [Fresh EXCEPT !.at = "done"]

Pictures == IF "images" \in setting THEN Images ELSE {}
Requests == {"cancel", "delete", "reparse"}

TypeOK ==
    /\ setting \in Settings
    /\ row \in [status : Statuses, count : 0 .. Cardinality(Subtasks)]
    /\ attempt \in 0 .. MaxAttempt
    /\ chunks \subseteq Attempts /\ index \subseteq Attempts
    /\ pendingImages \in 0 .. Cardinality(Images)
    /\ task \in [Tasks -> [at : Phases, attempt : 0 .. MaxAttempt, tries : 0 .. MaxRetry,
                           seen : Statuses, text : SUBSET Attempts,
                           short : 0 .. Cardinality(Subtasks), signalled : BOOLEAN]]
    /\ request \in [kind : Requests \cup {None}, at : {"idle", "write", "dequeue", "open",
                    "clean", "zero", "enqueue", "remove"}, seen : Statuses,
                    made : SUBSET Requests]
    /\ sweep \in {"none", "drained", "stale", "stuck"}
    /\ crashes \in 0 .. MaxCrash

(* The upload has stored the row and enqueued its document task. *)
Init ==
    /\ setting \in Settings
    /\ row = [status |-> "pending", count |-> 0]
    /\ attempt = 0
    /\ chunks = {} /\ index = {}
    /\ pendingImages = 0
    /\ task = [[t \in Tasks |-> Fresh] EXCEPT ![Document(1)] = Queued]
    /\ request = [kind |-> None, at |-> "idle", seen |-> "pending", made |-> {}]
    /\ sweep = "none"
    /\ crashes = 0

-----------------------------------------------------------------------------
(* Writes to the row.  A soft-deleted row matches no update, and the insert
   that Save falls back to leaves deleted_at as it is. *)
Written(r) == IF row.status = "deleted" THEN row ELSE r
UpdateKnowledge(s) == row' = Written([row EXCEPT !.status = s])

Aborted == row.status \in {"cancelled", "deleting", "deleted"}
Leaving == row.status \in {"deleting", "deleted"}

Move(t, at) == task' = [task EXCEPT ![t].at = at]
End(t) == task' = [task EXCEPT ![t] = Ended]

(* The handler returns nil; with "crash" its worker can still die before the
   queue has heard of it. *)
Finished == IF crashes < MaxCrash /\ "crash" \in setting
            THEN [Fresh EXCEPT !.at = "ending"] ELSE Ended
Finish(t) == task' = [task EXCEPT ![t] = [Finished EXCEPT !.tries = task[t].tries,
                                          !.attempt = task[t].attempt]]

(* The upload enqueues its task without an attempt number, so that every try
   opens an attempt of its own; the task of a reparse carries its number. *)
Payload(t) == CASE t = Document(1) -> 0
                [] t = Document(2) -> task[t].attempt
                [] OTHER -> t.run

Requeued(t) == [Queued EXCEPT !.tries = task[t].tries + 1,
                              !.attempt = IF t.kind = "document" THEN Payload(t) ELSE 0]
Requeue(t) == task[t].tries < MaxRetry /\ task' = [task EXCEPT ![t] = Requeued(t)]

(* The queue takes the tasks ts; with "enqueue" it may refuse some of them. *)
Refused(ts) == IF "enqueue" \in setting THEN SUBSET ts ELSE {{}}
Free(t) == task[t].at \in Idle

-----------------------------------------------------------------------------
(* ProcessDocument and processChunks. *)

StartDocument(t) ==
    /\ task[t].at = "queued"
    /\ IF Aborted \/ row.status = "completed" THEN End(t) ELSE Move(t, "loaded")
    /\ UNCHANGED <<row, attempt, chunks, index, pendingImages>>

MarkProcessing(t) ==
    /\ task[t].at = "loaded"
    /\ Payload(t) = 0 => attempt < MaxAttempt
    /\ UpdateKnowledge("processing")
    /\ attempt' = IF Payload(t) = 0 THEN attempt + 1 ELSE attempt
    /\ task' = [task EXCEPT ![t].at = "marked",
                            ![t].attempt = IF Payload(t) = 0 THEN attempt + 1 ELSE @]
    /\ UNCHANGED <<chunks, index, pendingImages>>

(* convert: the last try writes the failure, here and in the callback for
   dead letters. *)
ConvertFails(t) ==
    /\ "fail" \in setting
    /\ task[t].at = "marked"
    /\ \/ Requeue(t) /\ UNCHANGED row
       \/ task[t].tries = MaxRetry /\ UpdateKnowledge("failed") /\ End(t)
    /\ UNCHANGED <<attempt, chunks, index, pendingImages>>

(* Errors that are not retried: the parser's, those of the chunk table and of
   the storage quota. *)
Reject(t) ==
    /\ "fail" \in setting
    /\ task[t].at \in {"marked", "writing", "written"}
    /\ UpdateKnowledge("failed")
    /\ Finish(t)
    /\ UNCHANGED <<attempt, chunks, index, pendingImages>>

CleanUp(t) ==
    /\ task[t].at = "marked"
    /\ IF Aborted THEN Finish(t) /\ UNCHANGED <<chunks, index>>
       ELSE Move(t, "cleaned") /\ chunks' = {} /\ index' = {}
    /\ UNCHANGED <<row, attempt, pendingImages>>

CheckBeforeWrite(t) ==
    /\ task[t].at = "cleaned"
    /\ IF Aborted THEN Finish(t) ELSE Move(t, "writing")
    /\ UNCHANGED <<row, attempt, chunks, index, pendingImages>>

WriteChunks(t) ==
    /\ task[t].at = "writing"
    /\ Move(t, "written")
    /\ chunks' = IF "empty" \in setting THEN chunks ELSE chunks \cup {task[t].attempt}
    /\ UNCHANGED <<row, attempt, index, pendingImages>>

CheckBeforeIndex(t) ==
    /\ task[t].at = "written"
    /\ IF Aborted THEN Finish(t) ELSE Move(t, "indexing")
    /\ chunks' = IF Leaving THEN {} ELSE chunks
    /\ UNCHANGED <<row, attempt, index, pendingImages>>

BatchIndex(t) ==
    /\ task[t].at = "indexing"
    /\ Move(t, "indexed")
    /\ index' = IF "empty" \in setting THEN index ELSE index \cup {task[t].attempt}
    /\ UNCHANGED <<row, attempt, chunks, pendingImages>>

\* mutant: an index error is only logged.
IgnoreIndexError(t) ==
    /\ "fail" \in setting
    /\ task[t].at = "indexing"
    /\ Move(t, "indexed")
    /\ UNCHANGED <<row, attempt, chunks, index, pendingImages>>

BatchIndexFails(t) ==
    /\ "fail" \in setting
    /\ task[t].at = "indexing"
    /\ UpdateKnowledge("failed")
    /\ chunks' = {} /\ index' = {}
    /\ Finish(t)
    /\ UNCHANGED <<attempt, pendingImages>>

\* mutant: an abort noticed after the indexing leaves what was stored.
StopAfterIndex(t) ==
    /\ task[t].at = "indexed"
    /\ IF Aborted THEN Finish(t) ELSE Move(t, "checked")
    /\ UNCHANGED <<row, attempt, chunks, index, pendingImages>>

CheckAfterIndex(t) ==
    /\ task[t].at = "indexed"
    /\ IF Aborted THEN Finish(t) ELSE Move(t, "checked")
    /\ IF Leaving THEN chunks' = {} /\ index' = {} ELSE UNCHANGED <<chunks, index>>
    /\ UNCHANGED <<row, attempt, pendingImages>>

(* finalizeIndexedKnowledgeState: enrichment still has to come unless there is
   neither text nor an image. *)
FinishIndexing(t) ==
    /\ task[t].at = "checked"
    /\ UpdateKnowledge(IF "empty" \in setting /\ Pictures = {} THEN "completed" ELSE "processing")
    /\ Move(t, "saved")
    /\ UNCHANGED <<attempt, chunks, index, pendingImages>>

(* enqueueImageMultimodalTasks, or the post-process task at once. *)
EnqueueNext(t) ==
    LET a == task[t].attempt
        next == IF Pictures = {} THEN {Post(a, None)} ELSE {Image(a, i) : i \in Pictures}
    IN /\ task[t].at = "saved"
       /\ \A u \in next : Free(u)
       /\ \E refused \in Refused(next) :
             task' = [u \in Tasks |-> CASE u = t -> [Finished EXCEPT !.tries = task[t].tries,
                                                                     !.attempt = a]
                                        [] u \in next \ refused -> Queued
                                        [] OTHER -> task[u]]
       /\ pendingImages' = IF Pictures = {} \/ "lite" \in setting THEN pendingImages
                           ELSE Cardinality(Pictures)
       /\ UNCHANGED <<row, attempt, chunks, index>>

DocumentStep(t) ==
    \/ StartDocument(t) \/ MarkProcessing(t) \/ ConvertFails(t) \/ Reject(t) \/ CleanUp(t)
    \/ CheckBeforeWrite(t) \/ WriteChunks(t) \/ CheckBeforeIndex(t) \/ BatchIndex(t)
    \/ BatchIndexFails(t) \/ CheckAfterIndex(t) \/ FinishIndexing(t) \/ EnqueueNext(t)

-----------------------------------------------------------------------------
(* ImageMultimodalService.Handle. *)

StartImage(t) ==
    /\ task[t].at = "queued"
    /\ Move(t, IF Aborted THEN "counting" ELSE "running")
    /\ UNCHANGED <<row, attempt, chunks, index, pendingImages>>

ImageEnds(t) ==
    /\ task[t].at = "running"
    /\ Move(t, "counting")
    /\ UNCHANGED <<row, attempt, chunks, index, pendingImages>>

\* mutant: every failed try counts.
CountEveryTry(t) ==
    /\ "fail" \in setting
    /\ task[t].at = "running"
    /\ Requeue(t)
    /\ pendingImages' = IF pendingImages > 0 THEN pendingImages - 1 ELSE 0
    /\ UNCHANGED <<row, attempt, chunks, index>>

(* A failed try counts only when it is the last. *)
ImageFails(t) ==
    /\ "fail" \in setting
    /\ task[t].at = "running"
    /\ Requeue(t)
    /\ UNCHANGED <<row, attempt, chunks, index, pendingImages>>

(* checkAndFinalizeAllImages: the image that brings the counter to zero starts
   the post-process task, and so does one that cannot count: its decrement
   failed, or there is no Redis. *)
CountImage(t) ==
    LET next == Post(t.run, t.item)
        counts == "lite" \notin setting
        Starts == pendingImages <= 1 \/ ~counts
    IN /\ task[t].at = "counting"
       /\ Free(next)
       /\ \E refused \in Refused({next}), failed \in IF "redis" \in setting THEN BOOLEAN ELSE {FALSE} :
             /\ task' = [task EXCEPT ![t] = [Finished EXCEPT !.tries = task[t].tries],
                                     ![next] = IF (failed \/ Starts) /\ refused = {} THEN Queued ELSE @]
             /\ pendingImages' = IF failed \/ ~counts \/ pendingImages = 0 THEN pendingImages
                                 ELSE pendingImages - 1
       /\ UNCHANGED <<row, attempt, chunks, index>>

ImageStep(t) == StartImage(t) \/ ImageEnds(t) \/ ImageFails(t) \/ CountImage(t)

-----------------------------------------------------------------------------
(* KnowledgePostProcessService.Handle. *)

StartPost(t) ==
    /\ task[t].at = "queued"
    /\ IF row.status = "processing" THEN Move(t, "listing") ELSE Finish(t)
    /\ UNCHANGED <<row, attempt, chunks, index, pendingImages>>

PostFails(t) ==
    /\ "fail" \in setting
    /\ task[t].at = "listing"
    /\ \/ Requeue(t) /\ UNCHANGED row
       \/ task[t].tries = MaxRetry /\ UpdateKnowledge("failed") /\ End(t)
    /\ UNCHANGED <<attempt, chunks, index, pendingImages>>

ListChunks(t) ==
    /\ task[t].at = "listing"
    /\ Move(t, IF chunks = {} THEN "completing" ELSE "seeding")
    /\ UNCHANGED <<row, attempt, chunks, index, pendingImages>>

CompleteEmpty(t) ==
    /\ task[t].at = "completing"
    /\ UpdateKnowledge("completed")
    /\ Finish(t)
    /\ UNCHANGED <<attempt, chunks, index, pendingImages>>

\* mutant: the row is seeded whatever its status.
SeedAlways(t) ==
    /\ task[t].at = "seeding"
    /\ row' = [status |-> "finalizing", count |-> Cardinality(Subtasks)]
    /\ Move(t, "fanning")
    /\ UNCHANGED <<attempt, chunks, index, pendingImages>>

\* mutant: a slot is counted for a subtask that is not enqueued.
SeedOneMore(t) ==
    /\ task[t].at = "seeding"
    /\ IF row.status = "processing"
       THEN /\ row' = [status |-> "finalizing", count |-> Cardinality(Subtasks) + 1]
            /\ Move(t, "fanning")
       ELSE UNCHANGED row /\ Finish(t)
    /\ UNCHANGED <<attempt, chunks, index, pendingImages>>

SetFinalizing(t) ==
    /\ task[t].at = "seeding"
    /\ IF row.status = "processing"
       THEN /\ row' = [status |-> "finalizing", count |-> Cardinality(Subtasks)]
            /\ Move(t, "fanning")
       ELSE UNCHANGED row /\ Finish(t)
    /\ UNCHANGED <<attempt, chunks, index, pendingImages>>

FanOut(t) ==
    LET subs == {Sub(t.run, s) : s \in Subtasks}
    IN /\ task[t].at = "fanning"
       /\ \E refused \in Refused(subs) :
             task' = [u \in Tasks |->
                        CASE u = t /\ refused = {} -> [Finished EXCEPT !.tries = task[t].tries]
                          [] u = t /\ refused # {} ->
                                [task[t] EXCEPT !.at = "releasing", !.short = Cardinality(refused)]
                          [] u \in subs \ refused -> Queued
                          [] OTHER -> task[u]]
       /\ UNCHANGED <<row, attempt, chunks, index, pendingImages>>

(* FinalizeSubtask, in its two statements: the owner of a slot that ends and
   the post-process task for the slots nobody owns. *)
Decrement(t) ==
    /\ task[t].at \in {"draining", "releasing"}
    /\ row' = IF row.count > 0 THEN Written([row EXCEPT !.count = @ - 1]) ELSE row
    /\ Move(t, "promoting")
    /\ UNCHANGED <<attempt, chunks, index, pendingImages>>

Promote(t) ==
    /\ task[t].at = "promoting"
    /\ row' = IF row.status = "finalizing" /\ row.count = 0
              THEN [row EXCEPT !.status = "completed"] ELSE row
    /\ IF task[t].short > 1
       THEN task' = [task EXCEPT ![t].at = "releasing", ![t].short = @ - 1]
       ELSE Finish(t)
    /\ UNCHANGED <<attempt, chunks, index, pendingImages>>

PostStep(t) ==
    \/ StartPost(t) \/ PostFails(t) \/ ListChunks(t) \/ CompleteEmpty(t) \/ SetFinalizing(t)
    \/ FanOut(t) \/ Decrement(t) \/ Promote(t)

-----------------------------------------------------------------------------
(* ProcessSummaryGeneration, ProcessQuestionGeneration, ChunkExtractService. *)

Superseded(t) == attempt > t.run

StartSubtask(t) ==
    /\ task[t].at = "queued"
    /\ CASE Superseded(t) -> Finish(t)
         [] ~Superseded(t) /\ Aborted -> Move(t, "draining")
         [] ~Superseded(t) /\ ~Aborted /\ t.item # Summary -> Move(t, "working")
         [] OTHER -> task' = [task EXCEPT ![t].at = "loaded", ![t].seen = row.status]
    /\ UNCHANGED <<row, attempt, chunks, index, pendingImages>>

(* The summary task saves the row it loaded to set summary_status, then lists
   the chunks and calls the model. *)
MarkSummary(t) ==
    /\ task[t].at = "loaded"
    /\ UpdateKnowledge(task[t].seen)
    /\ task' = [task EXCEPT ![t].at = "working", ![t].text = chunks]
    /\ UNCHANGED <<attempt, chunks, index, pendingImages>>

(* summarySourceChanged: a summary of other chunks is thrown away. *)
WorkEnds(t) ==
    /\ task[t].at = "working"
    /\ Move(t, IF t.item = Summary /\ task[t].text \in {{}, chunks} THEN "saving" ELSE "draining")
    /\ UNCHANGED <<row, attempt, chunks, index, pendingImages>>

SaveSummary(t) ==
    /\ task[t].at = "saving"
    /\ UpdateKnowledge(task[t].seen)
    /\ Move(t, "draining")
    /\ UNCHANGED <<attempt, chunks, index, pendingImages>>

(* A failure that will be retried; after the last one the summary saves its
   fallback and the slot is released as after a success. *)
WorkFails(t) ==
    /\ "fail" \in setting
    /\ task[t].at = "working"
    /\ Requeue(t)
    /\ IF t.item = Summary THEN UpdateKnowledge(task[t].seen) ELSE UNCHANGED row
    /\ UNCHANGED <<attempt, chunks, index, pendingImages>>

SubStep(t) ==
    \/ StartSubtask(t) \/ MarkSummary(t) \/ WorkEnds(t) \/ SaveSummary(t) \/ WorkFails(t)
    \/ Decrement(t) \/ Promote(t)

-----------------------------------------------------------------------------
(* The queue: a task that ended, a worker that died, a worker that was told
   to stop. *)

Running(t) == task[t].at \notin {"none", "queued", "done"}

Acknowledge(t) ==
    /\ task[t].at = "ending"
    /\ End(t)
    /\ UNCHANGED <<row, attempt, chunks, index, pendingImages>>

Crash(t) ==
    /\ "crash" \in setting /\ crashes < MaxCrash
    /\ Running(t)
    /\ crashes' = crashes + 1
    /\ \/ Requeue(t)
       \/ task[t].tries = MaxRetry /\ End(t)
    /\ UNCHANGED <<row, attempt, chunks, index, pendingImages>>

(* A stopped task is deleted when it leaves its worker soon enough; later it
   has gone back to the queue by then. *)
Stop(t) ==
    /\ task[t].signalled
    /\ End(t) \/ Requeue(t)
    /\ UNCHANGED <<row, attempt, chunks, index, pendingImages>>

TaskStep ==
    /\ \/ \E t \in Documents : DocumentStep(t)
       \/ \E t \in ImageTasks : ImageStep(t)
       \/ \E t \in PostTasks : PostStep(t)
       \/ \E t \in SubTasks : SubStep(t)
       \/ \E t \in Tasks : Acknowledge(t) \/ Stop(t)
    /\ UNCHANGED <<setting, request, sweep, crashes>>

CrashStep == (\E t \in Tasks : Crash(t)) /\ UNCHANGED <<setting, request, sweep>>

-----------------------------------------------------------------------------
(* Requests of users: each kind once, one at a time. *)

Reached(at) == request' = [request EXCEPT !.at = at]
Answered == request' = [request EXCEPT !.kind = None, !.at = "idle", !.seen = "pending"]

(* The handlers load the row first and refuse what they can tell from it. *)
CancelKnowledgeParse ==
    CASE row.status = "cancelled" -> "dequeue"
      [] row.status \in InProgress -> "write"
      [] OTHER -> "idle"
DeleteKnowledge == IF row.status = "deleted" THEN "idle" ELSE "write"
ReparseKnowledge == IF row.status = "deleted" THEN "idle" ELSE "dequeue"

Ask(kind) ==
    LET first == CASE kind = "cancel" -> CancelKnowledgeParse
                   [] kind = "delete" -> DeleteKnowledge
                   [] kind = "reparse" -> ReparseKnowledge
    IN /\ request.at = "idle"
       /\ kind \in setting \ request.made
       /\ kind = "reparse" /\ "impatient" \notin setting => \A t \in Tasks : Free(t)
       /\ request' = [kind |-> IF first = "idle" THEN None ELSE kind, at |-> first,
                      seen |-> IF first = "idle" THEN "pending" ELSE row.status,
                      made |-> request.made \cup {kind}]
       /\ UNCHANGED <<row, attempt, chunks, index, pendingImages, task>>

WriteStatus ==
    /\ request.at = "write"
    /\ "overwrite" \in setting \/ \A t \in Documents : task[t].at \notin {"loaded", "checked"}
    /\ CASE request.kind = "cancel" ->
              row' = Written([status |-> "cancelled", count |-> 0]) /\ Reached("dequeue")
         [] request.kind = "delete" ->
              /\ UpdateKnowledge("deleting")
              /\ Reached(IF request.seen \in {"pending", "processing"} THEN "dequeue" ELSE "clean")
         [] request.kind = "reparse" -> UpdateKnowledge("pending") /\ Reached("zero")
    /\ UNCHANGED <<attempt, chunks, index, pendingImages, task>>

(* CancelTasksForKnowledge: waiting tasks are removed, running ones told to
   stop; nothing of the kind in Lite mode. *)
Dequeued(t) ==
    CASE "lite" \in setting -> task[t]
      [] "lite" \notin setting /\ task[t].at = "queued" -> Ended
      [] "lite" \notin setting /\ Running(t) /\ "signal" \in setting ->
            [task[t] EXCEPT !.signalled = TRUE]
      [] OTHER -> task[t]

Dequeue ==
    /\ request.at = "dequeue"
    /\ task' = [t \in Tasks |-> Dequeued(t)]
    /\ CASE request.kind = "cancel" -> Answered
         [] request.kind = "delete" -> Reached("clean")
         [] request.kind = "reparse" -> Reached("open")
    /\ UNCHANGED <<row, attempt, chunks, index, pendingImages>>

OpenAttempt ==
    /\ request.at = "open"
    /\ attempt < MaxAttempt
    /\ attempt' = attempt + 1
    /\ Reached("clean")
    /\ UNCHANGED <<row, chunks, index, pendingImages, task>>

CleanResources ==
    /\ request.at = "clean"
    /\ chunks' = {} /\ index' = {}
    /\ Reached(IF request.kind = "delete" THEN "remove" ELSE "write")
    /\ UNCHANGED <<row, attempt, pendingImages, task>>

RemoveRow ==
    /\ request.at = "remove"
    /\ row' = [row EXCEPT !.status = "deleted"]
    /\ Answered
    /\ UNCHANGED <<attempt, chunks, index, pendingImages, task>>

ResetCount ==
    /\ request.at = "zero"
    /\ row' = Written([row EXCEPT !.count = 0])
    /\ Reached("enqueue")
    /\ UNCHANGED <<attempt, chunks, index, pendingImages, task>>

EnqueueReparse ==
    /\ request.at = "enqueue"
    /\ \E refused \in Refused({Document(2)}) :
          IF refused = {}
          THEN task' = [task EXCEPT ![Document(2)] = [Queued EXCEPT !.attempt = attempt]]
               /\ UNCHANGED row
          ELSE UpdateKnowledge("failed") /\ UNCHANGED task
    /\ Answered
    /\ UNCHANGED <<attempt, chunks, index, pendingImages>>

RequestStep ==
    /\ \/ \E kind \in Requests : Ask(kind)
       \/ WriteStatus \/ Dequeue \/ OpenAttempt \/ CleanResources \/ RemoveRow
       \/ ResetCount \/ EnqueueReparse
    /\ UNCHANGED <<setting, sweep, crashes>>

-----------------------------------------------------------------------------
(* runSweep: a query, then an update of the rows it found.  The queue is asked
   for tasks that carry the latest attempt, so the task of the upload, which
   carries none, does not count; in Lite mode there is no queue to ask. *)
Waiting(t) == "lite" \notin setting /\ ~Free(t) /\ (attempt = 0 \/ Payload(t) = attempt)
NothingWaits == \A t \in Tasks : ~Waiting(t)

(* A row is dropped when a task waits for it; it is kept, too, when the queue
   cannot be asked, which "probe" allows. *)
filterOutQueued == NothingWaits \/ "probe" \in setting

(* The root span of an attempt is open until its post-process task returns,
   that of a subtask while it runs.  (The span a dead worker leaves open is not
   modelled: the first two sweeps may find its row sooner than in the code.) *)
Open(t) == t.run = attempt /\ Running(t) /\ task[t].at # "ending"
NoOpenSpan ==
    /\ \E p \in PostTasks : p.run = attempt /\ task[p].at \in {"ending", "done"}
    /\ \A t \in PostTasks \cup SubTasks : ~Open(t)

(* The third sweep takes rows that nothing has moved for longer than a task
   may run; a task of Lite mode waits for seconds only. *)
Stale == /\ request.at = "idle"
         /\ \A t \in Tasks : ~Running(t) /\ ("lite" \in setting => Free(t))

\* mutant: only rows in enrichment are looked at.
FoundFinalizing(kind) ==
    CASE kind = "drained" -> row.status = "finalizing" /\ row.count = 0 /\ NoOpenSpan
      [] kind = "stale" -> row.status = "finalizing" /\ row.count > 0 /\ NoOpenSpan
      [] kind = "stuck" -> row.status = "finalizing" /\ Stale

Found(kind) ==
    CASE kind = "drained" -> row.status = "finalizing" /\ row.count = 0 /\ NoOpenSpan
      [] kind = "stale" -> row.status = "finalizing" /\ row.count > 0 /\ NoOpenSpan
      [] kind = "stuck" -> row.status \in InProgress /\ Stale

Recover(kind) ==
    row' = CASE kind = "drained" -> Written([row EXCEPT !.status = "completed"])
             [] kind = "stale" -> Written([status |-> "completed", count |-> 0])
             [] kind = "stuck" -> IF row.status \in InProgress
                                  THEN [status |-> "failed", count |-> 0] ELSE row

Sweep(kind) ==
    /\ sweep = "none"
    /\ Found(kind) /\ filterOutQueued
    /\ IF "window" \in setting
       THEN sweep' = kind /\ UNCHANGED row
       ELSE Recover(kind) /\ UNCHANGED sweep

ApplySweep ==
    /\ sweep # "none"
    /\ Recover(sweep)
    /\ sweep' = "none"

SweepStep ==
    /\ (\E kind \in {"drained", "stale", "stuck"} : Sweep(kind)) \/ ApplySweep
    /\ UNCHANGED <<setting, attempt, chunks, index, pendingImages, task, request, crashes>>

Next == TaskStep \/ CrashStep \/ RequestStep \/ SweepStep

Spec == Init /\ [][Next]_vars

(* Workers go on with their tasks, a request that was begun is carried out and
   the sweep runs again and again; that it asks the queue in vain is never
   relied on. *)
FairSpec ==
    /\ Spec
    /\ WF_vars(TaskStep)
    /\ WF_vars(RequestStep /\ request.at # "idle")
    /\ WF_vars(SweepStep /\ (sweep # "none" \/ NothingWaits))

-----------------------------------------------------------------------------
Without(faults) == setting \cap faults = {}
Over(t) == Free(t) \/ task[t].at = "ending"

(* A row is shown as completed only when no enrichment of it is queued or
   running, whatever failed, was refused or was enqueued twice on the way.
   (Where the sweep cannot ask the queue it is: the first two sweeps complete a
   row whose subtasks are all queued.) *)
NoEarlyCompletion ==
    Without({"cancel", "delete", "impatient", "crash", "window", "lite", "probe"}) /\ row.status = "completed" =>
        \A t \in SubTasks : Over(t) \/ task[t].at = "promoting"

(* An enrichment subtask that is done is not started again in its attempt,
   not even when every image starts a post-process task of its own. *)
SubtasksRunOnce ==
    [][Without({"crash", "impatient"}) =>
         \A t \in SubTasks : task[t].at = "done" => task'[t].at = "done"]_vars

(* The post-process task of an attempt runs when its images are through, the
   retried and the failed ones included. *)
PostWaitsForImages ==
    Without({"redis", "lite", "crash", "impatient"}) =>
        \A a \in Attempts, i \in Images :
            (\E p \in PostTasks : p.run = a /\ ~Free(p)) => Over(Image(a, i))

(* Neither join goes ahead of what it fanned out. *)
JoinsWait == PostWaitsForImages /\ NoEarlyCompletion

(* No sweep acts on a row that was reparsed since it found it: the first two
   update the rows they found whatever has become of their status. *)
SweepsInTime == ~({"window", "reparse"} \subseteq setting)

(* Nothing is left in the chunk table and in the index of a document that was
   deleted while it was processed. *)
NoOrphanChunks ==
    Without({"signal", "crash", "fail", "overwrite", "impatient"}) /\ SweepsInTime
        /\ row.status = "deleted" /\ (\A t \in Documents : Free(t)) =>
            chunks = {} /\ index = {}

(* A completed document is stored and indexed, with the chunks of its latest
   attempt and no others. *)
CompletedIsSearchable ==
    Without({"empty", "impatient", "crash"}) /\ SweepsInTime /\ row.status = "completed"
        /\ request.at = "idle" => chunks = {attempt} /\ index = {attempt}

(* When the queue takes every task and no worker dies, a row in progress has a
   task that moves it on: housekeeping is not what finishes it. *)
NothingStranded ==
    Without({"enqueue", "crash", "cancel", "impatient"}) /\ row.status \in InProgress =>
        request.at # "idle" \/ \E t \in Tasks : ~Free(t)

(* With refused tasks, dead workers, cancels and reparses too, every row
   reaches a final status, by housekeeping if need be. *)
Settles == row.status \in InProgress ~> row.status \notin InProgress

(* knowledge_process.go:2774: a cancel zeroes the counter with the status, so
   that a late subtask cannot promote the row back to completed. *)
CancelIsFinal == [](row.status = "cancelled" => [](row.status # "completed"))
=============================================================================
