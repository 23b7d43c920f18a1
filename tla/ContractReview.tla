--------------------------- MODULE ContractReview ---------------------------
(***************************************************************************)
(* One contract review: the row in contract_reviews with its clauses,      *)
(* issues and stored source file, the HTTP requests that edit it and the   *)
(* background tasks (asynq) that parse the document and review its         *)
(* clauses.  Row locks are per review and no operation reads two reviews,  *)
(* so one review is the unit of interleaving; a bulk action is a sequence  *)
(* of single requests.                                                     *)
(*                                                                         *)
(* Every database, file-store and queue call is a step of its own.  What   *)
(* lies between two calls works on the copy of the row the caller loaded:  *)
(* repo.Update writes that whole copy back.                                *)
(***************************************************************************)
EXTENDS Integers, FiniteSets

CONSTANTS
  Docs,      \* references SaveBytes can return, a bound on the uploads
  Requests,  \* HTTP requests in flight at a time
  Tasks,     \* tasks queued or running at a time (also the ids of their clauses)
  Parties,   \* values of the configurable fields (represented party, playbook)
  Findings,  \* fingerprints of the issues the model can report for a clause
  NClauses,  \* clauses buildReviewClauses cuts the text into
  MaxFound,  \* issues in one model reply
  Scenes,    \* what may happen in a behaviour: each one is played in one of them
  None

Edits     == {"rename", "configure", "archive", "restore"}
AllOps    == Edits \union {"upload", "start", "retry", "delete"}
AllFaults == {"parser", "model", "enqueue", "db", "expiry", "unacked", "hangup"}

\* The operations clients use, what they wait for before they send one, the
\* failures that can happen, and two bounds: the tasks there is room for and the
\* number of uploads.
AllScenes == [ops: SUBSET AllOps, clients: {"concurrent", "single_tab", "patient"},
              faults: SUBSET AllFaults, tasks: SUBSET Tasks, uploads: Nat]

ASSUME SetsAssumption == None \notin Docs /\ Scenes \subseteq AllScenes
ASSUME PartiesAssumption == Parties # {}
ASSUME ClausesAssumption == NClauses \in Nat \ {0} /\ MaxFound \in Nat

Seqs == 0 .. NClauses - 1
Statuses == {"draft", "uploading", "ready", "analyzing", "reviewing_clauses",
             "completed", "failed"}
Running(status) == status \in {"uploading", "analyzing", "reviewing_clauses"}

VARIABLES
  scene,    \* fixed by the initial state
  row,      \* the stored review
  deleted,  \* deleted_at is set
  clauses,  \* sequence -> stored clause or None
  issues,   \* stored issues
  files,    \* source files in the file store
  saved,    \* references handed out so far
  req,      \* request -> its progress
  task      \* task -> its message in the queue and the run of its handler

vars == <<scene, row, deleted, clauses, issues, files, saved, req, task>>

Rows == [status: Statuses, ref: Docs \union {None}, content: Docs \union {None},
         party: Parties, archived: BOOLEAN, overview: Nat \union {None}]
Clauses == [by: Tasks, doc: Docs, done: BOOLEAN]
Issues == [by: Tasks, seq: Seqs, finding: Findings]

ASSUME ClauseAssumption == None \notin Clauses

NewRow == [status |-> "draft", ref |-> None, content |-> None,
           party |-> CHOOSE p \in Parties : TRUE, archived |-> FALSE,
           overview |-> None]
NoClauses == [s \in Seqs |-> None]
Idle == [pc |-> "idle", op |-> None, r |-> NewRow, old |-> None]
Free == [pc |-> "free", kind |-> None, tries |-> 0, r |-> NewRow,
         seq |-> 0, found |-> 0]

Init ==
  /\ scene \in Scenes
  /\ row = NewRow /\ deleted = FALSE
  /\ clauses = NoClauses /\ issues = {}
  /\ files = {} /\ saved = {}
  /\ req = [q \in Requests |-> Idle]
  /\ task = [t \in Tasks |-> Free]

-----------------------------------------------------------------------------
(* The repository.  Update writes every column of the caller's copy, and   *)
(* finds no row once the review is soft deleted.                           *)

DbFails == deleted \/ "db" \in scene.faults

Update(r) == ~deleted /\ row' = r
UpdateFails == DbFails /\ UNCHANGED row
TryUpdate(r) == Update(r) \/ UpdateFails       \* `_ = s.repo.Update(ctx, r)`

\* SELECT ... FOR UPDATE of the review, which every write of its clauses and
\* issues starts with.
LockNothing == TRUE                            \* mutant: writes without the lock
LockReview == ~deleted

ClearResults == LockReview /\ clauses' = NoClauses /\ issues' = {}

-----------------------------------------------------------------------------
(* The state of a request changes by one of these.                         *)

Proceed(q, pc) == req' = [req EXCEPT ![q].pc = pc]
Return(q) == req' = [req EXCEPT ![q] = Idle]

NoneInFlight == \A q \in Requests : req[q].pc = "idle"
NoTask == \A t \in Tasks : task[t].pc = "free"

\* What clients wait for: nothing; the answer to their last request (the busy
\* flag of one browser tab); also the end of the background work, unless they
\* delete the review.
MaySend(op) ==
  /\ scene.clients # "concurrent" => NoneInFlight
  /\ scene.clients = "patient" => op = "delete" \/ NoTask

Configurable(status) == status \in {"draft", "ready", "completed"}

\* The rows PATCH can make of the stored one, none when it is refused.  The
\* title has no guard and no effect on anything else: a rename writes the
\* loaded row back.
Edited(op) ==
  CASE op = "rename" -> {row}
    [] op = "configure" ->
         {[row EXCEPT !.party = p] : p \in {x \in Parties : Configurable(row.status)}}
    [] op = "archive" ->
         {r \in {[row EXCEPT !.archived = TRUE]} : ~Running(r.status)}
    [] op = "restore" ->
         {r \in {[row EXCEPT !.archived = FALSE]} : ~Running(r.status)}

\* Every operation first loads the row, checks its status and changes its copy.
Load(q, op, pc, r) ==
  /\ op \in scene.ops /\ MaySend(op)
  /\ req[q].pc = "idle" /\ ~deleted
  /\ req' = [req EXCEPT ![q] = [pc |-> pc, op |-> op, r |-> r, old |-> row.ref]]

Edit(q) ==
  /\ \E op \in Edits : \E r \in Edited(op) : Load(q, op, "write", r)
  /\ UNCHANGED <<scene, row, deleted, clauses, issues, files, saved, task>>

CanUploadCompleted(status) ==                  \* mutant: a result may be replaced
  status \in {"draft", "ready", "failed", "completed"}
CanUpload(status) == status \in {"draft", "ready", "failed"}
UploadedKeepingText(r, d) ==                   \* mutant: the old text stays
  [r EXCEPT !.ref = d, !.status = "uploading", !.overview = None]
Uploaded(r, d) ==
  [r EXCEPT !.ref = d, !.status = "uploading", !.content = None, !.overview = None]

Upload(q) ==
  /\ CanUpload(row.status) /\ Cardinality(saved) < scene.uploads
  /\ \E d \in Docs \ saved :
       /\ Load(q, "upload", "clear", Uploaded(row, d))
       /\ saved' = saved \union {d} /\ files' = files \union {d}
  /\ UNCHANGED <<scene, row, deleted, clauses, issues, task>>

Start(q) ==
  /\ row.status = "ready"
  /\ Load(q, "start", "write", [row EXCEPT !.status = "analyzing"])
  /\ UNCHANGED <<scene, row, deleted, clauses, issues, files, saved, task>>

CanRetryRunning(status) ==                     \* mutant: a run in progress is restarted
  status \in {"failed", "completed", "reviewing_clauses"}
CanRetry(status) == status \in {"failed", "completed"}

Retry(q) ==
  /\ CanRetry(row.status)
  /\ IF row.content = None
     THEN Load(q, "retry", "write", [row EXCEPT !.status = "uploading"])
     ELSE Load(q, "retry", "clear",
               [row EXCEPT !.status = "analyzing", !.overview = None])
  /\ UNCHANGED <<scene, row, deleted, clauses, issues, files, saved, task>>

Delete(q) ==
  /\ Load(q, "delete", IF row.ref = None THEN "remove" ELSE "unlink", row)
  /\ UNCHANGED <<scene, row, deleted, clauses, issues, files, saved, task>>

\* An upload that fails before its row is stored removes the file it saved.
GiveUpKeepingFile(q) ==                        \* mutant: the saved file stays
  /\ Return(q)
  /\ UNCHANGED files
GiveUp(q) ==
  /\ Return(q)
  /\ files' = IF req[q].op = "upload" THEN files \ {req[q].r.ref} ELSE files

RequestClear(q) ==
  /\ req[q].pc = "clear"
  /\ \/ ClearResults /\ Proceed(q, "write") /\ UNCHANGED files
     \/ DbFails /\ GiveUp(q) /\ UNCHANGED <<clauses, issues>>
  /\ UNCHANGED <<scene, row, deleted, saved, task>>

AfterWrite(q) ==
  CASE req[q].op \in Edits -> Return(q)
    [] req[q].op = "upload" -> Proceed(q, IF req[q].old = None THEN "enqueue" ELSE "dropOld")
    [] OTHER -> Proceed(q, "enqueue")

RequestWrite(q) ==
  /\ req[q].pc = "write"
  /\ \/ Update(req[q].r) /\ AfterWrite(q) /\ UNCHANGED files
     \/ UpdateFails /\ GiveUp(q)
  /\ UNCHANGED <<scene, deleted, clauses, issues, saved, task>>

DropOldFile(q) ==
  /\ req[q].pc = "dropOld"
  /\ files' = files \ {req[q].old}
  /\ Proceed(q, "enqueue")
  /\ UNCHANGED <<scene, row, deleted, clauses, issues, saved, task>>

TaskKind(q) == IF req[q].r.content = None THEN "parse" ELSE "analyze"

\* Retry returns the enqueue error of the parsing task without marking the
\* review failed; every other caller marks it.
Enqueue(q) ==
  /\ req[q].pc = "enqueue"
  /\ \/ /\ \E t \in scene.tasks :
             /\ task[t].pc = "free"
             /\ task' = [task EXCEPT ![t] = [Free EXCEPT !.pc = "queued", !.kind = TaskKind(q)]]
        /\ Return(q)
     \/ /\ "enqueue" \in scene.faults
        /\ IF req[q].op = "retry" /\ TaskKind(q) = "parse"
           THEN Return(q)
           ELSE req' = [req EXCEPT ![q].pc = "markFailed", ![q].r.status = "failed"]
        /\ UNCHANGED task
  /\ UNCHANGED <<scene, row, deleted, clauses, issues, files, saved>>

MarkFailed(q) ==
  /\ req[q].pc = "markFailed"
  /\ TryUpdate(req[q].r)
  /\ Return(q)
  /\ UNCHANGED <<scene, deleted, clauses, issues, files, saved, task>>

DeleteFile(q) ==
  /\ req[q].pc = "unlink"
  /\ files' = files \ {req[q].r.ref}
  /\ Proceed(q, "remove")
  /\ UNCHANGED <<scene, row, deleted, clauses, issues, saved, task>>

RemoveReview(q) ==
  /\ req[q].pc = "remove"
  /\ \/ /\ ~deleted
        /\ deleted' = TRUE /\ clauses' = NoClauses /\ issues' = {}
     \/ DbFails /\ UNCHANGED <<deleted, clauses, issues>>
  /\ Return(q)
  /\ UNCHANGED <<scene, row, files, saved, task>>

\* The client hangs up or the server restarts: the rest of the handler, its
\* clean-up included, does not happen.
HangUp(q) ==
  /\ "hangup" \in scene.faults
  /\ req[q].pc # "idle"
  /\ Return(q)
  /\ UNCHANGED <<scene, row, deleted, clauses, issues, files, saved, task>>

RequestStep(q) ==
  RequestClear(q) \/ RequestWrite(q) \/ DropOldFile(q) \/ Enqueue(q)
    \/ MarkFailed(q) \/ DeleteFile(q) \/ RemoveReview(q)

Request(q) ==
  Edit(q) \/ Upload(q) \/ Start(q) \/ Retry(q) \/ Delete(q) \/ RequestStep(q) \/ HangUp(q)

-----------------------------------------------------------------------------
(* The queue hands a task to one worker at a time; an error redelivers it   *)
(* until its retries are used up.  A handler that is done leaves a task     *)
(* that ends: the queue learns of it in a step of its own.                 *)

MaxRetry(kind) == IF kind = "parse" THEN 2 ELSE 1

Goto(t, pc) == task' = [task EXCEPT ![t].pc = pc]
Done(t) ==
  task' = [task EXCEPT ![t] = [Free EXCEPT !.pc = "ending", !.kind = task[t].kind,
                                           !.tries = task[t].tries]]
Redeliver(t) ==
  LET kind == task[t].kind
      tries == task[t].tries
  IN task' = [task EXCEPT ![t] =
       IF tries < MaxRetry(kind)
       THEN [Free EXCEPT !.pc = "queued", !.kind = kind, !.tries = tries + 1]
       ELSE Free]

At(t, kind, pc) == task[t].kind = kind /\ task[t].pc = pc

\* The handler loads the row: a deleted review or one in another state is not
\* its business any more, a failed one is opened again first.
Receive(t, kind, mine, reopen, go) ==
  /\ At(t, kind, "queued")
  /\ \/ /\ deleted \/ ~mine
        /\ Done(t)
     \/ /\ ~deleted /\ mine
        /\ task' = [task EXCEPT ![t].r = row,
                                ![t].pc = IF row.status = "failed" THEN reopen ELSE go]
     \/ "db" \in scene.faults /\ Redeliver(t)
  /\ UNCHANGED <<scene, row, deleted, clauses, issues, files, saved, req>>

FailedUnmarked(r) == r                         \* mutant: the status stays
Failed(r) == [r EXCEPT !.status = "failed"]

\* s.fail: the error is stored if it can be, and returned to the queue.
Fail(t) ==
  /\ task[t].pc = "fail"
  /\ TryUpdate(Failed(task[t].r))
  /\ Redeliver(t)
  /\ UNCHANGED <<scene, deleted, clauses, issues, files, saved, req>>

\* The worker's process dies and its lease runs out, or the task exceeds its
\* timeout and every later call of the handler meets a cancelled context.
Expire(t) ==
  /\ "expiry" \in scene.faults
  /\ task[t].pc \notin {"free", "queued", "ending"}
  /\ Redeliver(t)
  /\ UNCHANGED <<scene, row, deleted, clauses, issues, files, saved, req>>

\* The queue removes the task of a handler that returned no error.
Acknowledge(t) ==
  /\ task[t].pc = "ending"
  /\ task' = [task EXCEPT ![t] = Free]
  /\ UNCHANGED <<scene, row, deleted, clauses, issues, files, saved, req>>

\* The worker dies after the handler's last write and before the queue knows:
\* the task is delivered again.
DieUnacknowledged(t) ==
  /\ "unacked" \in scene.faults
  /\ task[t].pc = "ending"
  /\ Redeliver(t)
  /\ UNCHANGED <<scene, row, deleted, clauses, issues, files, saved, req>>

-----------------------------------------------------------------------------
(* ProcessDocument *)

ReceiveDocument(t) ==
  Receive(t, "parse",
          row.status = "uploading" \/ (row.status = "failed" /\ row.content = None),
          "reopen", "read")

ReopenDocument(t) ==
  /\ At(t, "parse", "reopen")
  /\ TryUpdate([task[t].r EXCEPT !.status = "uploading"])
  /\ task' = [task EXCEPT ![t].pc = "read", ![t].r.status = "uploading"]
  /\ UNCHANGED <<scene, deleted, clauses, issues, files, saved, req>>

ReadDocument(t) ==
  /\ At(t, "parse", "read")
  /\ \/ task[t].r.ref \in files /\ Goto(t, "recheck")
     \/ (task[t].r.ref \notin files \/ "parser" \in scene.faults) /\ Goto(t, "fail")
  /\ UNCHANGED <<scene, row, deleted, clauses, issues, files, saved, req>>

\* Any error of the second look at the row ends the task without one.
RecheckDocument(t) ==
  /\ At(t, "parse", "recheck")
  /\ \/ ~deleted /\ Goto(t, "saveText")
     \/ DbFails /\ Done(t)
  /\ UNCHANGED <<scene, row, deleted, clauses, issues, files, saved, req>>

SaveText(t) ==
  /\ At(t, "parse", "saveText")
  /\ \/ /\ Update([task[t].r EXCEPT !.status = "ready", !.content = task[t].r.ref])
        /\ Done(t)
     \/ UpdateFails /\ Redeliver(t)
  /\ UNCHANGED <<scene, deleted, clauses, issues, files, saved, req>>

-----------------------------------------------------------------------------
(* ProcessReview *)

ReceiveReview(t) ==
  Receive(t, "analyze", row.status \in {"analyzing", "reviewing_clauses", "failed"},
          "clear", "prepare")

ClearForRerun(t) ==
  /\ At(t, "analyze", "clear")
  /\ \/ ClearResults /\ Goto(t, "reopen")
     \/ DbFails /\ Redeliver(t) /\ UNCHANGED <<clauses, issues>>
  /\ UNCHANGED <<scene, row, deleted, files, saved, req>>

ReopenReview(t) ==
  /\ At(t, "analyze", "reopen")
  /\ \/ /\ Update([task[t].r EXCEPT !.status = "analyzing"])
        /\ task' = [task EXCEPT ![t].pc = "prepare", ![t].r.status = "analyzing"]
     \/ UpdateFails /\ Redeliver(t)
  /\ UNCHANGED <<scene, deleted, clauses, issues, files, saved, req>>

HasClauses(r) == r.content # None

\* Resolving the model can fail; a row without text has no clause to review.
Prepare(t) ==
  /\ At(t, "analyze", "prepare")
  /\ \/ HasClauses(task[t].r) /\ Goto(t, "replace")
     \/ (~HasClauses(task[t].r) \/ "model" \in scene.faults) /\ Goto(t, "fail")
  /\ UNCHANGED <<scene, row, deleted, clauses, issues, files, saved, req>>

\* The foreign key of the issues deletes them with their clauses.
ReplaceClauses(t) ==
  /\ At(t, "analyze", "replace")
  /\ \/ /\ LockReview
        /\ clauses' = [s \in Seqs |->
                         [by |-> t, doc |-> task[t].r.content, done |-> FALSE]]
        /\ issues' = {}
        /\ Goto(t, "mark")
     \/ DbFails /\ Goto(t, "fail") /\ UNCHANGED <<clauses, issues>>
  /\ UNCHANGED <<scene, row, deleted, files, saved, req>>

MarkReviewing(t) ==
  /\ At(t, "analyze", "mark")
  /\ \/ /\ Update([task[t].r EXCEPT !.status = "reviewing_clauses"])
        /\ task' = [task EXCEPT ![t].pc = "check", ![t].r.status = "reviewing_clauses"]
     \/ UpdateFails /\ Redeliver(t)
  /\ UNCHANGED <<scene, deleted, clauses, issues, files, saved, req>>

CheckReview(t) ==
  /\ At(t, "analyze", "check")
  /\ \/ ~deleted /\ Goto(t, "infer")
     \/ DbFails /\ Done(t)
  /\ UNCHANGED <<scene, row, deleted, clauses, issues, files, saved, req>>

ReviewClause(t) ==
  /\ At(t, "analyze", "infer")
  /\ \/ "model" \in scene.faults /\ Goto(t, "fail")
     \/ ~deleted /\ Goto(t, "issues")
     \/ DbFails /\ Done(t)
  /\ UNCHANGED <<scene, row, deleted, clauses, issues, files, saved, req>>

OwnerOf(s) == IF clauses[s] = None THEN None ELSE clauses[s].by

\* One clause of the reply: the issue is stored unless its fingerprint is.
StoreIssue(t) ==
  /\ At(t, "analyze", "issues")
  /\ task[t].found < MaxFound
  /\ LET s == task[t].seq IN
       \/ /\ LockReview /\ OwnerOf(s) = t
          /\ \E f \in Findings :
               issues' = issues \union {[by |-> t, seq |-> s, finding |-> f]}
          /\ task' = [task EXCEPT ![t].found = @ + 1]
       \/ /\ DbFails \/ OwnerOf(s) # t
          /\ Goto(t, "fail") /\ UNCHANGED issues
  /\ UNCHANGED <<scene, row, deleted, clauses, files, saved, req>>

\* Save updates the clause this run created or inserts it again when it is
\* gone; another run's clause in that place, or a deleted review, is an error
\* the handler ignores.
CloseClause(t) ==
  /\ At(t, "analyze", "issues")
  /\ LET s == task[t].seq
         closed == [by |-> t, doc |-> task[t].r.content, done |-> TRUE]
     IN \/ LockReview /\ OwnerOf(s) \in {t, None} /\ clauses' = [clauses EXCEPT ![s] = closed]
        \/ (DbFails \/ OwnerOf(s) \notin {t, None}) /\ UNCHANGED clauses
  /\ Goto(t, "progress")
  /\ UNCHANGED <<scene, row, deleted, issues, files, saved, req>>

LastIsSecondLast(s) == s + 2 >= NClauses       \* mutant: the last clause is skipped
IsLast(s) == s + 1 >= NClauses

SaveProgress(t) ==
  /\ At(t, "analyze", "progress")
  /\ TryUpdate(task[t].r)
  /\ task' = [task EXCEPT ![t].found = 0,
                ![t].seq = IF IsLast(task[t].seq) THEN 0 ELSE @ + 1,
                ![t].pc = IF IsLast(task[t].seq) THEN "summarise" ELSE "check"]
  /\ UNCHANGED <<scene, deleted, clauses, issues, files, saved, req>>

\* The overview counts the stored issues; the model only words it.
Summarise(t) ==
  /\ At(t, "analyze", "summarise")
  /\ \/ /\ ~deleted
        /\ task' = [task EXCEPT ![t].pc = "complete",
                                ![t].r.overview = Cardinality(issues)]
     \/ DbFails /\ Redeliver(t)
  /\ UNCHANGED <<scene, row, deleted, clauses, issues, files, saved, req>>

Complete(t) ==
  /\ At(t, "analyze", "complete")
  /\ \/ Update([task[t].r EXCEPT !.status = "completed"]) /\ Done(t)
     \/ UpdateFails /\ Redeliver(t)
  /\ UNCHANGED <<scene, deleted, clauses, issues, files, saved, req>>

DocumentStep(t) ==
  ReceiveDocument(t) \/ ReopenDocument(t) \/ ReadDocument(t) \/ RecheckDocument(t)
    \/ SaveText(t)

ReviewStep(t) ==
  ReceiveReview(t) \/ ClearForRerun(t) \/ ReopenReview(t) \/ Prepare(t)
    \/ ReplaceClauses(t) \/ MarkReviewing(t) \/ CheckReview(t) \/ ReviewClause(t)
    \/ StoreIssue(t) \/ CloseClause(t) \/ SaveProgress(t) \/ Summarise(t) \/ Complete(t)

WorkerStep(t) == DocumentStep(t) \/ ReviewStep(t) \/ Fail(t) \/ Acknowledge(t)

-----------------------------------------------------------------------------
Next ==
  \/ \E q \in Requests : Request(q)
  \/ \E t \in Tasks : WorkerStep(t) \/ Expire(t) \/ DieUnacknowledged(t)

\* A handler that runs comes to its end and a queued task is delivered;
\* clients need not send anything.
Fairness ==
  /\ \A q \in Requests : WF_vars(RequestStep(q))
  /\ \A t \in Tasks : WF_vars(WorkerStep(t))

Spec == Init /\ [][Next]_vars /\ Fairness
-----------------------------------------------------------------------------
(* Types *)

RequestPCs == {"idle", "clear", "write", "dropOld", "enqueue", "markFailed",
               "unlink", "remove"}
DocumentPCs == {"reopen", "read", "recheck", "saveText"}
ReviewPCs == {"clear", "reopen", "prepare", "replace", "mark", "check", "infer",
              "issues", "progress", "summarise", "complete"}

RequestStates == [pc: RequestPCs, op: AllOps \union {None}, r: Rows,
                  old: Docs \union {None}]
TaskStates == [pc: {"free", "queued", "fail", "ending"} \union DocumentPCs \union ReviewPCs,
               kind: {None, "parse", "analyze"}, tries: 0 .. 2, r: Rows,
               seq: Seqs, found: 0 .. MaxFound]

\* Every variable has its type: a worker in particular never leaves the range
\* of the clauses, nor the queue the retries it was given.
TypeOK ==
  /\ scene \in Scenes
  /\ row \in Rows /\ deleted \in BOOLEAN
  /\ clauses \in [Seqs -> Clauses \union {None}] /\ issues \subseteq Issues
  /\ files \subseteq saved /\ saved \subseteq Docs
  /\ req \in [Requests -> RequestStates]
  /\ task \in [Tasks -> TaskStates]

-----------------------------------------------------------------------------
(* What holds whatever the clients and the workers do at the same time *)

\* A deleted review keeps no results: no worker that was reviewing it, however
\* late, writes a clause or an issue again (UpsertIssue, UpdateClause and
\* ReplaceClauses lock the review they write to).
NoResurrection == deleted => clauses = NoClauses /\ issues = {}

\* A delete is final, and what is behind it is frozen: no PATCH, upload or
\* worker that loaded the review before writes its row, a clause or an issue
\* after (repo.Update finds no row that is soft deleted, the others lock it).
DeletedIsFinal ==
  [][deleted => deleted' /\ row' = row /\ clauses' = clauses /\ issues' = issues]_vars

\* The extracted text of a review is the text of the document it shows, also
\* after two whole-row writes raced: an upload takes both or neither.
TextBelongsToDocument == row.content \in {None, row.ref}

\* A review that counts as parsed, under review or reviewed has text, whichever
\* of the parse and analysis tasks, retries and uploads wrote last.
ResultsNeedText ==
  row.status \in {"ready", "reviewing_clauses", "completed"} => row.content # None

\* Status, text and document of the stored row fit together, whoever wrote it
\* back last.
RowIsConsistent == TextBelongsToDocument /\ ResultsNeedText

-----------------------------------------------------------------------------
(* What holds when nothing overlaps *)

\* Nothing fails but what the scene may let happen.
Only(faults) == scene.faults \subseteq faults

\* At most one background task of the review is queued or runs, in one tab and
\* while neither parser, model nor database fails: the status guards alone keep
\* a worker that dies before its last write or a refused enqueue from leading to
\* a second run.  (They keep none away once a worker dies between its last write
\* and the queue's acknowledgement, or once a delivery failed.)
Active(t) == task[t].pc \notin {"free", "ending"}
OneRunAtATime ==
  scene.clients # "concurrent" /\ Only({"expiry", "enqueue"}) =>
    \A t, u \in Tasks : Active(t) /\ Active(u) => t = u

Reported ==
  /\ row.overview = Cardinality(issues)
  /\ \A s \in Seqs : clauses[s] # None /\ clauses[s].done /\ clauses[s].doc = row.ref
  /\ \A s1, s2 \in Seqs : clauses[s1].by = clauses[s2].by

WorkFails == {"parser", "model", "enqueue", "expiry", "unacked"}
Patient(faults) == scene.clients = "patient" /\ Only(faults)
Calm == Patient(WorkFails)

\* A completed review has a complete result: every clause of the document it
\* shows was reviewed by one run, and its overview counts the issues it lists.
ReportMatchesResults ==
  Calm /\ row.status = "completed" /\ ~deleted /\ NoneInFlight => Reported

\* Nothing is left behind in the file store by an upload that replaces a
\* document, by one whose row or results could not be stored, nor by a delete:
\* there is at most the document of the review.  And it is there, unless a
\* delete stopped halfway between the file and the row.
FilesMatchReview ==
  Patient(WorkFails \union {"db"}) /\ NoneInFlight =>
    /\ files \subseteq IF deleted THEN {} ELSE {row.ref}
    /\ ~deleted /\ row.ref # None /\ ("db" \in scene.faults => "delete" \notin scene.ops)
         => row.ref \in files

\* While parser and model alone fail, a running review stops running: it is
\* parsed, reviewed, failed or deleted.
Settles ==
  (scene.clients = "patient" /\ Only({"parser", "model"}) /\ Running(row.status))
    ~> (~Running(row.status) \/ deleted)

-----------------------------------------------------------------------------
(* The life cycle this module implements *)

\* A retry clears the results of a completed review before it stores the new
\* status: the report is withdrawn, and the review running, from then on.
Withdrawn == \E q \in Requests : req[q].op = "retry" /\ req[q].pc = "write"
Stage == CASE deleted -> "deleted"
           [] ~deleted /\ Withdrawn /\ row.content # None -> "analyzing"
           [] OTHER -> row.status
Report == IF Stage = "completed" /\ Reported THEN row.content ELSE None

Lifecycle == INSTANCE ReviewLifecycle
  WITH stage <- Stage, document <- row.ref, text <- row.content, report <- Report

ImplementsLifecycle == Lifecycle!Spec
=============================================================================
