# A verification project for LexAI

LexAI is a legal AI workbench built as a Go fork of WeKnora: a web API with
background tasks, an agent engine, IM bots and, in the deployments with several
instances, Redis for everything the instances have to agree on. The modules here
model the parts of it whose correctness depends on *order*: who writes a row
after whom, what a late command does, what a dead process leaves behind. TLC
checks them on small instances; TLAPS proves the safety properties for every
instance.

Paths below are those of the repository.

## 1. Inventory

| component | state it keeps | operations | hard part | status |
|---|---|---|---|---|
| **contract review** `internal/application/service/contract_review.go`, repository, handler | row in `contract_reviews`, clauses, issues, file in the store | create, update, archive, upload, start, retry, delete; tasks `ProcessDocument`, `ProcessReview` | whole-row writes of copies loaded earlier; tasks that are redelivered, overlap or outlive the review; a database, a file store and a queue without a common transaction | modelled, safety proved |
| **Redis lock** `internal/common/redislock` | one key with token and lease per lock, a renewal goroutine per owner | `WithRenewableLock` | leases that end under a running callback, late and repeated commands, renewal racing release | modelled, safety proved |
| **model concurrency limiter** `internal/models/limiter` | sorted set of slots per model, heartbeats, the process-wide limit | `GateNamedN`, `Acquire`, release, `SetGlobalLimit` | leases scored by different clocks, heartbeat racing release, lost answers | modelled but for Lite mode, safety proved |
| **IM question queue** `internal/im/qaqueue.go` and the entry, `/stop` and execution in `service.go` | queue per instance, counts per user and of the gate in Redis, inflight map, stop markers | `Enqueue`, `Remove`, workers, `Stop`, `/stop` | counters kept in step over six ways out of the queue, dead instances, a gate shared by all instances | modelled, safety proved |
| **tool approval gate** `internal/agent/approval` | waiters in memory of one instance, Pub/Sub messages | `RequestAndWait`, `RequestOAuthAndWait`, `Resolve`, `runSubscriber` | timer, cancel and decisions racing; a decision taken at one instance for a wait in another | modelled, safety proved |
| **task queue** `internal/router/task.go`, `sync_task.go` | asynq queues in Redis, or an in-process executor in Lite mode | enqueue, deliver, retry, dead letter | redelivery after a crash, timeouts | as far as contract and knowledge tasks meet it |
| **remote sandbox sessions** `internal/sandbox`, `session_sandbox_pin.go`, the deletion in `session.go` | binding of a session to a remote sandbox, the session's pin on a sandbox config, sandboxes at the provider | resolve (connect, adopt, create, bind), destroy, pin, delete a session | create-then-bind without a transaction, under a lock that can be lost; answers of the provider that are lost or come late; agents with different configs in one session | coordinator, binding and pin modelled, safety proved |
| **smart archive** `.../smart_archive.go`, its repository, the runner in `container.go` | row in `archive_documents`, stored file, mirror in a managed knowledge base, reminders with occurrences and notifications | archive, restore, trash, purge, correct; remind, snooze, handle, delete, dismiss; the reminder runner of each instance, which delivers and then empties the bin | whole rows written back from copies loaded earlier; two runners; a delete over database, knowledge base, file store and reminders without a common transaction | bin, mirror and reminders modelled, safety proved |
| **knowledge processing** `.../knowledge_process.go`, `knowledge_post_process.go`, `image_multimodal.go`, `knowledge_housekeeping.go`, `knowledge_span_tracker.go` | row in `knowledges` with status and subtask counter, chunks, index, attempts, image counter in Redis | tasks: document, image, post-process, subtasks; cancel, delete, reparse; housekeeping sweep | fan-out and join twice, at-least-once tasks, whole-row saves of copies loaded earlier, requests against running tasks, a sweep that decides on old data | one document's pipeline modelled, its safety proved |
| **IM connections** `internal/im/service.go`, `supervisor.go` | leader keys, running adapters, message ids seen | start, stop, elect, deduplicate | leases again, with a different protocol | planned |
| **rate limiter** `internal/ratelimit` | sorted set of hits | allow | two hits of an instance in one millisecond share a member | planned |
| **chat streams** `internal/stream`, `internal/handler/session` | events of an answer, in memory or Redis | append, replay, stop | readers that join late | planned |
| **wiki ingestion, FAQ import, clone and move, data source sync, temporary documents, memory** `internal/application/service` | task progress and rows | one background task each | retries | not modelled |
| **agent engine, retrieval, chunking, model providers, MCP client, tracing** | conversation, indexes | model and network calls | none that a state machine would show | not modelled |
| **tenants, sharing, settings; web, CLI, SDK clients** | rows; nothing | CRUD; user interface | none of concurrency; the web client appears as what contract review's clients wait for | not modelled |

The components interact as follows. HTTP handlers call services, services write
the database and enqueue tasks, workers of any instance run them. Model calls of
all of them pass the limiter. The agent calls MCP tools through the approval gate,
and its shell tools through the sandbox manager, which takes the Redis lock around
every change of a session's binding. Every way a document enters a knowledge base
(upload, URL, data source, IM attachment, and the mirror of an archived document)
ends in the document task. IM messages pass the question queue before they start
an agent.

`PROJECT.json` lists the components, the hazards with their lines, the runs and
the map from every definition to the source lines it stands for.

## 2. Modules

| module | what it is |
|---|---|
| `ReviewLifecycle` | what a contract review promises its user, in single steps |
| `ContractReview` | the service, its requests and tasks, one step per database, file or queue call; implements `ReviewLifecycle` |
| `ExclusiveLock` | what `WithRenewableLock` promises those who work under it |
| `RedisLock` | `WithRenewableLock` with commands under way, a lease that runs down and a renewal goroutine; implements `ExclusiveLock` |
| `ModelLimiter` | gate, acquire script, heartbeat and release over a sorted set |
| `QAQueue` | queues, workers, gate, counters, `/stop` of several instances |
| `ApprovalGate` | one wait and the decisions about it |
| `SandboxSession` | one session: its executions and its deletion against binding, pin, lifecycle lock and provider |
| `KnowledgeProcessing` | one document: its tasks, the requests of users and the housekeeping sweep |
| `SmartArchive` | one archived document with file, mirror and reminder: requests of users and the reminder runners |
| `...Proofs` | theorems about the module of that name |
| `MC...` | values for the constants of the runs |

A module that more than one environment applies to has a constant that holds a
*set* of environments and a variable fixed by `Init` (`scene` in `ContractReview`,
`faults` in `RedisLock`, `ModelLimiter` and `SandboxSession`, `env` in `QAQueue`
and `ApprovalGate`, `setting` in `KnowledgeProcessing`, `world` in
`SmartArchive`). One run therefore covers several of them, and a property that
only some environments allow names them: `"stall" \notin faults => ...`. An
environment is left out of a property only where the code really fails there;
section 6 lists those cases.

Operators marked "mutant" in the modules are faulty variants of the definition
after them. They show that each property can fail; nothing else uses them.

### ContractReview

One review: row locks are per review and no operation reads two. `Init` is the
state after `Create`. A bulk action is a sequence of single ones. `row` is the
stored row; every request and every task carries the copy `r` it loaded, and
`Update(r)` writes that whole copy back, as `repo.Update` does. The title,
progress and wording are abstracted, so a rename appears as what it is: a
write-back of a whole row. A clause belongs to the task that made it (`by`).

| step | code |
|---|---|
| `Edit`, `Upload`, `Start`, `Retry`, `Delete` | the load and checks of the operation |
| `RequestClear`, `RequestWrite`, `DropOldFile`, `Enqueue`, `MarkFailed`, `DeleteFile`, `RemoveReview` | its further calls, in order; each may fail |
| `HangUp` | the client goes away and the request's context is cancelled |
| `Receive...`, `Reopen...`, `ReadDocument`, `RecheckDocument`, `SaveText` | `ProcessDocument` |
| `ClearForRerun`, `Prepare`, `ReplaceClauses`, `MarkReviewing`, `CheckReview`, `ReviewClause`, `StoreIssue`, `CloseClause`, `SaveProgress`, `Summarise`, `Complete` | `ProcessReview` |
| `Fail`, `Redeliver`, `Expire` | `fail()`, asynq's retry (2 for parsing, 1 for analysis), the loss of a worker or the task's timeout |
| `Done`, `Acknowledge`, `DieUnacknowledged` | the handler returns no error; asynq removes the task; or the worker dies before it could, and the task is delivered again |

A scene says which operations clients use, which failures happen, and what
clients wait for: nothing (`concurrent`), the answer to the one request they sent
(`single_tab`; an assumption about one browser tab), or also the end of the
background work, up to its acknowledgement (`patient`). The refinement mapping counts a report as withdrawn
from the moment a retry has begun to clear it.

### RedisLock, ModelLimiter

A call of `RedisLock` is one execution of `WithRenewableLock` with a token of its
own. `wire` holds the commands under way: the server executes one at any time,
also after its sender gave it up, and, with `retry`, a second time. Time passes
in ticks; `Slack` bounds how late a timer is served and a command executed
unless the environment has `stall`. `SlackAssumption` relates it to the code's
60 s lease and 20 s renewal: it holds for delays below 13 s. `met` records pairs
of callbacks that ran at once and is read by one property only.

`ExclusiveLock` has one step each for the start of a callback (`Enter`), the release
(`Free`), a return without an error (`Win`), any other end (`Fail`) and the loss of
the lock to a stall (`Depose`). A call whose ownership context is cancelled counts
as ended, for it will return an error. `Win` needs that the call has freed the lock
itself, and only the holder can: a call that returns no error therefore held the
lock from the start of its callback to its release, whatever stalled.

`ModelLimiter` uses the same time. The acquire script prunes, counts and admits
atomically, with an age of up to `Skew` more than the true one, which is a clock
that runs ahead; a clock behind the others prunes too late and is not modelled.
A heartbeat is ZADD and then PEXPIRE, and its `select` may take either of "stop"
and "tick" when both are ready. With the code's TTL of 30 s and beat of 10 s
the assumption holds for `2 * Slack + Skew < 20 s`.

### QAQueue

Requests are used once. Workers are anonymous: `Busy(i) < Workers`. Time is left
out: a request may be found too old whenever it is dequeued, and a key expires
when nothing has renewed it in the model (`GateExpires` needs that nobody polls,
for a poll every 500 ms renews the five minutes). With `slow`, keys also expire
while a request is running. A crashed instance restarts empty. The stop event
that `/stop` writes for a request that is running elsewhere only lets its handler
return sooner, which it may do anyway.

### ApprovalGate

Everything is keyed by the pending id, so one wait is modelled, at `Owner`, with
its one-place channel and its `once`. A decision is the call that made it, by the
owner of the session, another user of the tenant or another tenant; a waiter that
does not know its session's user (`named` is FALSE) lets every user of the tenant
decide, as `gate.go:653` does. `deliverLocal` is two
steps, since it delivers after it has released the mutex. A subscriber reads
one message at a time; the acknowledgements go to every call that listens on the
reply channel of this pending id, and `Mine`, the test of the nonce, tells them
apart. A wait whose announcement fails, or whose instance dies, is `Aborted`: what
is in its channel nobody reads.

### SandboxSession

A call is an execution in the session, or its deletion. `StartExecution`, `Pin`,
`StartDeletion`, `Clear` and `DeleteRow` are the code around the coordinator; the
steps between `Lock` and `Return` are `Resolve` and `Destroy`, one per command to
the binding store, the database or the provider:

| step | code (`session_lifecycle.go`) |
|---|---|
| `ReadBinding`, `CheckSession`, `Connect`, `Unbind` | `resolveLocked`, `connectBinding` |
| `List`, `Adopt`, `Duplicates`, `BindSandbox` | `recoverOwnedSandbox`, `cleanupOwnedDuplicates` |
| `Create`, `Recheck`, `BindSandbox`, `WhoWon`, `Cleanup` | `createAndBind` |
| `Winner`, `ConnectWinner` | `connectWinner`, `connectKnownWinner` |
| `Destroy`, `DestroyUnbind` | `Destroy`, `destroyBindingLocked` |
| `StepFails`, `CleanupFails`, `OutsideFails` | the error branches; a command that fails may have been executed |

The lock is an `ExclusiveLock`, which `RedisLock` is proved to implement: one
holder, whom a stall can depose (`LoseLock`) without its noticing before the next
renewal (`NoticeLoss`).
A deposed call gives no sandbox to its caller: its release finds the lock gone, and
the call ends in an error. `abandoned`, `late` and `entered` are history that the
properties read. A backend is a sandbox config, and `hosts` says which configs of a
behaviour share the provider, or the account too. A binding names the provider
only, so the coordinator takes the sandbox of another config for its own
(`SameProvider`) and connects to it, or deletes it, if the account is the same
(`Reachable`); with another account the provider knows no such sandbox, which is
taken for one that is gone. Sandboxes are found again by the metadata that carries
session and config, which is why `Owned` looks at the backend itself.

### KnowledgeProcessing

One document in a knowledge base with embeddings and without wiki. A task carries
its attempt, as its payload does; `chunks` and `index` are the sets of attempts
that have something stored there. `UpdateKnowledge(s)` is a write of the status
that goes through whatever the row has become, a save of the summary task included
(it writes the status it loaded, `seen`). The two statements of `FinalizeSubtask`
are two steps. Enrichment other than the summary touches the row only through the
counter, so any number of kinds is covered by `Subtasks`.

| step | code |
|---|---|
| `StartDocument` ... `EnqueueNext` | `ProcessDocument`, `processChunks` with its four checks for an abort |
| `StartImage`, `ImageEnds`, `ImageFails`, `CountImage` | `ImageMultimodalService.Handle` |
| `StartPost`, `ListChunks`, `CompleteEmpty`, `SetFinalizing`, `FanOut`, `PostFails` | `KnowledgePostProcessService.Handle` |
| `StartSubtask`, `MarkSummary`, `WorkEnds`, `SaveSummary`, `WorkFails` | the subtasks, the summary in detail |
| `Decrement`, `Promote` | `FinalizeSubtask` |
| `Ask`, `WriteStatus`, `Dequeue`, `OpenAttempt`, `CleanResources`, `RemoveRow`, `ResetCount`, `EnqueueReparse` | `CancelKnowledgeParse`, `DeleteKnowledge`, `ReparseKnowledge` |
| `Acknowledge`, `Crash`, `Stop` | asynq: a task ends, is recovered, is told to stop |
| `Sweep`, `ApplySweep` | `runSweep`, with `filterOutQueued` |

`setting` names the faults (`fail`, `enqueue`: the queue refuses a task, `redis`:
a decrement of the image counter fails, `probe`: the sweep asks the queue in vain,
`crash`), the kind of document
(`images`, `empty`), the deployment (`lite`: no Redis), the requests (`cancel`,
`delete`, `reparse`) and how they meet the tasks: `impatient` users reparse a
document that is still processed, `signal` stops running tasks, `window` lets
something happen between the sweep's query and its update, and `overwrite` lets
a request fall between a check of the document task and its write of the status.
Time is left out: the sweep for rows nothing has moved for long (`Stale`) needs
that nothing is running, for a task that runs keeps its row fresh or has timed
out long before.

### SmartArchive

One document and one reminder about it. Documents meet only in lists, and a
delivery concerns one reminder. A request or a scan carries the rows it loaded
(`proc[p].doc`, `proc[p].rem`), and a save writes the whole copy, inserting the
row when it is gone, as GORM's `Save` does. The mirror is an entry of the managed
knowledge base, whose processing is `KnowledgeProcessing`'s subject. `sent` and
`stopped` are history: how many notifications were made since the last removal of
the delivery artifacts, and whether a user has put an end to the reminder. A
reminder's status can be stored with any `snoozed_until`, a missing or past one
included, as the handler accepts it. A mirror that is gone already makes a delete
fail, as the code does it and not as its comment has it (section 6).

| step | code (`smart_archive.go` of service and repository) |
|---|---|
| `ArchiveDocument`, `UpdateDocument`, `DeleteDocument`, `permanentlyDeleteDocument`, `UpdateReminderStatus`, `DeleteReminder`, `DeleteNotification` | a request's load and checks, and what it does at once |
| `SaveDocument`, `SaveReminder` | the saves of the copy, the roll-back of a delete included |
| `restoreManagedKnowledgeMirror`, `deleteManagedKnowledgeMirror` | the mirror is made from the file, or removed |
| `clearList`, `clearCancel`, `clearArtifacts` | `clearDocumentReminderAssociations` |
| `DeleteFiles`, `HardDeleteDocument` | the end of a purge and of the clean-up |
| `ListDueReminders`, `Wake`, `hasArchiveReturnRecord`, `DeliverReminder` | `RunDueReminders` |
| `ListTrashedDocuments` | `cleanupExpiredTrash`, which goes on with the steps of a purge |
| `Refuse`, `Crash` | a call fails, with what the code does about it; a process or a request ends between two calls |

`world` names the requests users send and how: taking turns (`one`), one only
(`lone`), or else overlapping; one runner (`solo`) or all; whether the retention
can lapse (`expiry`); whether this reminder is behind the five hundred that a
clear reads (`crowded`); whether it asks for a missing return (`loan`, which a
return record answers); failing calls (`db`) and crashes (`crash`).

## 3. Runs

Deadlock is not checked in any of them: in each of these systems it is normal
that all work is done and nobody sends any more.

| run | instance | question |
|---|---|---|
| `contract_races` | 2 requests, 2 tasks, 1 clause, 2 documents | do racing requests and late workers keep a review consistent? Does a request that fails halfway leave a file behind? Scenes: unrestrained clients with archive and a failing model; one tab with two overlapping tasks, failing model and database and abandoned requests; one tab with workers that die before their last write and a failing queue; one tab with workers that die after it; a client that waits with a failing database and everything above, with and without deletes |
| `contract_patient` | 1 request, 1 task, 2 clauses, 2 documents, 2 findings | does a client that waits see the documented life cycle, a complete report, and an end? |
| `lock` | 2 calls, lease 3, renewal 1, no slack | do callbacks exclude each other, is an overlap reported and nothing else, is a loss noticed, does a waiter get on, and is this an `ExclusiveLock`? Environments: failing, repeated and late commands with crashes and cancels; crashes and cancels alone; stalls with failing commands and crashes |
| `limiter` | 2 calls, limits 0..1, TTL 2, beat 1, no slack | is the limit kept while it changes, do lost slots come back, does nobody block for good? Environments: stalls with crashes; a failing network; repeated scripts with crashes and cancels |
| `qa` | 2 instances, 2 users, 3 requests, limits of 1 | do limits and counters hold, and does every accepted request end? Three questions when nothing special happens; two with cancels, stops, a closing or crashing instance, failing or slow Redis, or no Redis |
| `qa_stop` | 2 instances, 1 user | *violated*: `/stop` hits earlier questions only |
| `approval` | 2 instances, 2 decisions | are callers told the truth, does everybody stop waiting? |
| `sandbox` | 3 calls, 2 backends, 3 sandboxes | are two callers of a session ever in two live sandboxes, is one deleted under its user, is one left behind? Five sets of faults, each with backends that share nothing, the provider, or the account |
| `knowledge` | 2 images, 2 subtasks, 3 attempts, 1 retry, 1 crash | is a row completed too early, does something of a deleted or an older document stay, does enrichment run twice, does every row end? Fourteen settings |
| `knowledge_cancel` | 2 subtasks, cancel | *violated*: a cancelled document stays cancelled |
| `archive` | up to 3 requests in turn, 2 that overlap, 2 runners, clock 0..2, retention 1, 1 fault | is a due time notified once and a stopped reminder not at all, do row, file and mirror agree between requests and does no row go before its mirror, is what waits delivered and what is in the bin removed? Eleven worlds |
| `archive_comeback` | 1 request, 1 runner | *violated*: a deleted reminder, or that of a trashed document, stays quiet |

Why these bounds suffice for what they are meant to show. Two actors are what
every race in the code needs, a third would repeat one of them; for counters, a
limit of one with two candidates, and in `qa` a third request to have one refused
while one runs and one waits. Two clauses in `contract_patient` let a run be
interrupted between them. Two uploads let a document replace one that is being
read. The lock runs with lease 3, the limiter with TTL 2 and beat 1, and neither
with slack, so that liveness can be checked with the safety: their safety under
delays and skewed clocks is what `LockSafe`, `LimiterSafe` and `AdmissionSafe`
prove, for every slack and skew the assumptions allow. Three calls and three
sandboxes let a deletion overlap two executions that have recovered and created
one each. Three requests in turn are trash, restore and trash again, and a clock
of 0..2 with a retention of 1 has a moment before, at and after each deadline. One
retry and one crash let every step of a task happen again, and three attempts let
a reparse follow two tries of the upload's task. The proofs of section 5 do not
depend on any of these.

Fairness is weak fairness of what a goroutine does next: `Request` and
`WorkerStep` in `ContractReview`; the steps of a running call and of its renewal,
the server and time in `RedisLock` and `ModelLimiter`; inserting and working in
`QAQueue`; the waiter (its timer included), each call and each subscriber in
`ApprovalGate`; in `KnowledgeProcessing` the workers, a request that was begun,
and the sweep, which is a cron; in `SmartArchive` time and the runner of each
instance, which scans at start-up and every five minutes, whatever becomes of its
timer, and the requests that are under way (`SandboxSession` has safety properties
only). Nobody is assumed to send, decide, cancel or crash. Four cases need an argument. `Tick` has strong fairness
in `RedisLock` and `ModelLimiter`, since time cannot be held up for ever by
commands that come and go. `StopBeat` has *strong* fairness: Go's `select` chooses
uniformly among ready cases, so a heartbeat that finds the stop channel closed
cannot choose the ticker for ever. `GateExpires` is fair since it is a TTL that
runs out. `WaiterProceeds` assumes that callbacks return, which is not the lock's
to ensure. The liveness of the limiter leaves `retry` out: nothing in the model
bounds how often the library repeats a script whose answer is lost.

## 4. What the properties say

Every module has one type invariant, `TypeOK`. It is proved, and therefore in no
cfg. The others:

| module | property | in words |
|---|---|---|
| ContractReview | `DeletedIsFinal` | no late worker and no stale write brings back a deleted review or adds to its results |
| | `RowIsConsistent` | the text is that of the document shown; nothing counts as parsed or reviewed without it |
| | `OneRunAtATime` | the status guards keep a second run from starting, even with refused enqueues and workers that die before their last write |
| | `ReportMatchesResults` | a completed review lists every clause of its document, by one run, and counts its issues |
| | `FilesMatchReview` | no upload and no delete leaves a file behind, or takes away the one that is shown, also when the database fails in the middle |
| | `Settles` | a running review ends |
| | `ImplementsLifecycle` | the implementation refines `ReviewLifecycle` |
| RedisLock | `MutualExclusion`, `OverlapIsReported` | callbacks exclude each other unless something stalls, and then one of the two calls reports it |
| | `OnlyOwnerReleases`, `NoFalseAlarm` | late commands harm nobody; a healthy call reports no loss |
| | `ImplementsExclusiveLock` | who returns no error had the lock all along; only a stall takes it from a call at work |
| | `LossIsNoticed`, `WaiterProceeds` | liveness |
| ModelLimiter | `HoldersKeepSlots`, `AdmitsWithinLimit` | a live holder keeps its slot, so the limit holds |
| | `SlotsComeBack`, `NeverBlocksForGood` | liveness |
| QAQueue | `LimitsHold` | nobody has more questions under way, and no more run, than configured |
| | `CountersMatch` | every way out of the queue gives back what it took, once |
| | `EveryRequestEnds` | liveness |
| ApprovalGate | `AnswersAreTrue`, `NotFoundIsTrue` | a caller told that its decision counts, or another's, is told what the tool call gets, unless that ends in an error and gets nothing; one told "not found" has decided nothing |
| | `WaitsEnd` | liveness: the tool call and the callers stop waiting |
| SandboxSession | `LiveHandlesAreBound`, `AtMostOnePerBackend` | callers share one sandbox; a backend never has two |
| | `UsedSandboxesSurvive`, `NothingLeftBehind` | none is deleted under its user, none is forgotten |
| | `PinNamesTheBackend` | the pin parts no session from its sandbox |
| KnowledgeProcessing | `JoinsWait` | post-processing waits for all images, the completion for all subtasks; the latter where the sweep can ask the queue |
| | `SubtasksRunOnce` | a post-process task started twice does not fan out twice |
| | `NoOrphanChunks`, `CompletedIsSearchable` | nothing of a deleted document stays; a completed one is stored and indexed, with its latest attempt only |
| | `NothingStranded`, `Settles` | a row in progress has a task that moves it on, or housekeeping ends it |
| SmartArchive | `NotifiedOnce` | a due time makes one notification, whatever runners, restarts and stale saves do |
| | `StoppedIsQuiet` | a reminder that was deleted, or whose document was trashed, notifies nobody until it is activated again |
| | `NothingLeftBehind` | between two requests of users who take turns row, file and mirror agree; without restores, whatever fails, dies or overlaps, no row goes before its mirror |
| | `WaitingIsDelivered`, `TrashIsReclaimed` | liveness: through failed and interrupted scans; not for a reminder snoozed without an end, nor for a document whose link dangles |

Three more properties are proved and in no run, since the proof needs no
instance: `NoResurrection` (`ContractReview`), `OwnerDecides` (`ApprovalGate`) and
`DeletedSessionsGetNothing` (`SandboxSession`).

## 5. What is proved

The theorems hold for every value of the constants that meets the named
assumptions of the module. Each proof is an inductive invariant, with one step
per action.

| theorem | states | why the invariant has to say more |
|---|---|---|
| `ContractReviewProofs!ContractReviewSafe` | `TypeOK`, `RowIsConsistent`, `NoResurrection` | any copy of the row may be written back, so `Sound` speaks of every copy held by a request or a task, not only of the stored row; and a worker keeps what it checked: a review past `Prepare` has text, a parse past `ReadDocument` a document |
| `ContractReviewProofs!DeleteIsFinal` | `DeletedIsFinal` | whoever adds clauses or issues has found the row, and its clauses go with it: `Sound` again |
| `ContractReviewProofs!OneRunHolds`, `ReportHolds`, `FilesHold` | `OneRunAtATime`, `ReportMatchesResults`, `FilesMatchReview` | `QInv`, which assumes one tab: a request that leads to a run finds no task; an edit may write back an older running status, never over an outcome; the clauses of a worker are its own and done up to its place. `FInv`, for the files, allows a failing database: the store holds at most the row's document, the one that enters and the one that leaves, and a request or worker under way knows the row's |
| `ContractReviewProofs!LifecycleHolds` | `ImplementsLifecycle`, when the scene is `Calm` at the start | `LoadFits`, `CopyFits`: what a request or a worker has loaded is the row as the abstract state sees it, so that each write of a copy is one step of `ReviewLifecycle` |
| `RedisLockProofs!LockSafe` | `MutualExclusion` | `TimelyOK`: lease left + phase of the ticker + what is late is at least a lease, so the key outlives the callback; `WiresOK`: where a command under way can come from |
| `RedisLockProofs!OverlapReported` | `OverlapIsReported` | `MeetingsOK`: of two callbacks that met one is doomed to return an error |
| `RedisLockProofs!NoFalseAlarmHolds` | `NoFalseAlarm` | `SoundOK`: with no stall, failing network or repeated command the key is the call's from the start of its callback to its release, which runs once and is confirmed; on top of `KeptOK` and `FatesOK` |
| `RedisLockProofs!OwnerReleases` | `OnlyOwnerReleases` | needs `WiresOK` |
| `RedisLockProofs!LockImplements` | `ImplementsExclusiveLock` | `KeptOK`: with no stall the lease outlasts the release too, by the third `Slack` of `SlackAssumption`; `FatesOK`: nothing is lost before the callback, errors are joined at the end, a released key is nobody's or another's |
| `ModelLimiterProofs!LimiterSafe` | `HoldersKeepSlots` | the same sum twice: for the score of the member, and for the expiry of the set |
| `ModelLimiterProofs!AdmissionSafe` | `AdmitsWithinLimit` | every holder is counted by the script, by `LimiterSafe`'s invariant |
| `QAQueueProofs!TypeCorrect` | `TypeOK` | `PlacesOK`: a queued request is in the queue of its instance, once, and no queue holds another |
| `QAQueueProofs!CountersHold` | `CountersMatch` | `CountOK`, `GateOK`, `LocalOK`: each counter is the cardinality of the set of requests it stands for, at every step between two calls of Redis |
| `QAQueueProofs!LimitsHolds` | `LimitsHold` | the same with `<=`, for a dead instance leaves its counts behind |
| `ApprovalGateProofs!AnswersHold` | `AnswersAreTrue` | `OneDecision`: channel, once and result hold one decision; `OnePlace`: a decision is with its caller, in one inbox or in one subscriber, never in two of them |
| `ApprovalGateProofs!OwnerHolds` | `OwnerDecides` | `Cleared`: whoever is past the lookup was found to be entitled: of the tenant, and the session's user when that is known |
| `ApprovalGateProofs!NotFoundHolds` | `NotFoundIsTrue` | `Followed`: a waiting call's decision is under way or its acknowledgement is there |
| `SandboxSessionProofs!TypeHolds` | `TypeOK` | inductive as it stands |
| `SandboxSessionProofs!HandlesHold` | `LiveHandlesAreBound` | `CallOK`: what a call has read or picked under the lock is bound or gone, whoever drops a binding found its sandbox gone or is of another backend (`MayDrop`) |
| `SandboxSessionProofs!DeletedGetNothing` | `DeletedSessionsGetNothing` | `EntryOK`: an execution past its look at the row has been entered as one that found it |
| `SandboxSessionProofs!PinHolds` | `PinNamesTheBackend` | `PinInv`: until a deletion goes past its teardown, everyone who asks for the lock or holds it uses the pinned backend |
| `SandboxSessionProofs!UsedSurvive` | `UsedSandboxesSurvive` | `HoldInv`: without a stall a call at a step under the lock holds it, and what it read of the binding is still true |
| `SandboxSessionProofs!OneHolds` | `AtMostOnePerBackend` | `OneInv`: whoever is about to create has listed, and found none alive |
| `SandboxSessionProofs!NothingLeft` | `NothingLeftBehind` | `KeptInv`: what lives is bound, was let go by another backend or is in the hands of its creator; `TornInv`: after the teardown it is late, or about to be cleaned up |
| `SmartArchiveProofs!ReminderSentOnce` | `NotifiedOnce` | `Delivered`: nothing was sent without an occurrence, which the transaction looks for |
| `SmartArchiveProofs!ArchiveTypes` | `TypeOK` | `LoadedOK`: at each step that saves or removes something the request or scan has loaded it |
| `SmartArchiveProofs!BinIsClean` | `NothingLeftBehind` | `BinInv`: the request at work knows the only mirror and whether the document is in the bin, and a scan that empties the bin has a document that no request brings back. `MirrorInv`, which needs neither turns nor working calls: while the mirror is there the row and every copy of it name it, and nobody is past its deletion |
| `SmartArchiveProofs!StoppedStaysQuiet` | `StoppedIsQuiet`, in worlds without `snooze` and `crowded` | `QuietInv`: no copy of the reminder says snoozed, and a clear that comes to the artifacts has put the reminder aside. With either feature the property fails (`archive_comeback`) |
| `KnowledgeProcessingProofs!TypeCorrect` | `TypeOK` | a document task past `MarkProcessing` knows its attempt |
| `KnowledgeProcessingProofs!SubtasksHold` | `SubtasksRunOnce` | `Base`: without dead workers and impatient users a document task works alone, on an attempt nothing else has worked for; every other task works for the latest attempt; and the row is seeded once in an attempt, by one post-process task, for nobody takes it back to `processing` afterwards |
| `KnowledgeProcessingProofs!SearchableHolds` | `CompletedIsSearchable` | `StoredOK`: until it hands over, the step of the document task tells what is stored; a row that is completed has been handed over, or a reparse has begun to rewrite it |
| `KnowledgeProcessingProofs!NoOrphans` | `NoOrphanChunks` | `OrphanOK`: once a deletion has cleaned up, only a document task at a step before its next check has put something back |
| `KnowledgeProcessingProofs!JoinsHold` | `JoinsWait` | `ImagesOK`: the counter in Redis never runs ahead of the images that are left; `SlotsOK`: the row's counter covers the subtasks that hold a slot and the slots still owed for refused ones, and no copy of the row that is going to be saved says completed |
| `KnowledgeProcessingProofs!NothingStrands` | `NothingStranded` | `Moving`: neither counter lags behind what it counts, so the last image starts the post-process task and the last subtask completes the row |

The argument for `KnowledgeProcessing` is layered: type, `Base`, what is stored, what
a deletion leaves, the two joins, what moves the row on. Each layer is an invariant
that assumes those below it, and each states its own restriction of `setting`, as
the property does that follows from it. TLC checked each layer on small instances
before it was proved.

Every invariant and every action property of the passing runs is proved, and so are
both refinements (`StoppedIsQuiet` and `ImplementsLifecycle` for the worlds and
scenes that the table names; the runs have no others in which they say something).
What is left to TLC alone is liveness (`Settles` of
`ContractReview` and `KnowledgeProcessing`, `LossIsNoticed`, `WaiterProceeds`,
`SlotsComeBack`, `NeverBlocksForGood`, `EveryRequestEnds`, `WaitsEnd`,
`WaitingIsDelivered`, `TrashIsReclaimed`): it needs fairness, which rests on ENABLED,
and the prover does not reason about that.

## 6. Where the code falls short of its text

Three runs are counterexamples to what the repository says of itself:

- `qa_stop`: `/stop` leaves a marker even when there was nothing to stop, and it
  discards the next question. `service.go:1850` describes it as a matter of
  questions asked before.
- `knowledge_cancel`: the summary task loads the row, and saves all of it but the
  counter after its model call. A cancel in between is overwritten by
  `finalizing`, and the release of the task's slot promotes the row to completed.
  `knowledge_process.go:2774-2776` says that a late subtask cannot do that.
- `archive_comeback`: a runner wakes a snoozed reminder by saving the row it listed
  (`smart_archive.go:2342`). If the user has deleted the reminder in between, the
  save inserts it again, and its assignee is notified. `docs/smart-archive.md:45`
  says that deleting a paused reminder ends its scheduling, and that moving the
  document to the bin cancels its reminders. A second world shows the latter fail
  in another way: the clear reads the tenant's first 500 reminders only (line 1699).

Elsewhere a property is restricted because the code does not keep it. In contract
review: a second run, although `contract_review_test.go:147` says that a running
review must not have one: after a failed delivery, which shows `failed` while the
queue keeps the retry, or after a worker that died between its last write (lines
420, 701) and the acknowledgement, when the user has started the next run before
the queue recovers the old task, which passes the guards too (380, 566)
(`OneRunAtATime`); overlapping uploads and deletes, and a delete whose second half
fails (`FilesMatchReview`); a retry that is cut off between clearing the results of
a completed review and storing its status (line 340, `ReportMatchesResults`); a task whose timeout cancels the context with which
`fail()` stores `failed` (`contract_review.go:425`; `docs/contract-review.md:9`
promises the status), or a retry whose task the queue refuses (line 331), leave
the review in a running state (`Settles`); a PATCH whose checks looked at the row
before an analysis began changes its configuration or archives it (line 146); in
Lite mode a restart loses the tasks (`sync_task.go:78`). A repeated release
reports a loss (`NoFalseAlarm`). At the question queue's gate: Redis errors and
cancelled contexts (`LimitsHold`, `CountersMatch`); the poll of a
waiting worker renews the counter of a dead instance, which `qaqueue.go:27-28`
says heals itself (`EveryRequestEnds`); and two questions of one user overwrite
each other's entry in the inflight map, so that `/stop` misses one
(`service.go:1848`). Answers about an approval that are late or lost
(`NotFoundIsTrue`); a decision that reached a wait before its announcement failed
(`gate.go:375`) or its instance died is reported as taken over and lost
(`AnswersAreTrue`). The Lite semaphore of the limiter keeps the capacity of its
first use (`governor.go:132`).

In the sandbox lifecycle: a sandbox created between the teardown and the deletion
of the row stays (`late`); a creation carried out after its caller gave up leaves a
second one (`AtMostOnePerBackend`); `ReapOrphanSandboxes` would find them, but only
tests call it; a deletion whose read of the pin fails goes on without a teardown
(`session.go:675-679`); a binding carries no config (`session_lifecycle.go:163`), so
a config with the same provider and another account drops a live sandbox it cannot
reach; and `session.go:680-684` says that a session without a pin falls
through to the default manager, which is a disabled one now
(`tenant_sandbox_resolve.go:90-94`).

In knowledge processing: in Lite mode there is no queue to ask, and a subtask that
waits for its retry (`sync_task.go:99`) has no open span, so the second sweep
completes its row (`JoinsWait`); `task_inspector.go:1243-1245` says that
inline executors have no backlog. A subtask that is run twice because its worker
died releases its slot twice (`JoinsWait`). When the sweep's question to the queue
fails, `filterOutQueued` keeps the row (`knowledge_housekeeping.go:393-398`), and
the first two sweeps complete a row whose subtasks are all queued, although the
comment at lines 153-154 has the second fire only when "the queue backend has no task
for the knowledge" (`probe`, which `NoEarlyCompletion` leaves out; with it TLC finds
the row completed). The other properties hold with such a sweep, too, and the fairness
of the sweep counts only the times it need not fail. The upload's task
carries no attempt, against the comment at `knowledge_process.go:3311-3316`: each
retry opens one of its own, and the check of the queue for the latest attempt does
not find the task itself. The callback for dead letters writes `failed` over
whatever the status is (`task.go:428`). An image task stores OCR text after a
delete; a status written between the document task's check and its own write
(lines 3301-3306) is lost (`overwrite`, `NoOrphanChunks`); a reparse of a document
that is still processed can mix two attempts (`impatient`, `CompletedIsSearchable`),
and when the document is then deleted, the task that was still at work leaves chunks
behind (`NoOrphanChunks`). The first two sweeps update the rows they found without
another look at the status (`knowledge_housekeeping.go:134-178`): if the user has
reparsed the document in between, it is completed with no chunk, or before its new
enrichment (`SweepsInTime`, `window`).

In the smart archive: a restore that overlaps the clean-up of the same document
ends with the row deleted and the new mirror still searchable (line 2391); a
restore whose save fails leaves the mirror it made (line 1685); two users who
overlap can do worse, since a correction saves the whole row twice (lines 1519 and
1547) and so takes a trashed document out of the bin, or inserts a purged one
again. Hence the agreement in `NothingLeftBehind` is that of users who take turns
and calls that work, and its second half, for everyone, leaves restores out. A
mirror that is gone already is an error for the next delete: `smart_archive.go:1387`
and `:1405` test for `gorm.ErrRecordNotFound`, but the repository returns
`ErrKnowledgeNotFound` (`repository/knowledge.go:14`, `67-70`), although the comment
at 1388-1390 says that clearing the dangling link "keeps the archive operation
idempotent". If a delete dies or fails between the mirror (1749) and the save that
clears the link (1759), or a purge after the mirror, then every later delete, purge
and clean-up of the document fails, and it stays; `TrashIsReclaimed` leaves such a
`Dangling` document out, and a tick, where the retention can lapse, is a day that no
request outlasts. A reminder that is stored as snoozed without `snoozed_until`
(`handler/smart_archive.go:509-518` and the service at 2287 accept it) is listed by
no scan (`smart_archive.go:323` of the repository) and waits for ever;
`WaitingIsDelivered` leaves it out. With local storage a purge that failed after it had removed the file cannot
be repeated, for `local.go:147` reports an error for a file that is gone; the
clean-up, which ignores it, is what `TrashIsReclaimed` shows to get on. A
reminder that was delivered and is then snoozed is not notified again, for its last
occurrence lies at or after its due time (`smart_archive.go:323` of the
repository); `WaitingIsDelivered` counts it as delivered.

## 7. Not modelled

Within the modelled components: content, titles, progress and formatting of a
review; argument checks and tokens of the lock; statistics of the limiter and
its in-process channel in Lite mode; the metrics of the question queue; which
tools need an approval; pauses, file transfer and the orphan reaper of sandboxes,
the cordon and lease of a sandbox config; and of knowledge processing manual
documents, batch requests, the wiki slot, automatic tags, the chunks that image
tasks and the summary add, database errors, deletions of chunks that fail, the
spans themselves, the reconciliation at start-up; and of the smart archive import,
extraction and its retry, suggested reminders, customers, assets, links, search and
settings. Lite mode's executor forgets its
tasks at a restart, while `ContractReview` and `KnowledgeProcessing` assume a
queue that redelivers. The other components are listed in section 1 with the
reason.

## 8. Plan

1. Proofs: what the models below bring with them; for what is modelled, the safety
   properties are done.
2. The sandbox config's cordon and lease around `SandboxSession`; the wiki slot and
   the reconciliation at start-up of `KnowledgeProcessing`.
3. `IMConnections`: leader election and deduplication; then the rate limiter and
   chat streams.

A run answers one question about one module; safety and liveness share a run where
the time allows.
