----------------------------- MODULE SmartArchive -----------------------------
(***************************************************************************)
(* The recycle bin and the reminders of the smart archive: one document    *)
(* with its stored file and its mirror in the managed knowledge base, one  *)
(* reminder of that document with its occurrence and its notification, the *)
(* requests of users, and the reminder runner of every instance, which     *)
(* delivers what is due and then empties the expired part of the bin.      *)
(*                                                                         *)
(* A request or a scan loads whole rows and later saves the copy: a GORM   *)
(* Save updates every column and inserts the row when it is gone.  Between *)
(* two calls of the database anything else may happen.  The delivery of a  *)
(* reminder and the deletion of one are single transactions.               *)
(*                                                                         *)
(* `world` is chosen once: which requests users send ("one": one at a      *)
(* time, "lone": only one), whether one instance runs or several ("solo"), *)
(* whether the retention can lapse ("expiry"), whether the tenant has more *)
(* reminders than ListReminders returns before this one ("crowded"),       *)
(* whether the reminder is about a missing return ("loan"), and the        *)
(* faults: calls that fail ("db"), processes and requests that stop        *)
(* ("crash").  Suggestions of reminders, extraction and import are left    *)
(* out.                                                                    *)
(***************************************************************************)
EXTENDS Naturals, FiniteSets

CONSTANTS
    NRequests,      \* bound: requests of users who take turns, with one runner
    MaxOverlap,     \* bound: requests in the other worlds
    Scanners,       \* the reminder runners
    None,
    MaxTime,        \* bound: the clock stops there
    DueAt,          \* due_at of the reminder
    Retention,      \* trash_retention_days
    MaxFault,       \* bound: calls that fail and processes that stop
    Worlds          \* the sets `world` is chosen from

Ops == {"archive", "restore", "trash", "purge", "patch", "status", "snooze",
        "delrem", "dismiss"}

\* Requests are numbered as they arrive.  A restore names the mirror it makes
\* after itself.
Requests == 1 .. NRequests
Import == 0

ASSUME ArchiveAssumption ==
    /\ NRequests \in Nat /\ MaxOverlap \in 0 .. NRequests
    /\ Scanners \cap Nat = {} /\ None \notin Nat \cup Scanners \cup Ops \cup {"sent", "skipped"}
    /\ MaxTime \in Nat /\ DueAt \in 0 .. MaxTime /\ Retention \in 1 .. MaxTime
    /\ MaxFault \in Nat
    /\ Worlds \subseteq SUBSET (Ops \cup {"one", "lone", "solo", "expiry", "crowded", "loan", "db", "crash"})

VARIABLES
    world,
    now,
    doc,            \* the row of archive_documents, None when it is gone
    file,           \* the stored file and the parse artifact exist
    mirrors,        \* rows of the managed knowledge base that mirror the document
    rem,            \* the row of archive_reminders, None when it is gone
    occ,            \* status of its occurrence, None when there is none
    shown,          \* notifications in the assignee's list
    sent,           \* notifications made since the delivery artifacts were removed
    stopped,        \* a user deleted the reminder or trashed the document, and has
                    \* not activated the reminder since
    proc,           \* where each request and each scan is, with the rows it loaded
    faults

vars == <<world, now, doc, file, mirrors, rem, occ, shown, sent, stopped, proc, faults>>

Procs == Requests \cup Scanners
Times == 0 .. MaxTime
Statuses == {"draft", "active", "snoozed", "handled", "canceled"}
Documents == [archived : BOOLEAN, trashed : Times \cup {None}, returned : BOOLEAN,
              mirror : Requests \cup {Import, None}]
Reminders == [status : Statuses, until : Times \cup {None}, told : BOOLEAN]

ASSUME NoneAssumption == None \notin Documents \cup Reminders

\* `moved`: this request put the document into the bin.  `failed`: the clear
\* met an error.  `returned`: the loan was found returned.
Idle == [pc |-> "idle", op |-> None, doc |-> None, rem |-> None,
         moved |-> FALSE, failed |-> FALSE, returned |-> FALSE]

Steps == {"idle", "save", "resave", "remirror", "mark", "unmirror", "rollback", "link",
          "list", "cancel", "artifacts", "files", "hard", "saverem", "wake", "inspect",
          "deliver", "bin", "done"}
ProcStates == [pc : Steps, op : Ops \cup {None}, doc : Documents \cup {None},
               rem : Reminders \cup {None},
               moved : BOOLEAN, failed : BOOLEAN, returned : BOOLEAN]

TypeOK ==
    /\ world \in Worlds /\ now \in Times /\ faults \in 0 .. MaxFault
    /\ doc \in Documents \cup {None} /\ rem \in Reminders \cup {None}
    /\ file \in BOOLEAN /\ mirrors \subseteq Requests \cup {Import}
    /\ occ \in {"sent", "skipped", None} /\ shown \in Nat /\ sent \in Nat
    /\ stopped \in BOOLEAN
    /\ proc \in [Procs -> ProcStates]

\* An imported document, archived or not, whose reminder is a draft, waits or
\* is snoozed.
Init ==
    /\ world \in Worlds /\ now = 0 /\ faults = 0
    /\ doc \in [archived : BOOLEAN, trashed : {None}, returned : {FALSE}, mirror : {Import}]
    /\ file = TRUE /\ mirrors = {Import}
    /\ rem \in [status : {"draft", "active"}, until : {None}, told : {FALSE}] \cup
               (IF "snooze" \in world
                THEN [status : {"snoozed"}, until : {DueAt}, told : {FALSE}] ELSE {})
    /\ occ = None /\ shown = 0 /\ sent = 0 /\ stopped = FALSE
    /\ proc = [p \in Procs |-> Idle]

---------------------------------------------------------------------------
(* Steps of a request or scan p. *)

At(p, pc) == proc[p].pc = pc
To(p, pc) == proc' = [proc EXCEPT ![p].pc = pc]
End(p) == proc' = [proc EXCEPT ![p] = IF p \in Scanners THEN Idle ELSE [Idle EXCEPT !.pc = "done"]]

archive == <<doc, file, mirrors>>
delivery == <<occ, shown, sent>>
clock == <<world, now>>

RemoveArtifacts == occ' = None /\ shown' = 0 /\ sent' = 0

\* A user's request and its first read.  A document or a reminder that is not
\* there, and a state the operation refuses, end it.
Receive(r, op) ==
    /\ At(r, "idle") /\ op \in world /\ \A q \in 1 .. r - 1 : ~At(q, "idle")
    /\ "one" \in world => \A q \in Requests : At(q, "idle") \/ At(q, "done")
    /\ r <= (IF "lone" \in world THEN 1 ELSE IF {"one", "solo"} \subseteq world
             THEN NRequests ELSE MaxOverlap)
    /\ UNCHANGED <<clock, archive, faults>>

\* ArchiveDocument and UpdateDocument change the copy first.
Edit(r, op, copy, pc) ==
    /\ Receive(r, op) /\ doc # None
    /\ proc' = [proc EXCEPT ![r] = [Idle EXCEPT !.pc = pc, !.op = op, !.doc = copy]]
    /\ UNCHANGED <<rem, delivery, stopped>>

\* A restore from the bin makes the mirror again before the row changes.
ArchiveDocument(r) ==
    \/ Edit(r, "archive", [doc EXCEPT !.archived = TRUE], "save")
    \/ Edit(r, "restore", [doc EXCEPT !.archived = FALSE],
            IF doc.trashed = None THEN "save" ELSE "remirror")

UpdateDocument(r) ==
    Edit(r, "patch", [doc EXCEPT !.returned = ("loan" \in world)], "save")

DeleteDocument(r) ==
    /\ "expiry" \in world => now + Retention <= MaxTime
    /\ IF doc # None /\ doc.trashed = None
       THEN Edit(r, "trash", [doc EXCEPT !.trashed = now], "mark")
       ELSE Edit(r, "trash", doc, "unmirror")

permanentlyDeleteDocument(r) ==
    /\ doc # None /\ doc.archived /\ doc.trashed = None
    /\ Edit(r, "purge", doc, "list")

\* Any status goes with any snoozed_until, a missing or a past one included.
\* That of a draft, handled or canceled reminder is never read.
UpdateReminderStatus(r) ==
    /\ rem # None
    /\ \E status \in Statuses, until \in Times \cup {None} :
         LET op == IF status = "snoozed" THEN "snooze" ELSE "status"
         IN  /\ until # None => status \in {"active", "snoozed"}
             /\ Receive(r, op)
             /\ proc' = [proc EXCEPT ![r] = [Idle EXCEPT !.pc = "saverem", !.op = op,
                            !.rem = [rem EXCEPT !.status = status, !.until = until]]]
    /\ UNCHANGED <<rem, delivery, stopped>>

DeleteReminder(r) ==
    /\ Receive(r, "delrem") /\ rem # None
    /\ rem' = None /\ RemoveArtifacts /\ stopped' = TRUE
    /\ End(r)

DeleteNotification(r) ==
    /\ Receive(r, "dismiss") /\ shown > 0
    /\ shown' = shown - 1
    /\ End(r) /\ UNCHANGED <<rem, occ, sent, stopped>>

---------------------------------------------------------------------------
(* The calls of a request after its first read. *)

\* UpdateDocument saves a second time, after it has replaced the evidence, when
\* the document has extracted fields.
SaveDocument(p) ==
    /\ \/ At(p, "save") /\ proc[p].op = "patch" /\ To(p, "resave")
       \/ At(p, "save") /\ End(p)
       \/ At(p, "resave") /\ End(p)
       \/ At(p, "mark") /\ proc' = [proc EXCEPT ![p].pc = "unmirror", ![p].moved = TRUE]
       \/ At(p, "link") /\ proc' = [proc EXCEPT ![p] = [Idle EXCEPT !.pc = "list", !.op = "trash"]]
       \/ At(p, "rollback") /\ End(p)
    /\ doc' = IF At(p, "rollback") THEN [proc[p].doc EXCEPT !.trashed = None] ELSE proc[p].doc
    /\ UNCHANGED <<clock, file, mirrors, rem, delivery, stopped, faults>>

SaveReminder(p) ==
    /\ At(p, "saverem")
    /\ rem' = proc[p].rem
    /\ stopped' = (stopped /\ rem'.status \notin {"active", "snoozed"})
    /\ End(p) /\ UNCHANGED <<clock, archive, delivery, faults>>

\* The mirror could not be deleted: a delete takes its mark back.
KeepMirror(p) == IF proc[p].moved THEN To(p, "rollback") ELSE End(p)

\* A mirror that is not there is an error, since the repository does not return
\* the one that is tested for.
deleteManagedKnowledgeMirror(p) ==
    /\ At(p, "unmirror")
    /\ mirrors' = mirrors \ {proc[p].doc.mirror}
    /\ IF proc[p].doc.mirror \notin mirrors \cup {None} THEN KeepMirror(p)
       ELSE IF proc[p].op = "trash"
       THEN proc' = [proc EXCEPT ![p].pc = "link", ![p].doc = [@ EXCEPT !.mirror = None]]
       ELSE proc' = [proc EXCEPT ![p].pc = "files", ![p].doc = None]
    /\ UNCHANGED <<clock, doc, file, rem, delivery, stopped, faults>>

\* mutant: a restore makes the mirror and does not store which one it is.
restoreWithoutLink(p) ==
    /\ At(p, "remirror")
    /\ IF file
       THEN /\ mirrors' = mirrors \cup {p}
            /\ proc' = [proc EXCEPT ![p].pc = "save", ![p].doc.trashed = None]
       ELSE mirrors' = mirrors /\ End(p)
    /\ UNCHANGED <<clock, doc, file, rem, delivery, stopped, faults>>

\* The mirror comes from the stored file; without it the request fails.
restoreManagedKnowledgeMirror(p) ==
    /\ At(p, "remirror")
    /\ IF file
       THEN /\ mirrors' = mirrors \cup {p}
            /\ proc' = [proc EXCEPT ![p].pc = "save",
                                    ![p].doc = [@ EXCEPT !.mirror = p, !.trashed = None]]
       ELSE mirrors' = mirrors /\ End(p)
    /\ UNCHANGED <<clock, doc, file, rem, delivery, stopped, faults>>

\* clearDocumentReminderAssociations: what its caller does when it returns,
\* `failed` being the error it returns.
Cleared(p, failed) ==
    IF proc[p].op = "trash" \/ failed THEN End(p) ELSE To(p, "unmirror")

clearList(p) ==
    /\ At(p, "list")
    /\ IF rem = None \/ "crowded" \in world
       THEN /\ Cleared(p, FALSE)
            /\ stopped' = (stopped \/ p \in Requests)
       ELSE /\ IF rem.status \in {"handled", "canceled"}
               THEN To(p, "artifacts")
               ELSE proc' = [proc EXCEPT ![p].pc = "cancel", ![p].rem = rem]
            /\ UNCHANGED stopped
    /\ UNCHANGED <<clock, archive, rem, delivery, faults>>

clearCancel(p) ==
    /\ At(p, "cancel")
    /\ rem' = [proc[p].rem EXCEPT !.status = "canceled"]
    /\ proc' = [proc EXCEPT ![p].pc = "artifacts", ![p].rem = None]
    /\ UNCHANGED <<clock, archive, delivery, stopped, faults>>

clearArtifacts(p) ==
    /\ At(p, "artifacts")
    /\ RemoveArtifacts
    /\ Cleared(p, proc[p].failed)
    /\ stopped' = (stopped \/ (p \in Requests /\ ~proc[p].failed))
    /\ UNCHANGED <<clock, archive, rem, faults>>

\* mutant: the clean-up of the bin gives up, too, when the file is gone already.
DeleteFilesOrStop(p) ==
    /\ At(p, "files")
    /\ file' = FALSE
    /\ IF file THEN To(p, "hard") ELSE End(p)
    /\ UNCHANGED <<clock, doc, mirrors, rem, delivery, stopped, faults>>

\* A purge stops when the file service reports an error, which the local one
\* does for a file that is gone; the clean-up of the bin ignores it.
DeleteFiles(p) ==
    /\ At(p, "files")
    /\ file' = FALSE
    /\ \/ To(p, "hard")
       \/ ~file /\ p \in Requests /\ End(p)
    /\ UNCHANGED <<clock, doc, mirrors, rem, delivery, stopped, faults>>

HardDeleteDocument(p) ==
    /\ At(p, "hard")
    /\ doc' = None
    /\ End(p) /\ UNCHANGED <<clock, file, mirrors, rem, delivery, stopped, faults>>

---------------------------------------------------------------------------
(* A scan: RunDueReminders, then cleanupExpiredTrash. *)

\* mutant: only active reminders are listed.
ListedActive(row) ==
    /\ row.status = "active" /\ (row.until = None \/ row.until <= now)
    /\ DueAt <= now /\ ~row.told

Listed(row) ==
    /\ \/ row.status = "active" /\ (row.until = None \/ row.until <= now)
       \/ row.status = "snoozed" /\ row.until # None /\ row.until <= now
    /\ DueAt <= now /\ ~row.told

Deliverable == IF "loan" \in world THEN "inspect" ELSE "deliver"

ListDueReminders(s) ==
    /\ At(s, "idle")
    /\ "solo" \in world => s = CHOOSE t \in Scanners : TRUE
    /\ IF rem # None /\ Listed(rem)
       THEN IF rem.status = "snoozed"
            THEN proc' = [proc EXCEPT ![s].pc = "wake", ![s].rem = rem]
            ELSE To(s, Deliverable)
       ELSE To(s, "bin")
    /\ UNCHANGED <<clock, archive, rem, delivery, stopped, faults>>

Wake(s) ==
    /\ At(s, "wake")
    /\ rem' = [proc[s].rem EXCEPT !.status = "active", !.until = None]
    /\ proc' = [proc EXCEPT ![s].pc = Deliverable, ![s].rem = None]
    /\ UNCHANGED <<clock, archive, delivery, stopped, faults>>

hasArchiveReturnRecord(s) ==
    /\ At(s, "inspect")
    /\ proc' = [proc EXCEPT ![s].returned = (doc # None /\ doc.returned), ![s].pc = "deliver"]
    /\ UNCHANGED <<clock, archive, rem, delivery, stopped, faults>>

\* mutant: the occurrence that exists already is not looked up.
DeliverAgain(s) ==
    /\ occ' = IF proc[s].returned THEN "skipped" ELSE "sent"
    /\ LET new == IF proc[s].returned THEN 0 ELSE 1
       IN  shown' = shown + new /\ sent' = sent + new
    /\ rem' = [rem EXCEPT !.told = TRUE]

\* One transaction, on the row as it is now.
Deliver(s) ==
    /\ occ' = IF occ # None THEN occ ELSE IF proc[s].returned THEN "skipped" ELSE "sent"
    /\ LET new == IF occ = None /\ ~proc[s].returned THEN 1 ELSE 0
       IN  shown' = shown + new /\ sent' = sent + new
    /\ rem' = IF rem.status = "snoozed" /\ rem.until # None /\ rem.until <= now
              THEN [status |-> "active", until |-> None, told |-> TRUE]
              ELSE [rem EXCEPT !.told = TRUE]

\* mutant: the status is that of the scan, not of the locked row.
DeliverListed(s) ==
    /\ At(s, "deliver")
    /\ IF rem # None THEN Deliver(s) ELSE UNCHANGED <<rem, delivery>>
    /\ proc' = [proc EXCEPT ![s] = [Idle EXCEPT !.pc = "bin"]]
    /\ UNCHANGED <<clock, archive, stopped, faults>>

DeliverReminder(s) ==
    /\ At(s, "deliver")
    /\ IF rem # None /\ rem.status \in {"active", "snoozed"}
       THEN Deliver(s) ELSE UNCHANGED <<rem, delivery>>
    /\ proc' = [proc EXCEPT ![s] = [Idle EXCEPT !.pc = "bin"]]
    /\ UNCHANGED <<clock, archive, stopped, faults>>

Expired(row) == "expiry" \in world /\ row.trashed # None /\ row.trashed + Retention <= now

ListTrashedDocuments(s) ==
    /\ At(s, "bin")
    /\ IF doc # None /\ Expired(doc)
       THEN proc' = [proc EXCEPT ![s].doc = doc, ![s].pc = "list"]
       ELSE End(s)
    /\ UNCHANGED <<clock, archive, rem, delivery, stopped, faults>>

---------------------------------------------------------------------------
(* Faults and time. *)

\* A call fails.  The
\* reminders of a clear are handled as far as possible; a scan goes on to the
\* bin; the clean-up ignores a file that stays.
Refuse(p) ==
    /\ "db" \in world /\ faults < MaxFault /\ faults' = faults + 1
    /\ CASE At(p, "unmirror") -> /\ proc[p].doc.mirror # None
                                /\ KeepMirror(p)
         [] At(p, "cancel") -> proc' = [proc EXCEPT ![p].pc = "artifacts", ![p].rem = None,
                                                  ![p].failed = TRUE]
         [] At(p, "inspect") -> To(p, "deliver")
         [] At(p, "wake") \/ At(p, "deliver") ->
                proc' = [proc EXCEPT ![p] = [Idle EXCEPT !.pc = "bin"]]
         [] At(p, "files") /\ p \in Scanners -> To(p, "hard")
         [] At(p, "idle") \/ At(p, "done") -> FALSE
         [] OTHER -> End(p)
    /\ UNCHANGED <<clock, archive, rem, delivery, stopped>>

\* A process dies, or the client of a request goes away, between two calls.
Crash(p) ==
    /\ "crash" \in world /\ faults < MaxFault /\ faults' = faults + 1
    /\ proc[p].pc \notin {"idle", "done"}
    /\ End(p) /\ UNCHANGED <<clock, archive, rem, delivery, stopped>>

AtRest == \A r \in Requests : At(r, "idle") \/ At(r, "done")

\* Where the retention can lapse a tick is a day: no request outlasts one.
Tick ==
    /\ now < MaxTime /\ now' = now + 1
    /\ "expiry" \in world => AtRest
    /\ UNCHANGED <<world, archive, rem, delivery, stopped, proc, faults>>
---------------------------------------------------------------------------
(* The specification. *)

Ask(r) ==
    \/ ArchiveDocument(r) \/ UpdateDocument(r) \/ DeleteDocument(r)
    \/ permanentlyDeleteDocument(r) \/ UpdateReminderStatus(r) \/ DeleteReminder(r)
    \/ DeleteNotification(r)

Continue(p) ==
    \/ SaveDocument(p) \/ SaveReminder(p)
    \/ deleteManagedKnowledgeMirror(p) \/ restoreManagedKnowledgeMirror(p)
    \/ clearList(p) \/ clearCancel(p) \/ clearArtifacts(p)
    \/ DeleteFiles(p) \/ HardDeleteDocument(p)

Scan(s) ==
    \/ ListDueReminders(s) \/ Wake(s) \/ hasArchiveReturnRecord(s) \/ DeliverReminder(s)
    \/ ListTrashedDocuments(s) \/ Continue(s)

Next ==
    \/ \E r \in Requests : Ask(r) \/ Continue(r)
    \/ \E s \in Scanners : Scan(s)
    \/ \E p \in Procs : Refuse(p) \/ Crash(p)
    \/ Tick

Spec == Init /\ [][Next]_vars

\* Time passes, a request goes on, and every runner goes on scanning: its timer
\* fires at the latest every five minutes, and a restart scans at once.
FairSpec ==
    /\ Spec /\ WF_vars(Tick)
    /\ WF_vars(\E r \in Requests : Continue(r))
    /\ \A s \in Scanners : WF_vars(Scan(s))

---------------------------------------------------------------------------
(* Properties. *)

\* Whatever runners, retries, restarts and stale saves of the reminder do, its
\* due time makes one notification as long as its delivery artifacts are not
\* removed.
NotifiedOnce == sent <= 1

\* Users who take turns: once one of them deleted the reminder or put the
\* document into the bin, no further notification of it is made before it is
\* activated again.
StoppedIsQuiet == [][ "one" \in world /\ stopped /\ stopped' => shown' <= shown ]_vars

\* Whatever fails, dies or overlaps, a document that goes takes its searchable
\* mirror with it: no purge, no clean-up and no retry deletes the row first.
\* (Without restores: a new mirror is made before the row names it.)
NoMirrorWithoutRow == "restore" \notin world /\ doc = None => mirrors = {}

\* Users who take turns and calls that work: between two requests a document
\* of the archive has its file and just the mirror it names, one in the bin
\* has no mirror that could be searched and names none, and one that is gone
\* has left neither behind.  (A restore that overlaps the clean-up of the same document
\* is left out: the row goes and the new mirror stays.)
CleanBetweenRequests ==
    "one" \in world /\ faults = 0 /\ AtRest /\ ~({"expiry", "restore"} \subseteq world) =>
        /\ doc = None => ~file /\ mirrors = {}
        /\ doc # None => mirrors = (IF doc.trashed = None THEN {doc.mirror} ELSE {})
        /\ doc # None => (IF doc.trashed = None THEN file ELSE doc.mirror = None)

\* The two together: the row, the file and the mirror of a document agree.
NothingLeftBehind == NoMirrorWithoutRow /\ CleanBetweenRequests

\* A reminder that some scan will list, when its time has come.  (One that is
\* snoozed without an end is never listed.)
Waiting ==
    /\ rem # None /\ occ = None /\ ~rem.told
    /\ rem.status = "active" \/ (rem.status = "snoozed" /\ rem.until # None)

\* A reminder that waits is delivered, or found unnecessary, unless a user
\* puts it aside: no wakeup, restart or failed transaction loses it.
WaitingIsDelivered == Waiting ~> ~Waiting

\* A document in the bin leaves it when its time is up, through every failed
\* or interrupted clean-up, unless its mirror is gone and the link to it was
\* not cleared: then every clean-up of it fails.
Dangling == doc.mirror \notin mirrors \cup {None}
InTheBin == "expiry" \in world /\ doc # None /\ doc.trashed # None /\ ~Dangling
TrashIsReclaimed == InTheBin ~> ~InTheBin
=============================================================================
