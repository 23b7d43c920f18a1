------------------------- MODULE SmartArchiveProofs -------------------------
(***************************************************************************)
(* Proofs about SmartArchive, for any number of requests and runners, any  *)
(* times and any worlds: the delivery of a reminder is idempotent, no step *)
(* uses a row it has not loaded, users who take turns find row, file and   *)
(* mirror in agreement, and a reminder they have put an end to is quiet.   *)
(***************************************************************************)
EXTENDS SmartArchive, TLAPS

\* The steps that use the document, and the reminder, that were loaded.
DocumentSteps == {"save", "resave", "remirror", "mark", "unmirror", "rollback", "link"}
ClearSteps == {"list", "cancel", "artifacts"}
ReminderSteps == {"saverem", "wake", "cancel"}

LoadedOK(x, p) ==
    /\ x.pc \in DocumentSteps => x.doc # None
    /\ x.pc \in ClearSteps /\ x.op # "trash" => x.doc # None
    /\ x.pc \in ReminderSteps => x.rem # None
    /\ x.pc \in {"remirror", "saverem"} => p \in Requests

ProcInv == proc \in [Procs -> ProcStates] /\ \A p \in Procs : LoadedOK(proc[p], p)

\* What the transaction of a delivery keeps: nothing was sent before there is
\* an occurrence.
Delivered ==
    /\ sent \in 0 .. 1
    /\ occ = None => sent = 0

IInv ==
    /\ TypeOK
    /\ ProcInv
    /\ Delivered

LEMMA ConstantFacts ==
    /\ None # "sent" /\ None # "skipped" /\ None # Import
    /\ \A r \in Requests : r \notin Scanners /\ r # None
    /\ Requests \subseteq Procs /\ Scanners \subseteq Procs
    /\ Times \subseteq Nat /\ 0 \in Times /\ DueAt \in Times
    /\ \A row \in Documents \cup Reminders : row # None
BY ArchiveAssumption, NoneAssumption DEF Requests, Import, Procs, Times

LEMMA IdleOK ==
    /\ Idle \in ProcStates /\ [Idle EXCEPT !.pc = "done"] \in ProcStates
    /\ Idle.pc = "idle" /\ Idle.op = None /\ Idle.doc = None /\ Idle.rem = None
BY DEF Idle, ProcStates, Steps

LEMMA InitIInv == Init => IInv
<1> SUFFICES ASSUME Init PROVE IInv
  OBVIOUS
<1>1. proc \in [Procs -> ProcStates]
  BY IdleOK DEF Init
<1>2. ProcInv
  BY <1>1 DEF ProcInv, Init, LoadedOK, Idle, DocumentSteps, ClearSteps, ReminderSteps
<1>3. doc \in Documents
  BY DEF Init, Documents, Import
<1>4. rem \in Reminders
  <2> DEFINE waits == [status : {"draft", "active"}, until : {None}, told : {FALSE}]
             sleeps == [status : {"snoozed"}, until : {DueAt}, told : {FALSE}]
  <2>1. rem \in waits \cup (IF "snooze" \in world THEN sleeps ELSE {})
    BY DEF Init
  <2>2. waits \subseteq Reminders
    BY DEF Reminders, Statuses
  <2>3. sleeps \subseteq Reminders
    BY ConstantFacts DEF Reminders, Statuses
  <2> HIDE DEF waits, sleeps
  <2>4. rem \in waits \/ rem \in sleeps
    <3>1. CASE "snooze" \in world
      BY <2>1, <3>1
    <3>2. CASE "snooze" \notin world
      BY <2>1, <3>2
    <3> QED BY <3>1, <3>2
  <2> QED BY <2>2, <2>3, <2>4
<1>5. TypeOK
  <2>1. /\ world \in Worlds /\ now = 0 /\ faults = 0 /\ file = TRUE /\ mirrors = {Import}
        /\ occ = None /\ shown = 0 /\ sent = 0 /\ stopped = FALSE
    BY DEF Init
  <2>2. faults \in 0 .. MaxFault /\ now \in Times /\ shown \in Nat /\ sent \in Nat
    BY <2>1, ArchiveAssumption, ConstantFacts
  <2> QED BY <1>1, <1>3, <1>4, <2>1, <2>2 DEF TypeOK
<1> QED BY <1>2, <1>5 DEF IInv, Delivered, Init

---------------------------------------------------------------------------
(* Where the requests and the scans are. *)

LEMMA Fields ==
    ASSUME NEW x \in ProcStates
    PROVE  /\ x.pc \in Steps /\ x.op \in Ops \cup {None}
           /\ x.doc \in Documents \cup {None} /\ x.rem \in Reminders \cup {None}
           /\ x.moved \in BOOLEAN /\ x.failed \in BOOLEAN /\ x.returned \in BOOLEAN
BY DEF ProcStates

\* A step of p to a state that is typed and has loaded what it uses.
LEMMA MoveStep ==
    ASSUME ProcInv, NEW p \in Procs, NEW x \in ProcStates, LoadedOK(x, p),
           proc' = [proc EXCEPT ![p] = x]
    PROVE  ProcInv'
<1>1. proc' \in [Procs -> ProcStates]
  BY DEF ProcInv
<1>2. \A q \in Procs : (proc'[q] = x /\ q = p) \/ proc'[q] = proc[q]
  BY DEF ProcInv
<1>3. \A q \in Procs : LoadedOK(proc'[q], q)
  BY <1>2 DEF ProcInv
<1> QED BY <1>1, <1>3 DEF ProcInv, LoadedOK

LEMMA EndStep ==
    ASSUME ProcInv, NEW p \in Procs, End(p)
    PROVE  ProcInv'
<1>1. PICK x \in {Idle, [Idle EXCEPT !.pc = "done"]} : proc' = [proc EXCEPT ![p] = x]
  BY DEF End
<1>2. x \in ProcStates /\ LoadedOK(x, p)
  BY IdleOK DEF LoadedOK, Idle, DocumentSteps, ClearSteps, ReminderSteps
<1> QED BY <1>1, <1>2, MoveStep

LEMMA ToStep ==
    ASSUME ProcInv, NEW p \in Procs, NEW pc \in Steps, To(p, pc),
           LoadedOK([proc[p] EXCEPT !.pc = pc], p)
    PROVE  ProcInv'
<1>1. [proc[p] EXCEPT !.pc = pc] \in ProcStates
  BY DEF ProcInv, ProcStates
<1>2. proc' = [proc EXCEPT ![p] = [proc[p] EXCEPT !.pc = pc]]
  BY DEF To
<1> QED BY <1>1, <1>2, MoveStep

LEMMA AskProc ==
    ASSUME IInv, NEW r \in Requests, Ask(r)
    PROVE  ProcInv'
<1> USE DEF IInv
<1> r \in Procs
  BY ConstantFacts
<1>1. ASSUME NEW op \in {"archive", "restore", "patch", "trash", "purge"},
             NEW copy \in Documents,
             NEW pc \in {"save", "remirror", "mark", "unmirror", "list"}, Edit(r, op, copy, pc)
      PROVE  ProcInv'
  <2> DEFINE x == [Idle EXCEPT !.pc = pc, !.op = op, !.doc = copy]
  <2>1. x \in ProcStates /\ LoadedOK(x, r)
    BY ConstantFacts, NoneAssumption DEF Idle, ProcStates, Steps, Ops, LoadedOK, DocumentSteps,
       ClearSteps, ReminderSteps
  <2>2. proc' = [proc EXCEPT ![r] = x]
    BY <1>1 DEF Edit
  <2> QED BY <2>1, <2>2, MoveStep
<1>2. doc # None => doc \in Documents
  BY DEF TypeOK
<1>3. CASE ArchiveDocument(r)
  <2>1. doc # None
    BY <1>3 DEF ArchiveDocument, Edit
  <2>2. /\ [doc EXCEPT !.archived = TRUE] \in Documents
        /\ [doc EXCEPT !.archived = FALSE] \in Documents
    BY <1>2, <2>1 DEF Documents
  <2> QED BY <1>1, <1>3, <2>2 DEF ArchiveDocument
<1>4. CASE UpdateDocument(r)
  <2>1. doc # None
    BY <1>4 DEF UpdateDocument, Edit
  <2>2. [doc EXCEPT !.returned = ("loan" \in world)] \in Documents
    <3> DEFINE b == "loan" \in world
    <3>1. b \in BOOLEAN
      OBVIOUS
    <3> HIDE DEF b
    <3>2. [doc EXCEPT !.returned = b] \in Documents
      BY <1>2, <2>1, <3>1 DEF Documents
    <3> QED BY <3>2 DEF b
  <2> QED BY <1>1, <1>4, <2>2 DEF UpdateDocument
<1>5. CASE DeleteDocument(r)
  <2>1. doc # None
    BY <1>5 DEF DeleteDocument, Edit
  <2>2. [doc EXCEPT !.trashed = now] \in Documents
    BY <1>2, <2>1 DEF Documents, TypeOK
  <2> QED BY <1>1, <1>2, <1>5, <2>1, <2>2 DEF DeleteDocument
<1>6. CASE permanentlyDeleteDocument(r)
  BY <1>1, <1>2, <1>6 DEF permanentlyDeleteDocument
<1>7. CASE UpdateReminderStatus(r)
  <2>1. PICK status \in Statuses, until \in Times \cup {None}, op \in {"status", "snooze"} :
             proc' = [proc EXCEPT ![r] = [Idle EXCEPT !.pc = "saverem", !.op = op,
                          !.rem = [rem EXCEPT !.status = status, !.until = until]]]
    <3>1. \A time \in now + 1 .. MaxTime : time \in Times
      BY ArchiveAssumption, ConstantFacts DEF TypeOK, Times
    <3> QED BY <1>7, <3>1 DEF UpdateReminderStatus, Statuses
  <2> DEFINE copy == [rem EXCEPT !.status = status, !.until = until]
             x == [Idle EXCEPT !.pc = "saverem", !.op = op, !.rem = copy]
  <2>2. copy \in Reminders
    BY <1>7 DEF UpdateReminderStatus, TypeOK, Reminders
  <2>3. copy # None
    BY <2>2, NoneAssumption
  <2> HIDE DEF copy
  <2>4. x \in ProcStates /\ LoadedOK(x, r)
    BY <2>2, <2>3 DEF Idle, ProcStates, Steps, Ops, LoadedOK, DocumentSteps, ClearSteps,
       ReminderSteps
  <2> QED BY <2>1, <2>4, MoveStep DEF copy
<1>8. CASE DeleteReminder(r)
  BY <1>8, EndStep DEF DeleteReminder
<1>9. CASE DeleteNotification(r)
  BY <1>9, EndStep DEF DeleteNotification
<1> QED BY <1>3, <1>4, <1>5, <1>6, <1>7, <1>8, <1>9 DEF Ask

LEMMA ContinueProc ==
    ASSUME IInv, NEW p \in Procs, Continue(p)
    PROVE  ProcInv'
<1> DEFINE x == proc[p]
<1> x \in ProcStates /\ LoadedOK(x, p)
  BY DEF IInv, ProcInv
<1> HIDE DEF x
<1> ProcInv /\ None \notin Documents \cup Reminders
  BY NoneAssumption DEF IInv
<1>1. ASSUME NEW y \in ProcStates, LoadedOK(y, p), proc' = [proc EXCEPT ![p] = y]
      PROVE  ProcInv'
  BY <1>1, MoveStep
<1>2. ASSUME At(p, "list") \/ At(p, "artifacts"), NEW failed \in BOOLEAN, Cleared(p, failed)
      PROVE  ProcInv'
  <2>1. CASE End(p)
    BY <2>1, EndStep
  <2>2. CASE To(p, "unmirror") /\ proc[p].op # "trash"
    <3>1. proc[p].doc # None
      BY <1>2, <2>2 DEF At, LoadedOK, ClearSteps, x
    <3>2. LoadedOK([x EXCEPT !.pc = "unmirror"], p)
      BY <3>1 DEF LoadedOK, DocumentSteps, ClearSteps, ReminderSteps, x, ProcStates
    <3> QED BY <2>2, <3>2, ToStep DEF Steps, x
  <2> QED BY <1>2, <2>1, <2>2 DEF Cleared
<1>3. CASE SaveDocument(p)
  <2>1. CASE At(p, "save") /\ To(p, "resave")
    <3>1. LoadedOK([x EXCEPT !.pc = "resave"], p)
      BY <2>1 DEF At, LoadedOK, DocumentSteps, ClearSteps, ReminderSteps, x, ProcStates
    <3> QED BY <2>1, <3>1, ToStep DEF Steps, x
  <2>2. CASE At(p, "mark") /\ proc' = [proc EXCEPT ![p].pc = "unmirror", ![p].moved = TRUE]
    <3> DEFINE y == [x EXCEPT !.pc = "unmirror", !.moved = TRUE]
    <3>1. y \in ProcStates /\ proc' = [proc EXCEPT ![p] = y]
      BY <2>2 DEF ProcStates, Steps, x, ProcInv
    <3>2. LoadedOK(y, p)
      BY <2>2 DEF At, LoadedOK, DocumentSteps, ClearSteps, ReminderSteps, x, ProcStates
    <3> QED BY <1>1, <3>1, <3>2
  <2>3. CASE proc' = [proc EXCEPT ![p] = [Idle EXCEPT !.pc = "list", !.op = "trash"]]
    <3> DEFINE y == [Idle EXCEPT !.pc = "list", !.op = "trash"]
    <3>1. y \in ProcStates /\ LoadedOK(y, p)
      BY DEF Idle, ProcStates, Steps, Ops, LoadedOK, DocumentSteps, ClearSteps, ReminderSteps
    <3> QED BY <1>1, <2>3, <3>1
  <2>4. CASE End(p)
    BY <2>4, EndStep
  <2> QED BY <1>3, <2>1, <2>2, <2>3, <2>4 DEF SaveDocument
<1>4. CASE SaveReminder(p)
  BY <1>4, EndStep DEF SaveReminder
<1>5. CASE deleteManagedKnowledgeMirror(p)
  <2>1. At(p, "unmirror") /\ proc[p].doc \in Documents
    BY <1>5 DEF deleteManagedKnowledgeMirror, At, LoadedOK, DocumentSteps, ProcStates, x
  <2>0. CASE KeepMirror(p)
    <3>1. LoadedOK([x EXCEPT !.pc = "rollback"], p)
      BY <2>1 DEF At, LoadedOK, DocumentSteps, ClearSteps, ReminderSteps, x, ProcStates
    <3> QED BY <2>0, <3>1, ToStep, EndStep DEF KeepMirror, Steps, x
  <2>2. CASE ~KeepMirror(p) /\ proc[p].op = "trash"
    <3> DEFINE row == [proc[p].doc EXCEPT !.mirror = None]
               y == [x EXCEPT !.pc = "link", !.doc = row]
    <3>1. row \in Documents
      BY <2>1 DEF Documents
    <3>3. y \in ProcStates /\ LoadedOK(y, p)
      BY <3>1 DEF ProcStates, Steps, LoadedOK, DocumentSteps, ClearSteps, ReminderSteps
    <3>4. proc' = [proc EXCEPT ![p] = y]
      BY <1>5, <2>2 DEF deleteManagedKnowledgeMirror, x, ProcInv, ProcStates
    <3> QED BY <1>1, <3>3, <3>4
  <2>3. CASE ~KeepMirror(p) /\ proc[p].op # "trash"
    <3> DEFINE y == [x EXCEPT !.pc = "files", !.doc = None]
    <3>1. y \in ProcStates /\ LoadedOK(y, p)
      BY DEF ProcStates, Steps, LoadedOK, DocumentSteps, ClearSteps, ReminderSteps
    <3>2. proc' = [proc EXCEPT ![p] = y]
      BY <1>5, <2>3 DEF deleteManagedKnowledgeMirror, x, ProcInv, ProcStates
    <3> QED BY <1>1, <3>1, <3>2
  <2> QED BY <2>0, <2>2, <2>3
<1>6. CASE restoreManagedKnowledgeMirror(p)
  <2>1. CASE file
    <3>1. p \in Requests /\ proc[p].doc \in Documents
      BY <1>6 DEF restoreManagedKnowledgeMirror, At, LoadedOK, DocumentSteps, ProcStates, x
    <3> DEFINE row == [proc[p].doc EXCEPT !.mirror = p, !.trashed = None]
               y == [x EXCEPT !.pc = "save", !.doc = row]
    <3>2. row \in Documents
      BY <3>1 DEF Documents
    <3>3. y \in ProcStates /\ LoadedOK(y, p)
      BY <3>2 DEF ProcStates, Steps, LoadedOK, DocumentSteps, ClearSteps, ReminderSteps
    <3>4. proc' = [proc EXCEPT ![p] = y]
      BY <1>6, <2>1 DEF restoreManagedKnowledgeMirror, x, ProcInv, ProcStates
    <3> QED BY <1>1, <3>3, <3>4
  <2>2. CASE ~file
    BY <1>6, <2>2, EndStep DEF restoreManagedKnowledgeMirror
  <2> QED BY <2>1, <2>2
<1>7. CASE clearList(p)
  <2>1. CASE Cleared(p, FALSE)
    BY <1>2, <1>7, <2>1 DEF clearList
  <2>2. CASE To(p, "artifacts")
    <3>1. LoadedOK([x EXCEPT !.pc = "artifacts"], p)
      BY <1>7 DEF clearList, At, LoadedOK, DocumentSteps, ClearSteps, ReminderSteps, x,
         ProcStates
    <3> QED BY <2>2, <3>1, ToStep DEF Steps, x
  <2>3. CASE rem # None /\ proc' = [proc EXCEPT ![p].pc = "cancel", ![p].rem = rem]
    <3> DEFINE y == [x EXCEPT !.pc = "cancel", !.rem = rem]
    <3>1. rem \in Reminders
      BY <2>3 DEF IInv, TypeOK
    <3>2. y \in ProcStates
      BY <3>1 DEF ProcStates, Steps
    <3>3. LoadedOK(y, p)
      BY <1>7, <2>3 DEF clearList, At, LoadedOK, DocumentSteps, ClearSteps, ReminderSteps, x,
         ProcStates
    <3>4. proc' = [proc EXCEPT ![p] = y]
      BY <2>3 DEF x, ProcInv, ProcStates
    <3> QED BY <1>1, <3>2, <3>3, <3>4
  <2> QED BY <1>7, <2>1, <2>2, <2>3 DEF clearList
<1>8. CASE clearCancel(p)
  <2> DEFINE y == [x EXCEPT !.pc = "artifacts", !.rem = None]
  <2>1. y \in ProcStates
    BY DEF ProcStates, Steps
  <2>2. LoadedOK(y, p)
    BY <1>8 DEF clearCancel, At, LoadedOK, DocumentSteps, ClearSteps, ReminderSteps, x, ProcStates
  <2>3. proc' = [proc EXCEPT ![p] = y]
    BY <1>8 DEF clearCancel, x, ProcInv, ProcStates
  <2> QED BY <1>1, <2>1, <2>2, <2>3
<1>9. CASE clearArtifacts(p)
  <2>1. proc[p].failed \in BOOLEAN
    BY DEF x, ProcStates
  <2> QED BY <1>2, <1>9, <2>1 DEF clearArtifacts
<1>10. CASE DeleteFiles(p)
  <2>1. LoadedOK([x EXCEPT !.pc = "hard"], p)
    BY DEF LoadedOK, DocumentSteps, ClearSteps, ReminderSteps, ProcStates
  <2>2. CASE To(p, "hard")
    BY <2>1, <2>2, ToStep DEF Steps, x
  <2> QED BY <1>10, <2>2, EndStep DEF DeleteFiles
<1>11. CASE HardDeleteDocument(p)
  BY <1>11, EndStep DEF HardDeleteDocument
<1> QED BY <1>3, <1>4, <1>5, <1>6, <1>7, <1>8, <1>9, <1>10, <1>11 DEF Continue

LEMMA ScanProc ==
    ASSUME IInv, NEW s \in Scanners, Scan(s)
    PROVE  ProcInv'
<1> s \in Procs
  BY ConstantFacts
<1> DEFINE x == proc[s]
<1> x \in ProcStates /\ LoadedOK(x, s)
  BY DEF IInv, ProcInv
<1> HIDE DEF x
<1> ProcInv /\ None \notin Documents \cup Reminders
  BY NoneAssumption DEF IInv
<1>1. ASSUME NEW y \in ProcStates, LoadedOK(y, s), proc' = [proc EXCEPT ![s] = y]
      PROVE  ProcInv'
  BY <1>1, MoveStep
<1>2. ASSUME NEW pc \in {"bin", "inspect", "deliver"}, To(s, pc)
      PROVE  ProcInv'
  <2>1. LoadedOK([x EXCEPT !.pc = pc], s)
    BY DEF LoadedOK, DocumentSteps, ClearSteps, ReminderSteps, ProcStates
  <2> QED BY <1>2, <2>1, ToStep DEF Steps, x
<1>3. CASE ListDueReminders(s)
  <2>1. CASE rem # None /\ proc' = [proc EXCEPT ![s].pc = "wake", ![s].rem = rem]
    <3> DEFINE y == [x EXCEPT !.pc = "wake", !.rem = rem]
    <3>1. rem \in Reminders
      BY <2>1 DEF IInv, TypeOK
    <3>2. y \in ProcStates /\ LoadedOK(y, s)
      BY <3>1 DEF ProcStates, Steps, LoadedOK, DocumentSteps, ClearSteps, ReminderSteps
    <3>3. proc' = [proc EXCEPT ![s] = y]
      BY <2>1 DEF x, ProcInv, ProcStates
    <3> QED BY <1>1, <3>2, <3>3
  <2> QED BY <1>2, <1>3, <2>1 DEF ListDueReminders, Deliverable
<1>4. CASE Wake(s)
  <2> DEFINE y == [x EXCEPT !.pc = Deliverable, !.rem = None]
  <2>1. y \in ProcStates /\ LoadedOK(y, s)
    BY DEF ProcStates, Steps, LoadedOK, DocumentSteps, ClearSteps, ReminderSteps, Deliverable
  <2>2. proc' = [proc EXCEPT ![s] = y]
    BY <1>4 DEF Wake, x, ProcInv, ProcStates
  <2> QED BY <1>1, <2>1, <2>2
<1>5. CASE hasArchiveReturnRecord(s)
  <2> DEFINE found == doc # None /\ doc.returned
             y == [x EXCEPT !.returned = found, !.pc = "deliver"]
  <2>1. proc' = [proc EXCEPT ![s] = y]
    BY <1>5 DEF hasArchiveReturnRecord, x, ProcInv, ProcStates
  <2>2. found \in BOOLEAN
    OBVIOUS
  <2> HIDE DEF found
  <2>3. y \in ProcStates /\ LoadedOK(y, s)
    BY <2>2 DEF ProcStates, Steps, LoadedOK, DocumentSteps, ClearSteps, ReminderSteps
  <2> QED BY <1>1, <2>1, <2>3
<1>6. CASE DeliverReminder(s)
  <2> DEFINE y == [Idle EXCEPT !.pc = "bin"]
  <2>1. y \in ProcStates /\ LoadedOK(y, s)
    BY DEF Idle, ProcStates, Steps, LoadedOK, DocumentSteps, ClearSteps, ReminderSteps
  <2> QED BY <1>1, <1>6, <2>1 DEF DeliverReminder
<1>7. CASE ListTrashedDocuments(s)
  <2>1. CASE doc # None /\ proc' = [proc EXCEPT ![s].doc = doc, ![s].pc = "list"]
    <3> DEFINE y == [x EXCEPT !.doc = doc, !.pc = "list"]
    <3>1. doc \in Documents
      BY <2>1 DEF IInv, TypeOK
    <3>2. y \in ProcStates /\ LoadedOK(y, s)
      BY <3>1 DEF ProcStates, Steps, LoadedOK, DocumentSteps, ClearSteps, ReminderSteps
    <3>3. proc' = [proc EXCEPT ![s] = y]
      BY <2>1 DEF x, ProcInv, ProcStates
    <3> QED BY <1>1, <3>2, <3>3
  <2> QED BY <1>7, <2>1, EndStep DEF ListTrashedDocuments
<1> QED BY <1>3, <1>4, <1>5, <1>6, <1>7, ContinueProc DEF Scan

LEMMA FaultProc ==
    ASSUME IInv, NEW p \in Procs, Refuse(p) \/ Crash(p)
    PROVE  ProcInv'
<1> DEFINE x == proc[p]
<1> x \in ProcStates /\ LoadedOK(x, p)
  BY DEF IInv, ProcInv
<1> HIDE DEF x
<1> ProcInv
  BY DEF IInv
<1>1. CASE Crash(p)
  BY <1>1, EndStep DEF Crash
<1>2. CASE Refuse(p)
  <2>1. CASE End(p)
    BY <2>1, EndStep
  <2>2. CASE At(p, "unmirror") /\ To(p, "rollback")
    <3>1. LoadedOK([x EXCEPT !.pc = "rollback"], p)
      BY <2>2 DEF At, LoadedOK, DocumentSteps, ClearSteps, ReminderSteps, x, ProcStates
    <3> QED BY <2>2, <3>1, ToStep DEF Steps, x
  <2>3. CASE /\ At(p, "cancel")
             /\ proc' = [proc EXCEPT ![p].pc = "artifacts", ![p].rem = None, ![p].failed = TRUE]
    <3> DEFINE y == [x EXCEPT !.pc = "artifacts", !.rem = None, !.failed = TRUE]
    <3>1. y \in ProcStates
      BY DEF ProcStates, Steps
    <3>2. LoadedOK(y, p)
      BY <2>3 DEF At, LoadedOK, DocumentSteps, ClearSteps, ReminderSteps, x, ProcStates
    <3>3. proc' = [proc EXCEPT ![p] = y]
      BY <2>3 DEF x, ProcInv, ProcStates
    <3> QED BY <3>1, <3>2, <3>3, MoveStep
  <2>4. CASE proc' = [proc EXCEPT ![p] = [Idle EXCEPT !.pc = "bin"]]
    <3> DEFINE y == [Idle EXCEPT !.pc = "bin"]
    <3>1. y \in ProcStates /\ LoadedOK(y, p)
      BY DEF Idle, ProcStates, Steps, LoadedOK, DocumentSteps, ClearSteps, ReminderSteps
    <3> QED BY <2>4, <3>1, MoveStep
  <2>5. ASSUME NEW pc \in {"deliver", "hard"}, To(p, pc)
        PROVE  ProcInv'
    <3>1. LoadedOK([x EXCEPT !.pc = pc], p)
      BY DEF LoadedOK, DocumentSteps, ClearSteps, ReminderSteps, ProcStates
    <3> QED BY <2>5, <3>1, ToStep DEF Steps, x
  <2>6. \/ At(p, "unmirror") /\ (To(p, "rollback") \/ End(p))
        \/ At(p, "cancel") /\ proc' = [proc EXCEPT ![p].pc = "artifacts", ![p].rem = None,
                                                 ![p].failed = TRUE]
        \/ To(p, "deliver") \/ To(p, "hard") \/ End(p)
        \/ proc' = [proc EXCEPT ![p] = [Idle EXCEPT !.pc = "bin"]]
    BY <1>2, Zenon DEF Refuse, KeepMirror
  <2> QED BY <2>1, <2>2, <2>3, <2>4, <2>5, <2>6
<1> QED BY <1>1, <1>2

---------------------------------------------------------------------------
(* The rows and the delivery. *)

RowsOK ==
    /\ world \in Worlds /\ now \in Times /\ faults \in 0 .. MaxFault
    /\ doc \in Documents \cup {None} /\ rem \in Reminders \cup {None}
    /\ file \in BOOLEAN /\ mirrors \subseteq Requests \cup {Import} /\ stopped \in BOOLEAN
DeliveryOK == occ \in {"sent", "skipped", None} /\ shown \in Nat /\ sent \in Nat /\ Delivered

LEMMA Parts == IInv <=> RowsOK /\ DeliveryOK /\ ProcInv
BY DEF IInv, TypeOK, RowsOK, DeliveryOK, ProcInv

\* Only the transaction that delivers, and the removals, touch the delivery.
LEMMA DeliverKeeps ==
    ASSUME IInv, NEW s \in Scanners, rem # None, Deliver(s)
    PROVE  DeliveryOK' /\ rem' \in Reminders
<1>1. rem \in Reminders /\ sent \in 0 .. 1 /\ shown \in Nat /\ (occ = None => sent = 0)
  BY DEF IInv, TypeOK, Delivered
<1> DEFINE new == IF occ = None /\ ~proc[s].returned THEN 1 ELSE 0
<1>2. /\ shown' = shown + new /\ sent' = sent + new
      /\ occ' = IF occ # None THEN occ ELSE IF proc[s].returned THEN "skipped" ELSE "sent"
  BY DEF Deliver
<1>3. rem' \in Reminders
  <2>1. rem' = [status |-> "active", until |-> None, told |-> TRUE]
          \/ rem' = [rem EXCEPT !.told = TRUE]
    BY DEF Deliver
  <2>2. [status |-> "active", until |-> None, told |-> TRUE] \in Reminders
    BY DEF Reminders, Statuses
  <2>3. [rem EXCEPT !.told = TRUE] \in Reminders
    BY <1>1 DEF Reminders
  <2> QED BY <2>1, <2>2, <2>3
<1>4. occ' # None /\ occ' \in {"sent", "skipped", None}
  BY <1>2, ConstantFacts DEF IInv, TypeOK
<1>5. sent' \in 0 .. 1 /\ sent' \in Nat /\ shown' \in Nat
  BY <1>1, <1>2
<1> QED BY <1>3, <1>4, <1>5 DEF DeliveryOK, Delivered

LEMMA RemoveKeeps == RemoveArtifacts => DeliveryOK'
BY DEF RemoveArtifacts, DeliveryOK, Delivered

LEMMA AskRows ==
    ASSUME IInv, NEW r \in Requests, Ask(r)
    PROVE  RowsOK' /\ DeliveryOK'
<1>1. RowsOK /\ DeliveryOK
  BY Parts
<1>2. UNCHANGED <<world, now, doc, file, mirrors, faults>>
  BY DEF Ask, ArchiveDocument, UpdateDocument, DeleteDocument, permanentlyDeleteDocument,
     UpdateReminderStatus, DeleteReminder, DeleteNotification, Edit, Receive, clock, archive
<1>3. CASE UNCHANGED <<rem, delivery, stopped>>
  BY <1>1, <1>2, <1>3 DEF RowsOK, DeliveryOK, Delivered, delivery
<1>4. CASE DeleteReminder(r)
  BY <1>1, <1>2, <1>4, RemoveKeeps DEF DeleteReminder, RowsOK
<1>5. CASE DeleteNotification(r)
  BY <1>1, <1>2, <1>5 DEF DeleteNotification, RowsOK, DeliveryOK, Delivered
<1> QED BY <1>3, <1>4, <1>5 DEF Ask, ArchiveDocument, UpdateDocument, DeleteDocument,
       permanentlyDeleteDocument, UpdateReminderStatus, Edit

LEMMA ContinueRows ==
    ASSUME IInv, NEW p \in Procs, Continue(p)
    PROVE  RowsOK' /\ DeliveryOK'
<1> DEFINE x == proc[p]
<1> x \in ProcStates /\ LoadedOK(x, p)
  BY DEF IInv, ProcInv
<1>1. RowsOK /\ DeliveryOK
  BY Parts
<1>2. UNCHANGED <<occ, shown, sent>> => DeliveryOK'
  BY <1>1 DEF DeliveryOK, Delivered
<1>3. CASE SaveDocument(p)
  <2>1. x.doc \in Documents
    BY <1>3 DEF SaveDocument, At, LoadedOK, DocumentSteps, ProcStates
  <2>2. [x.doc EXCEPT !.trashed = None] \in Documents
    BY <2>1 DEF Documents
  <2>3. doc' \in Documents
    BY <1>3, <2>1, <2>2 DEF SaveDocument
  <2> QED BY <1>1, <1>2, <1>3, <2>3 DEF SaveDocument, RowsOK, clock, delivery
<1>4. CASE SaveReminder(p)
  <2>1. rem' \in Reminders
    BY <1>4 DEF SaveReminder, At, LoadedOK, ReminderSteps, ProcStates
  <2> QED BY <1>1, <1>2, <1>4, <2>1 DEF SaveReminder, RowsOK, clock, archive, delivery
<1>5. CASE deleteManagedKnowledgeMirror(p)
  BY <1>1, <1>2, <1>5 DEF deleteManagedKnowledgeMirror, RowsOK, clock, delivery
<1>6. CASE restoreManagedKnowledgeMirror(p)
  <2>1. p \in Requests
    BY <1>6 DEF restoreManagedKnowledgeMirror, At, LoadedOK
  <2> QED BY <1>1, <1>2, <1>6, <2>1 DEF restoreManagedKnowledgeMirror, RowsOK, clock, delivery
<1>7. CASE clearList(p)
  <2>1. stopped' \in BOOLEAN
    BY <1>1, <1>7 DEF clearList, RowsOK
  <2> QED BY <1>1, <1>2, <1>7, <2>1 DEF clearList, RowsOK, clock, archive, delivery
<1>8. CASE clearCancel(p)
  <2>1. x.rem \in Reminders
    BY <1>8 DEF clearCancel, At, LoadedOK, ReminderSteps, ProcStates
  <2>2. rem' \in Reminders
    BY <1>8, <2>1 DEF clearCancel, Reminders, Statuses
  <2> QED BY <1>1, <1>2, <1>8, <2>2 DEF clearCancel, RowsOK, clock, archive, delivery
<1>9. CASE clearArtifacts(p)
  <2>1. stopped' \in BOOLEAN
    BY <1>1, <1>9 DEF clearArtifacts, RowsOK
  <2> QED BY <1>1, <1>9, <2>1, RemoveKeeps DEF clearArtifacts, RowsOK, clock, archive
<1>10. CASE DeleteFiles(p)
  BY <1>1, <1>2, <1>10 DEF DeleteFiles, RowsOK, clock, delivery
<1>11. CASE HardDeleteDocument(p)
  BY <1>1, <1>2, <1>11 DEF HardDeleteDocument, RowsOK, clock, delivery
<1> QED BY <1>3, <1>4, <1>5, <1>6, <1>7, <1>8, <1>9, <1>10, <1>11 DEF Continue

LEMMA ScanRows ==
    ASSUME IInv, NEW s \in Scanners, Scan(s)
    PROVE  RowsOK' /\ DeliveryOK'
<1> s \in Procs
  BY ConstantFacts
<1> proc[s] \in ProcStates /\ LoadedOK(proc[s], s)
  BY DEF IInv, ProcInv
<1>1. RowsOK /\ DeliveryOK
  BY Parts
<1>2. CASE UNCHANGED <<clock, archive, rem, delivery, stopped, faults>>
  BY <1>1, <1>2 DEF RowsOK, DeliveryOK, Delivered, clock, archive, delivery
<1>3. CASE Wake(s)
  <2>1. proc[s].rem \in Reminders
    BY <1>3 DEF Wake, At, LoadedOK, ReminderSteps, ProcStates
  <2>2. rem' \in Reminders
    BY <1>3, <2>1 DEF Wake, Reminders, Statuses
  <2> QED BY <1>1, <1>3, <2>2 DEF Wake, RowsOK, DeliveryOK, Delivered, clock, archive, delivery
<1>4. CASE DeliverReminder(s)
  <2>1. CASE rem # None /\ Deliver(s)
    BY <1>1, <1>4, <2>1, DeliverKeeps DEF DeliverReminder, RowsOK, clock, archive
  <2>2. CASE UNCHANGED <<rem, delivery>>
    BY <1>2, <1>4, <2>2 DEF DeliverReminder
  <2> QED BY <1>4, <2>1, <2>2 DEF DeliverReminder
<1> QED BY <1>2, <1>3, <1>4, ContinueRows DEF Scan, ListDueReminders, hasArchiveReturnRecord,
       ListTrashedDocuments

LEMMA FaultRows ==
    ASSUME IInv, NEW p \in Procs, Refuse(p) \/ Crash(p)
    PROVE  RowsOK' /\ DeliveryOK'
<1>1. RowsOK /\ DeliveryOK
  BY Parts
<1>2. UNCHANGED <<clock, archive, rem, delivery, stopped>> /\ faults' \in 0 .. MaxFault
  BY <1>1, ArchiveAssumption DEF Refuse, Crash, RowsOK
<1> QED BY <1>1, <1>2 DEF RowsOK, DeliveryOK, Delivered, clock, archive, delivery

LEMMA Step == IInv /\ [Next]_vars => IInv'
<1> SUFFICES ASSUME IInv, [Next]_vars PROVE IInv'
  OBVIOUS
<1> SUFFICES RowsOK' /\ DeliveryOK' /\ ProcInv'
  BY Parts DEF IInv, TypeOK, RowsOK, DeliveryOK, ProcInv
<1>1. ASSUME NEW r \in Requests, Ask(r) PROVE RowsOK' /\ DeliveryOK' /\ ProcInv'
  BY <1>1, AskRows, AskProc
<1>2. ASSUME NEW r \in Requests, Continue(r) PROVE RowsOK' /\ DeliveryOK' /\ ProcInv'
  BY <1>2, ContinueRows, ContinueProc, ConstantFacts
<1>3. ASSUME NEW s \in Scanners, Scan(s) PROVE RowsOK' /\ DeliveryOK' /\ ProcInv'
  BY <1>3, ScanRows, ScanProc
<1>4. ASSUME NEW p \in Procs, Refuse(p) \/ Crash(p) PROVE RowsOK' /\ DeliveryOK' /\ ProcInv'
  BY <1>4, FaultRows, FaultProc
<1>5. CASE Tick
  <2>1. now' \in Times
    BY <1>5, ArchiveAssumption DEF Tick, Times, IInv, TypeOK
  <2> QED BY <1>5, <2>1, Parts DEF Tick, RowsOK, DeliveryOK, Delivered, ProcInv, archive, delivery
<1>6. CASE UNCHANGED vars
  BY <1>6, Parts DEF vars, RowsOK, DeliveryOK, Delivered, ProcInv
<1> QED BY <1>1, <1>2, <1>3, <1>4, <1>5, <1>6 DEF Next

\* Every request and every scan uses only rows it has loaded, and the rows,
\* the clock and the delivery keep their types.
THEOREM ArchiveTypes == Spec => []TypeOK
<1>1. IInv => TypeOK
  BY DEF IInv
<1> QED BY InitIInv, Step, <1>1, PTL DEF Spec

\* Whatever runners, retries, restarts and saves of an old copy of the reminder
\* do, its due time makes one notification as long as its delivery artifacts
\* are not removed: DeliverReminder finds the occurrence in its transaction.
THEOREM ReminderSentOnce == Spec => []NotifiedOnce
<1>1. IInv => NotifiedOnce
  BY DEF IInv, Delivered, NotifiedOnce
<1> QED BY InitIInv, Step, <1>1, PTL DEF Spec
---------------------------------------------------------------------------
(* The bin: the row, its file and its mirror. *)

\* The document is in the bin or deleted; it is in the archive; a request is under way.
Gone == doc = None \/ doc.trashed # None
Live == doc # None /\ doc.trashed = None
Busy(r) == ~At(r, "idle") /\ ~At(r, "done")

\* A document in the bin that names a mirror: only while its delete is under way.
Linked == doc # None /\ doc.trashed # None /\ doc.mirror # None

\* What users who take turns find between two requests.
Settled ==
    /\ doc = None => ~file /\ mirrors = {}
    /\ doc # None => mirrors = (IF doc.trashed = None THEN {doc.mirror} ELSE {})
    /\ doc # None => (IF doc.trashed = None THEN file ELSE doc.mirror = None)

\* What a request with the state x has to do yet: it knows the only mirror
\* there is, and whether the document is in the archive.  A delete is over
\* before the retention lapses.
RequestOK(x) ==
    /\ x.pc \notin {"idle", "done"} /\ Linked =>
           x.pc \in {"unmirror", "link"} /\ ("expiry" \in world => doc.trashed = now)
    /\ x.pc \in {"save", "resave"} =>
           IF x.doc.trashed = None
           THEN mirrors = {x.doc.mirror} /\ file /\ ("expiry" \in world => Live)
           ELSE mirrors = {} /\ Gone /\ x.doc.mirror = None
    /\ x.pc = "remirror" => "expiry" \notin world /\ mirrors = {} /\ Gone
    /\ x.pc = "mark" =>
           /\ x.op = "trash" /\ mirrors = {x.doc.mirror} /\ file /\ Live
           /\ x.doc.trashed # None /\ ("expiry" \in world => x.doc.trashed = now)
    /\ x.pc = "unmirror" /\ x.op = "trash" =>
           x.doc.trashed # None /\ mirrors = {x.doc.mirror} \ {None} /\ Gone
    /\ x.pc = "link" => x.doc.trashed # None /\ x.doc.mirror = None /\ mirrors = {} /\ Gone
    /\ x.pc \in ClearSteps /\ x.op = "trash" => mirrors = {} /\ Gone
    /\ x.pc \in ClearSteps \cup {"unmirror"} /\ x.op # "trash" =>
           mirrors = {x.doc.mirror} /\ file /\ Live /\ doc.mirror = x.doc.mirror
    /\ x.pc = "files" => mirrors = {} /\ file /\ Live
    /\ x.pc = "hard" => mirrors = {} /\ ~file
    /\ x.pc = "saverem" => Settled
    /\ x.pc \notin {"rollback", "wake", "inspect", "deliver", "bin"}

\* A scan that empties the bin has a document that no request brings back, and
\* that has no mirror any more.
ScanOK(x) ==
    /\ x.op = None
    /\ \/ x.pc \in {"idle", "wake", "inspect", "deliver", "bin"}
       \/ /\ x.pc \in ClearSteps \cup {"unmirror", "files", "hard"}
          /\ "expiry" \in world /\ Gone
          /\ x.pc = "hard" => ~file
          /\ x.pc \in ClearSteps \cup {"unmirror"} => x.doc # None /\ x.doc.mirror = None

\* Users take turns, every call works, and the bin is either never emptied or
\* nothing is restored from it.
Turns == "one" \in world /\ faults = 0 /\ ~({"expiry", "restore"} \subseteq world)

BinOK ==
    /\ \A q, r \in Requests : Busy(q) /\ Busy(r) => q = r
    /\ doc = None => ~file
    /\ \A r \in Requests : RequestOK(proc[r])
    /\ \A s \in Scanners : ScanOK(proc[s])
    /\ (\A r \in Requests : ~Busy(r)) => Settled

BinInv == Turns => BinOK

\* One request moves from one of its states to another.
LEMMA RequestMoves ==
    ASSUME BinOK, ProcInv, UNCHANGED world, NEW r \in Requests, NEW y,
           proc' = [proc EXCEPT ![r] = y], \A q \in Requests \ {r} : ~Busy(q),
           RequestOK(y)', y.pc \in {"idle", "done"} => Settled',
           doc' = None => ~file', file' => file,
           "expiry" \in world /\ Gone => Gone'
    PROVE  BinOK'
<1>1. /\ proc'[r] = y
      /\ \A q \in Procs \ {r} : proc'[q] = proc[q]
      /\ Requests \subseteq Procs /\ \A s \in Scanners : s \in Procs \ {r}
  BY ConstantFacts DEF ProcInv
<1>2. \A q \in Requests \ {r} : ~Busy(q)'
  BY <1>1 DEF Busy, At
<1>3. ASSUME NEW q \in Requests \ {r} PROVE RequestOK(proc[q])'
  BY <1>1, <1>2 DEF Busy, At, RequestOK, ClearSteps
<1>4. RequestOK(proc[r])'
  BY <1>1 DEF RequestOK, Settled, Live, Gone, Linked
<1>5. ASSUME NEW s \in Scanners PROVE ScanOK(proc[s])'
  <2>1. proc'[s] = proc[s] /\ ScanOK(proc[s]) /\ world' = world
    BY <1>1 DEF BinOK
  <2> QED BY <2>1 DEF ScanOK
<1>6. (\A q \in Requests : ~Busy(q)') => Settled'
  BY <1>1 DEF Busy, At
<1> QED BY <1>2, <1>3, <1>4, <1>5, <1>6 DEF BinOK

\* One scan moves; it takes away only what belongs to a document in the bin.
LEMMA ScanMoves ==
    ASSUME BinOK, ProcInv, UNCHANGED clock, NEW s \in Scanners, NEW y,
           proc' = [proc EXCEPT ![s] = y], ScanOK(y)',
           \/ UNCHANGED <<doc, file, mirrors>>
           \/ /\ "expiry" \in world /\ Gone /\ mirrors' = mirrors /\ (file' => file)
              /\ doc' = doc \/ (doc' = None /\ ~file')
    PROVE  BinOK'
<1>1. /\ proc'[s] = y
      /\ \A q \in Procs \ {s} : proc'[q] = proc[q]
      /\ Scanners \subseteq Procs /\ \A r \in Requests : r \in Procs \ {s}
  BY ConstantFacts DEF ProcInv
<1>0. UNCHANGED <<world, now>>
  BY DEF clock
<1>2. Gone => Gone'
  BY DEF Gone
<1>3. Gone => (Settled => Settled')
  BY DEF Settled, Gone
<1>4. ASSUME NEW r \in Requests PROVE RequestOK(proc[r])'
  <2>1. proc'[r] = proc[r] /\ RequestOK(proc[r]) /\ world' = world /\ now' = now
    BY <1>0, <1>1 DEF BinOK
  <2>2. CASE UNCHANGED <<doc, file, mirrors>>
    BY <2>1, <2>2 DEF RequestOK, Settled, Live, Gone, Linked
  <2>3. CASE /\ "expiry" \in world /\ Gone /\ mirrors' = mirrors /\ (file' => file)
             /\ doc' = doc \/ (doc' = None /\ ~file')
    BY <2>1, <2>3, <1>2, <1>3 DEF RequestOK, Live, Gone, Linked
  <2> QED BY <2>2, <2>3
<1>5. ASSUME NEW t \in Scanners PROVE ScanOK(proc[t])'
  <2>1. CASE t = s
    BY <1>0, <1>1, <2>1 DEF ScanOK, Gone
  <2>2. CASE t # s
    <3>1. proc'[t] = proc[t] /\ ScanOK(proc[t]) /\ world' = world /\ (file' => file)
      BY <1>0, <1>1, <2>2 DEF BinOK
    <3> QED BY <3>1, <1>2 DEF ScanOK, Gone
  <2> QED BY <2>1, <2>2
<1>6. \A r \in Requests : Busy(r)' <=> Busy(r)
  BY <1>1 DEF Busy, At
<1>7. Settled => Settled'
  BY <1>3 DEF Settled, Gone
<1>8. doc' = None => ~file'
  BY DEF BinOK
<1> QED BY <1>4, <1>5, <1>6, <1>7, <1>8 DEF BinOK

LEMMA AskBin ==
    ASSUME IInv, Turns, BinOK, NEW r \in Requests, Ask(r)
    PROVE  BinOK'
<1> USE DEF Linked
<1>1. /\ "one" \in world => \A q \in Requests : ~Busy(q)
      /\ UNCHANGED <<world, now, doc, file, mirrors>>
  BY DEF Ask, ArchiveDocument, UpdateDocument, DeleteDocument, permanentlyDeleteDocument,
     UpdateReminderStatus, DeleteReminder, DeleteNotification, Edit, Receive, Busy, clock, archive
<1>2. Settled /\ ProcInv /\ (doc # None => doc \in Documents) /\ now \in Times /\ (doc = None => ~file)
        /\ \A q \in Requests : ~Busy(q)
  BY <1>1 DEF Turns, BinOK, IInv, TypeOK
<1>3. ASSUME NEW y, proc' = [proc EXCEPT ![r] = y], RequestOK(y)
      PROVE  BinOK'
  <2>1. RequestOK(y)' /\ Settled'
    BY <1>1, <1>2, <1>3 DEF RequestOK, Settled, Live, Gone
  <2> QED BY <1>1, <1>2, <1>3, <2>1, RequestMoves DEF Gone
<1>4. ASSUME NEW op, NEW copy, NEW pc, Edit(r, op, copy, pc),
             \A y : y.pc = pc /\ y.op = op /\ y.doc = copy => RequestOK(y)
      PROVE  BinOK'
  <2> DEFINE y == [Idle EXCEPT !.pc = pc, !.op = op, !.doc = copy]
  <2>1. y.pc = pc /\ y.op = op /\ y.doc = copy
    BY DEF Idle
  <2>2. proc' = [proc EXCEPT ![r] = y]
    BY <1>4 DEF Edit
  <2> HIDE DEF y
  <2> QED BY <1>3, <1>4, <2>1, <2>2
<1>5. CASE ArchiveDocument(r)
  <2>1. doc \in Documents
    BY <1>2, <1>5 DEF ArchiveDocument, Edit
  <2> DEFINE kept(b) == [doc EXCEPT !.archived = b]
  <2>2. ASSUME NEW b \in BOOLEAN PROVE kept(b).trashed = doc.trashed /\ kept(b).mirror = doc.mirror
    BY <2>1 DEF Documents
  <2> HIDE DEF kept
  <2>3. ASSUME NEW b \in BOOLEAN, NEW op, Edit(r, op, kept(b), "save"), b \/ doc.trashed = None
        PROVE  BinOK'
    <3>1. \A y : y.pc = "save" /\ y.op = op /\ y.doc = kept(b) => RequestOK(y)
      BY <1>2, <2>1, <2>2, ConstantFacts DEF RequestOK, ClearSteps, Settled, Live, Gone
    <3> QED BY <1>4, <2>3, <3>1
  <2>4. ASSUME Edit(r, "restore", kept(FALSE), "remirror"), doc.trashed # None
        PROVE  BinOK'
    <3>1. "expiry" \notin world
      BY <2>4 DEF Edit, Receive, Turns
    <3>2. \A y : y.pc = "remirror" /\ y.op = "restore" /\ y.doc = kept(FALSE) => RequestOK(y)
      BY <1>2, <2>1, <2>4, <3>1, ConstantFacts DEF RequestOK, ClearSteps, Settled, Live, Gone
    <3> QED BY <1>4, <2>4, <3>2
  <2> QED BY <1>5, <2>3, <2>4 DEF ArchiveDocument, kept
<1>6. CASE UpdateDocument(r)
  <2>1. doc \in Documents
    BY <1>2, <1>6 DEF UpdateDocument, Edit
  <2> DEFINE copy == [doc EXCEPT !.returned = ("loan" \in world)]
  <2>2. copy.trashed = doc.trashed /\ copy.mirror = doc.mirror
    BY <2>1 DEF Documents
  <2>3. Edit(r, "patch", copy, "save")
    BY <1>6 DEF UpdateDocument
  <2> HIDE DEF copy
  <2>4. \A y : y.pc = "save" /\ y.op = "patch" /\ y.doc = copy => RequestOK(y)
    BY <1>2, <2>1, <2>2, ConstantFacts DEF RequestOK, ClearSteps, Settled, Live, Gone
  <2> QED BY <1>4, <2>3, <2>4
<1>7. CASE DeleteDocument(r)
  <2>1. ASSUME doc # None, doc.trashed = None, Edit(r, "trash", [doc EXCEPT !.trashed = now], "mark")
        PROVE  BinOK'
    <3> DEFINE copy == [doc EXCEPT !.trashed = now]
    <3>1. now # None
      BY <1>2, ArchiveAssumption DEF Times
    <3>2. copy.trashed = now /\ copy.trashed # None /\ copy.mirror = doc.mirror
      BY <1>2, <2>1, <3>1 DEF Documents
    <3>3. Edit(r, "trash", copy, "mark")
      BY <2>1
    <3> HIDE DEF copy
    <3>4. \A y : y.pc = "mark" /\ y.op = "trash" /\ y.doc = copy => RequestOK(y)
      BY <1>2, <2>1, <3>2 DEF RequestOK, ClearSteps, Settled, Live
    <3> QED BY <1>4, <3>3, <3>4
  <2>2. ASSUME doc = None \/ doc.trashed # None, Edit(r, "trash", doc, "unmirror")
        PROVE  BinOK'
    <3>1. doc # None
      BY <2>2 DEF Edit
    <3>2. \A y : y.pc = "unmirror" /\ y.op = "trash" /\ y.doc = doc => RequestOK(y)
      BY <1>2, <2>2, <3>1 DEF RequestOK, ClearSteps, Settled, Gone
    <3> QED BY <1>4, <2>2, <3>2
  <2> QED BY <1>7, <2>1, <2>2 DEF DeleteDocument
<1>8. CASE permanentlyDeleteDocument(r)
  <2>1. \A y : y.pc = "list" /\ y.op = "purge" /\ y.doc = doc => RequestOK(y)
    BY <1>2, <1>8 DEF permanentlyDeleteDocument, RequestOK, ClearSteps, Settled, Live
  <2> QED BY <1>4, <1>8, <2>1 DEF permanentlyDeleteDocument
<1>9. CASE UpdateReminderStatus(r)
  <2>1. PICK op, row : proc' = [proc EXCEPT ![r] = [Idle EXCEPT !.pc = "saverem", !.op = op, !.rem = row]]
    BY <1>9 DEF UpdateReminderStatus
  <2> DEFINE y == [Idle EXCEPT !.pc = "saverem", !.op = op, !.rem = row]
  <2>2. y.pc = "saverem"
    BY DEF Idle
  <2>3. proc' = [proc EXCEPT ![r] = y]
    BY <2>1
  <2> HIDE DEF y
  <2>4. RequestOK(y)
    BY <1>2, <2>2 DEF RequestOK, ClearSteps, Settled
  <2> QED BY <1>3, <2>3, <2>4
<1>10. CASE DeleteReminder(r) \/ DeleteNotification(r)
  <2>1. End(r) /\ r \notin Scanners
    BY <1>10, ConstantFacts DEF DeleteReminder, DeleteNotification
  <2> DEFINE y == [Idle EXCEPT !.pc = "done"]
  <2>2. y.pc = "done" /\ proc' = [proc EXCEPT ![r] = y]
    BY <2>1 DEF Idle, End
  <2> HIDE DEF y
  <2>3. RequestOK(y)
    BY <2>2 DEF RequestOK, ClearSteps
  <2> QED BY <1>3, <2>2, <2>3
<1> QED BY <1>5, <1>6, <1>7, <1>8, <1>9, <1>10 DEF Ask

LEMMA ContinueBin ==
    ASSUME IInv, Turns, BinOK, NEW r \in Requests, Continue(r)
    PROVE  BinOK'
<1> USE DEF Linked
<1> DEFINE x == proc[r]
<1>a. /\ r \in Procs /\ r \notin Scanners /\ x \in ProcStates /\ LoadedOK(x, r) /\ RequestOK(x)
      /\ ProcInv /\ proc \in [Procs -> ProcStates]
      /\ doc # None => doc \in Documents
      /\ doc = None => ~file
      /\ None \notin Documents
  BY ConstantFacts, NoneAssumption DEF IInv, ProcInv, TypeOK, BinOK
<1>b. \A q \in Requests \ {r} : ~Busy(q)
  <2>1. Busy(r)
    BY DEF Continue, SaveDocument, SaveReminder, deleteManagedKnowledgeMirror, restoreManagedKnowledgeMirror,
       clearList, clearCancel, clearArtifacts, DeleteFiles, HardDeleteDocument, At, Busy
  <2> QED BY <2>1 DEF BinOK
<1>c. UNCHANGED <<world, now>>
  BY DEF Continue, SaveDocument, SaveReminder, deleteManagedKnowledgeMirror, restoreManagedKnowledgeMirror,
     clearList, clearCancel, clearArtifacts, DeleteFiles, HardDeleteDocument, clock
<1>d. x.doc # None => x.doc \in Documents
  BY <1>a DEF ProcStates
<1>e. None \notin mirrors
  BY ConstantFacts DEF IInv, TypeOK
<1>1. ASSUME NEW y, proc' = [proc EXCEPT ![r] = y], RequestOK(y)',
             y.pc \notin {"idle", "done"}, doc' = None => ~file', file' => file,
             "expiry" \in world /\ Gone => Gone'
      PROVE  BinOK'
  BY <1>1, <1>a, <1>b, <1>c, RequestMoves
<1>2. ASSUME End(r), Settled', file' => file, "expiry" \in world /\ Gone => Gone'
      PROVE  BinOK'
  <2>1. PICK y : y.pc = "done" /\ proc' = [proc EXCEPT ![r] = y]
    <3> DEFINE z == [Idle EXCEPT !.pc = "done"]
    <3>1. z.pc = "done" /\ proc' = [proc EXCEPT ![r] = z]
      BY <1>2, <1>a DEF Idle, End
    <3> QED BY <3>1
  <2>2. RequestOK(y)' /\ (doc' = None => ~file')
    BY <1>2, <2>1 DEF RequestOK, ClearSteps, Settled
  <2> QED BY <1>2, <1>a, <1>b, <1>c, <2>1, <2>2, RequestMoves
<1>3. ASSUME NEW y, proc' = [proc EXCEPT ![r] = y], UNCHANGED <<doc, file, mirrors>>, RequestOK(y),
             y.pc \notin {"idle", "done"}
      PROVE  BinOK'
  <2>1. RequestOK(y)' /\ (Gone => Gone')
    BY <1>3, <1>c DEF RequestOK, Settled, Live, Gone
  <2> QED BY <1>1, <1>3, <1>a, <2>1
<1>4. ASSUME End(r), UNCHANGED <<doc, file, mirrors>>, Settled
      PROVE  BinOK'
  BY <1>2, <1>4 DEF Settled, Gone
<1>5. CASE SaveDocument(r)
  <2>1. x.doc \in Documents /\ x.doc # None /\ x.pc # "rollback"
    BY <1>5, <1>a, <1>d DEF SaveDocument, At, LoadedOK, DocumentSteps, RequestOK
  <2>2. doc' = x.doc /\ UNCHANGED <<file, mirrors>>
    BY <1>5, <2>1 DEF SaveDocument, At
  <2>3. CASE x.pc \in {"save", "resave"}
    <3>1. Settled' /\ ("expiry" \in world /\ Gone => Gone') /\ (doc' = None => ~file')
      BY <1>a, <2>1, <2>2, <2>3 DEF RequestOK, Settled, Live, Gone
    <3>2. CASE End(r)
      BY <1>2, <2>2, <3>1, <3>2
    <3>3. CASE To(r, "resave")
      <4>1. PICK y : y.pc = "resave" /\ y.doc = x.doc /\ proc' = [proc EXCEPT ![r] = y]
        <5> DEFINE z == [x EXCEPT !.pc = "resave"]
        <5>1. z.pc = "resave" /\ z.doc = x.doc /\ proc' = [proc EXCEPT ![r] = z]
          BY <1>a, <3>3 DEF To, ProcStates
        <5> QED BY <5>1
      <4>2. RequestOK(y)'
        BY <1>a, <1>c, <2>1, <2>2, <2>3, <4>1 DEF RequestOK, ClearSteps, Live, Gone
      <4> QED BY <1>1, <2>2, <3>1, <4>1, <4>2
    <3> QED BY <1>5, <2>3, <3>2, <3>3 DEF SaveDocument, At
  <2>4. CASE x.pc = "mark"
    <3>1. PICK y : y.pc = "unmirror" /\ y.doc = x.doc /\ y.op = x.op /\ proc' = [proc EXCEPT ![r] = y]
      <4> DEFINE z == [x EXCEPT !.pc = "unmirror", !.moved = TRUE]
      <4>1. z.pc = "unmirror" /\ z.doc = x.doc /\ z.op = x.op /\ proc' = [proc EXCEPT ![r] = z]
        BY <1>5, <1>a, <2>4 DEF SaveDocument, At, ProcStates
      <4> QED BY <4>1
    <3>2. RequestOK(y)' /\ (doc' = None => ~file') /\ Gone'
      BY <1>a, <1>c, <1>e, <2>1, <2>2, <2>4, <3>1 DEF RequestOK, ClearSteps, Gone
    <3> QED BY <1>1, <2>2, <3>1, <3>2
  <2>5. CASE x.pc = "link"
    <3>1. PICK y : y.pc = "list" /\ y.op = "trash" /\ proc' = [proc EXCEPT ![r] = y]
      <4> DEFINE z == [Idle EXCEPT !.pc = "list", !.op = "trash"]
      <4>1. z.pc = "list" /\ z.op = "trash" /\ proc' = [proc EXCEPT ![r] = z]
        BY <1>5, <2>5 DEF SaveDocument, At, Idle
      <4> QED BY <4>1
    <3>2. RequestOK(y)' /\ (doc' = None => ~file') /\ Gone'
      BY <1>a, <2>1, <2>2, <2>5, <3>1 DEF RequestOK, ClearSteps, Gone
    <3> QED BY <1>1, <2>2, <3>1, <3>2
  <2> QED BY <1>5, <2>1, <2>3, <2>4, <2>5 DEF SaveDocument, At
<1>6. CASE SaveReminder(r)
  BY <1>4, <1>6, <1>a DEF SaveReminder, At, RequestOK, archive
<1>7. CASE deleteManagedKnowledgeMirror(r)
  <2>1. x.doc \in Documents /\ x.pc = "unmirror" /\ UNCHANGED <<doc, file>>
          /\ mirrors' = mirrors \ {x.doc.mirror}
    BY <1>7, <1>a, <1>d DEF deleteManagedKnowledgeMirror, At, LoadedOK, DocumentSteps
  <2>0. x.doc.mirror \in mirrors \cup {None}
    BY <2>1, <1>a DEF RequestOK, Documents
  <2>2. CASE x.op = "trash"
    <3>1. PICK y : y.pc = "link" /\ y.doc.trashed = x.doc.trashed /\ y.doc.mirror = None /\ proc' = [proc EXCEPT ![r] = y]
      <4> DEFINE z == [x EXCEPT !.pc = "link", !.doc = [x.doc EXCEPT !.mirror = None]]
      <4>1. z.pc = "link" /\ z.doc.trashed = x.doc.trashed /\ z.doc.mirror = None /\ proc' = [proc EXCEPT ![r] = z]
        BY <1>7, <1>a, <2>0, <2>1, <2>2 DEF deleteManagedKnowledgeMirror, ProcStates, Documents
      <4> QED BY <4>1
    <3>2. RequestOK(y)' /\ (doc' = None => ~file') /\ (Gone => Gone')
      BY <1>a, <1>c, <2>1, <2>2, <3>1 DEF RequestOK, ClearSteps, Gone
    <3> QED BY <1>1, <2>1, <3>1, <3>2
  <2>3. CASE x.op # "trash"
    <3>1. PICK y : y.pc = "files" /\ proc' = [proc EXCEPT ![r] = y]
      <4> DEFINE z == [x EXCEPT !.pc = "files", !.doc = None]
      <4>1. z.pc = "files" /\ proc' = [proc EXCEPT ![r] = z]
        BY <1>7, <1>a, <2>0, <2>3 DEF deleteManagedKnowledgeMirror, ProcStates
      <4> QED BY <4>1
    <3>2. RequestOK(y)' /\ (doc' = None => ~file') /\ (Gone => Gone')
      BY <1>a, <2>1, <2>3, <3>1 DEF RequestOK, ClearSteps, Live, Gone
    <3> QED BY <1>1, <2>1, <3>1, <3>2
  <2> QED BY <2>2, <2>3
<1>8. CASE restoreManagedKnowledgeMirror(r)
  <2>1. x.doc \in Documents /\ x.pc = "remirror" /\ UNCHANGED <<doc, file>>
    BY <1>8, <1>a, <1>d DEF restoreManagedKnowledgeMirror, At, LoadedOK, DocumentSteps
  <2>2. "expiry" \notin world /\ mirrors = {} /\ Gone
    BY <2>1, <1>a DEF RequestOK
  <2>3. CASE file
    <3>1. PICK y : y.pc = "save" /\ y.doc.trashed = None /\ y.doc.mirror = r /\ proc' = [proc EXCEPT ![r] = y] /\ mirrors' = {r}
      <4> DEFINE z == [x EXCEPT !.pc = "save", !.doc = [x.doc EXCEPT !.mirror = r, !.trashed = None]]
      <4>1. z.pc = "save" /\ z.doc.trashed = None /\ z.doc.mirror = r /\ proc' = [proc EXCEPT ![r] = z] /\ mirrors' = {r}
        BY <1>8, <1>a, <2>1, <2>2, <2>3 DEF restoreManagedKnowledgeMirror, ProcStates, Documents
      <4> QED BY <4>1
    <3>2. RequestOK(y)' /\ (doc' = None => ~file')
      BY <1>a, <1>c, <2>1, <2>2, <2>3, <3>1 DEF RequestOK, ClearSteps
    <3> QED BY <1>1, <2>1, <2>2, <3>1, <3>2
  <2>4. CASE ~file
    <3>1. Settled
      BY <2>1, <2>2, <1>a, <2>4 DEF Settled, Gone, RequestOK
    <3> QED BY <1>4, <1>8, <2>4, <3>1 DEF restoreManagedKnowledgeMirror
  <2> QED BY <2>3, <2>4
<1>9. ASSUME x.pc \in ClearSteps, NEW failed, Cleared(r, failed), UNCHANGED <<doc, file, mirrors>>
      PROVE  BinOK'
  <2>1. CASE End(r)
    <3>1. Settled
      BY <1>9, <1>a DEF RequestOK, Settled, Live, Gone, ClearSteps
    <3> QED BY <1>4, <1>9, <2>1, <3>1
  <2>2. CASE x.op # "trash" /\ To(r, "unmirror")
    <3>1. PICK y : y.pc = "unmirror" /\ y.doc = x.doc /\ y.op = x.op /\ proc' = [proc EXCEPT ![r] = y]
      <4> DEFINE z == [x EXCEPT !.pc = "unmirror"]
      <4>1. z.pc = "unmirror" /\ z.doc = x.doc /\ z.op = x.op /\ proc' = [proc EXCEPT ![r] = z]
        BY <1>a, <2>2 DEF To, ProcStates
      <4> QED BY <4>1
    <3>2. RequestOK(y)
      BY <1>9, <1>a, <2>2, <3>1 DEF RequestOK, ClearSteps
    <3> QED BY <1>3, <1>9, <3>1, <3>2
  <2> QED BY <1>9, <2>1, <2>2 DEF Cleared
<1>10. ASSUME NEW y, proc' = [proc EXCEPT ![r] = y], UNCHANGED <<doc, file, mirrors>>, x.pc \in ClearSteps,
              y.pc \in ClearSteps, y.op = x.op, y.doc = x.doc
       PROVE  BinOK'
  <2>1. RequestOK(y)
    BY <1>10, <1>a DEF RequestOK, ClearSteps
  <2> QED BY <1>3, <1>10, <2>1 DEF ClearSteps
<1>11. CASE clearList(r) \/ clearCancel(r) \/ clearArtifacts(r)
  <2>1. x.pc \in ClearSteps /\ UNCHANGED <<doc, file, mirrors>>
    BY <1>11 DEF clearList, clearCancel, clearArtifacts, At, ClearSteps, archive
  <2>2. CASE Cleared(r, FALSE) \/ Cleared(r, x.failed)
    BY <1>9, <2>1, <2>2
  <2>3. CASE To(r, "artifacts")
    <3>1. PICK y : y.pc = "artifacts" /\ y.doc = x.doc /\ y.op = x.op /\ proc' = [proc EXCEPT ![r] = y]
      <4> DEFINE z == [x EXCEPT !.pc = "artifacts"]
      <4>1. z.pc = "artifacts" /\ z.doc = x.doc /\ z.op = x.op /\ proc' = [proc EXCEPT ![r] = z]
        BY <1>a, <2>3 DEF To, ProcStates
      <4> QED BY <4>1
    <3> QED BY <1>10, <2>1, <3>1 DEF ClearSteps
  <2>4. CASE proc' = [proc EXCEPT ![r].pc = "cancel", ![r].rem = rem]
    <3>1. PICK y : y.pc = "cancel" /\ y.doc = x.doc /\ y.op = x.op /\ proc' = [proc EXCEPT ![r] = y]
      <4> DEFINE z == [x EXCEPT !.pc = "cancel", !.rem = rem]
      <4>1. z.pc = "cancel" /\ z.doc = x.doc /\ z.op = x.op /\ proc' = [proc EXCEPT ![r] = z]
        BY <1>a, <2>4 DEF ProcStates
      <4> QED BY <4>1
    <3> QED BY <1>10, <2>1, <3>1 DEF ClearSteps
  <2>5. CASE proc' = [proc EXCEPT ![r].pc = "artifacts", ![r].rem = None]
    <3>1. PICK y : y.pc = "artifacts" /\ y.doc = x.doc /\ y.op = x.op /\ proc' = [proc EXCEPT ![r] = y]
      <4> DEFINE z == [x EXCEPT !.pc = "artifacts", !.rem = None]
      <4>1. z.pc = "artifacts" /\ z.doc = x.doc /\ z.op = x.op /\ proc' = [proc EXCEPT ![r] = z]
        BY <1>a, <2>5 DEF ProcStates
      <4> QED BY <4>1
    <3> QED BY <1>10, <2>1, <3>1 DEF ClearSteps
  <2> QED BY <1>11, <2>2, <2>3, <2>4, <2>5 DEF clearList, clearCancel, clearArtifacts
<1>12. CASE DeleteFiles(r)
  <2>1. x.pc = "files" /\ file /\ mirrors = {} /\ Live /\ UNCHANGED <<doc, mirrors>> /\ ~file'
    BY <1>12, <1>a DEF DeleteFiles, At, RequestOK
  <2>2. PICK y : y.pc = "hard" /\ proc' = [proc EXCEPT ![r] = y]
    <3> DEFINE z == [x EXCEPT !.pc = "hard"]
    <3>1. z.pc = "hard" /\ proc' = [proc EXCEPT ![r] = z]
      BY <1>12, <1>a, <2>1 DEF DeleteFiles, To, ProcStates
    <3> QED BY <3>1
  <2>3. RequestOK(y)'
    BY <2>1, <2>2 DEF RequestOK, ClearSteps, Live
  <2> QED BY <1>1, <2>1, <2>2, <2>3 DEF Live, Gone
<1>13. CASE HardDeleteDocument(r)
  <2>1. doc' = None /\ UNCHANGED <<file, mirrors>> /\ mirrors = {} /\ ~file /\ End(r)
    BY <1>13, <1>a DEF HardDeleteDocument, At, RequestOK
  <2> QED BY <1>2, <2>1 DEF Settled, Gone
<1> QED BY <1>5, <1>6, <1>7, <1>8, <1>11, <1>12, <1>13 DEF Continue

LEMMA ScanBin ==
    ASSUME IInv, Turns, BinOK, NEW s \in Scanners, Scan(s)
    PROVE  BinOK'
<1> DEFINE x == proc[s]
<1>a. /\ s \in Procs /\ s \notin Requests /\ x \in ProcStates /\ ScanOK(x)
      /\ ProcInv /\ proc \in [Procs -> ProcStates] /\ None \notin Ops
      /\ doc = None => ~file
  BY ConstantFacts, ArchiveAssumption DEF IInv, ProcInv, BinOK
<1>b. UNCHANGED clock
  BY DEF Scan, ListDueReminders, Wake, hasArchiveReturnRecord, DeliverReminder, ListTrashedDocuments,
     Continue, SaveDocument, SaveReminder, deleteManagedKnowledgeMirror, restoreManagedKnowledgeMirror,
     clearList, clearCancel, clearArtifacts, DeleteFiles, HardDeleteDocument, clock, archive
<1>1. ASSUME NEW y, proc' = [proc EXCEPT ![s] = y], UNCHANGED <<doc, file, mirrors>>, ScanOK(y)
      PROVE  BinOK'
  <2>1. ScanOK(y)'
    BY <1>1, <1>b DEF ScanOK, Gone, clock
  <2> QED BY <1>1, <1>a, <1>b, <2>1, ScanMoves
<1>2. ASSUME End(s), UNCHANGED <<doc, file, mirrors>>
      PROVE  BinOK'
  <2>1. Idle.op = None /\ Idle.pc = "idle" /\ proc' = [proc EXCEPT ![s] = Idle]
    BY <1>2 DEF End, Idle
  <2>2. ScanOK(Idle)
    BY <2>1 DEF ScanOK
  <2> QED BY <1>1, <1>2, <2>1, <2>2
<1>3. ASSUME NEW y, proc' = [proc EXCEPT ![s] = y], UNCHANGED <<doc, file, mirrors>>,
             y.op = None, y.pc \in {"wake", "inspect", "deliver", "bin"}
      PROVE  BinOK'
  BY <1>1, <1>3 DEF ScanOK
<1>4. ASSUME NEW pc, To(s, pc)
      PROVE  \E y : y.op = x.op /\ y.doc = x.doc /\ y.pc = pc /\ proc' = [proc EXCEPT ![s] = y]
  <2> DEFINE z == [x EXCEPT !.pc = pc]
  <2>1. z.op = x.op /\ z.doc = x.doc /\ z.pc = pc /\ proc' = [proc EXCEPT ![s] = z]
    BY <1>4, <1>a DEF To, ProcStates
  <2> QED BY <2>1
<1>5. CASE ListDueReminders(s) \/ Wake(s) \/ hasArchiveReturnRecord(s) \/ DeliverReminder(s)
  <2>1. UNCHANGED <<doc, file, mirrors>> /\ x.op = None
    BY <1>5, <1>a DEF ListDueReminders, Wake, hasArchiveReturnRecord, DeliverReminder, archive, ScanOK
  <2>2. PICK y : /\ proc' = [proc EXCEPT ![s] = y]
                 /\ y.op = None /\ y.pc \in {"wake", "inspect", "deliver", "bin"}
    <3>1. CASE To(s, "bin") \/ To(s, Deliverable)
      BY <1>4, <2>1, <3>1 DEF Deliverable
    <3>2. CASE proc' = [proc EXCEPT ![s].pc = "wake", ![s].rem = rem]
      <4> DEFINE z == [x EXCEPT !.pc = "wake", !.rem = rem]
      <4>1. z.op = x.op /\ z.pc = "wake" /\ proc' = [proc EXCEPT ![s] = z]
        BY <1>a, <3>2 DEF ProcStates
      <4> QED BY <2>1, <4>1
    <3>3. CASE Wake(s)
      <4> DEFINE z == [x EXCEPT !.pc = Deliverable, !.rem = None]
      <4>1. z.op = x.op /\ z.pc \in {"inspect", "deliver"} /\ proc' = [proc EXCEPT ![s] = z]
        BY <1>a, <3>3 DEF Wake, Deliverable, ProcStates
      <4> QED BY <2>1, <4>1
    <3>4. CASE hasArchiveReturnRecord(s)
      <4> DEFINE z == [x EXCEPT !.returned = (doc # None /\ doc.returned), !.pc = "deliver"]
      <4>1. z.op = x.op /\ z.pc = "deliver" /\ proc' = [proc EXCEPT ![s] = z]
        BY <1>a, <3>4 DEF hasArchiveReturnRecord, ProcStates
      <4> QED BY <2>1, <4>1
    <3>5. CASE DeliverReminder(s)
      <4> DEFINE z == [Idle EXCEPT !.pc = "bin"]
      <4>1. z.op = None /\ z.pc = "bin" /\ proc' = [proc EXCEPT ![s] = z]
        BY <3>5 DEF DeliverReminder, Idle
      <4> QED BY <4>1
    <3> QED BY <1>5, <3>1, <3>2, <3>3, <3>4, <3>5 DEF ListDueReminders
  <2> QED BY <1>3, <2>1, <2>2
<1>6. CASE ListTrashedDocuments(s)
  <2>1. UNCHANGED <<doc, file, mirrors>> /\ x.op = None
    BY <1>6, <1>a DEF ListTrashedDocuments, archive, ScanOK
  <2>2. CASE doc # None /\ Expired(doc) /\ proc' = [proc EXCEPT ![s].doc = doc, ![s].pc = "list"]
    <3>1. PICK y : y.op = None /\ y.pc = "list" /\ y.doc = doc /\ proc' = [proc EXCEPT ![s] = y]
      <4> DEFINE z == [x EXCEPT !.doc = doc, !.pc = "list"]
      <4>1. z.op = x.op /\ z.pc = "list" /\ z.doc = doc /\ proc' = [proc EXCEPT ![s] = z]
        BY <1>a, <2>2 DEF ProcStates
      <4> QED BY <2>1, <4>1
    <3>2. "expiry" \in world /\ doc.trashed # None /\ doc.trashed # now
      BY <2>2, ArchiveAssumption DEF Expired, IInv, TypeOK, Times
    <3>3. doc.mirror = None
      <4>1. CASE \A r \in Requests : ~Busy(r)
        BY <2>2, <3>2, <4>1 DEF BinOK, Settled
      <4>2. ASSUME NEW r \in Requests, Busy(r) PROVE doc.mirror = None
        BY <2>2, <3>2, <4>2 DEF BinOK, RequestOK, Linked, Busy, At
      <4> QED BY <4>1, <4>2
    <3>4. ScanOK(y)
      BY <2>2, <3>1, <3>2, <3>3 DEF ScanOK, Gone, ClearSteps
    <3> QED BY <1>1, <2>1, <3>1, <3>4
  <2> QED BY <1>2, <1>6, <2>1, <2>2 DEF ListTrashedDocuments
<1>7. ASSUME Continue(s)
      PROVE  /\ x.pc \in ClearSteps \cup {"unmirror", "files", "hard"} /\ x.op = None
             /\ "expiry" \in world /\ Gone /\ (x.pc = "hard" => ~file)
             /\ x.pc \in ClearSteps \cup {"unmirror"} => x.doc # None /\ x.doc.mirror = None
             /\ ~SaveDocument(s) /\ ~SaveReminder(s) /\ ~restoreManagedKnowledgeMirror(s)
  BY <1>7, <1>a DEF ScanOK, ClearSteps, Continue, SaveDocument, SaveReminder, deleteManagedKnowledgeMirror,
     restoreManagedKnowledgeMirror, clearList, clearCancel, clearArtifacts, DeleteFiles, HardDeleteDocument,
     At
<1>8. ASSUME Continue(s), NEW y, proc' = [proc EXCEPT ![s] = y], y.op = None, y.doc = x.doc,
             x.pc \in ClearSteps,
             y.pc \in ClearSteps \cup {"unmirror"}, UNCHANGED <<doc, file, mirrors>>
      PROVE  BinOK'
  <2>1. ScanOK(y)
    BY <1>7, <1>8 DEF ScanOK, ClearSteps
  <2> QED BY <1>1, <1>8, <2>1
<1>9. CASE clearList(s) \/ clearCancel(s) \/ clearArtifacts(s)
  <2>1. Continue(s) /\ UNCHANGED <<doc, file, mirrors>> /\ x.op = None /\ x.pc \in ClearSteps
    BY <1>9, <1>a DEF Continue, clearList, clearCancel, clearArtifacts, archive, ScanOK, At, ClearSteps
  <2>2. ASSUME NEW pc \in {"artifacts", "unmirror"}, To(s, pc) PROVE BinOK'
    <3>1. PICK y : y.op = None /\ y.doc = x.doc /\ y.pc = pc /\ proc' = [proc EXCEPT ![s] = y]
      BY <1>4, <2>1, <2>2
    <3> QED BY <1>8, <2>1, <3>1 DEF ClearSteps
  <2>3. ASSUME NEW failed, Cleared(s, failed) PROVE BinOK'
    BY <1>2, <2>1, <2>2, <2>3 DEF Cleared
  <2>4. ASSUME NEW pc \in {"cancel", "artifacts"}, NEW row, proc' = [proc EXCEPT ![s].pc = pc, ![s].rem = row]
        PROVE  BinOK'
    <3>1. PICK y : y.op = None /\ y.doc = x.doc /\ y.pc = pc /\ proc' = [proc EXCEPT ![s] = y]
      <4> DEFINE z == [x EXCEPT !.pc = pc, !.rem = row]
      <4>1. z.op = x.op /\ z.doc = x.doc /\ z.pc = pc /\ proc' = [proc EXCEPT ![s] = z]
        BY <1>a, <2>4 DEF ProcStates
      <4> QED BY <2>1, <4>1
    <3> QED BY <1>8, <2>1, <3>1 DEF ClearSteps
  <2>5. \/ Cleared(s, FALSE) \/ Cleared(s, x.failed) \/ To(s, "artifacts")
        \/ proc' = [proc EXCEPT ![s].pc = "cancel", ![s].rem = rem]
        \/ proc' = [proc EXCEPT ![s].pc = "artifacts", ![s].rem = None]
    BY <1>9 DEF clearList, clearCancel, clearArtifacts
  <2> QED BY <2>2, <2>3, <2>4, <2>5
<1>10. CASE deleteManagedKnowledgeMirror(s)
  <2>1. Continue(s) /\ UNCHANGED <<doc, file>> /\ x.pc = "unmirror"
    BY <1>10 DEF Continue, deleteManagedKnowledgeMirror, At
  <2>2. x.op = None /\ "expiry" \in world /\ Gone /\ x.doc.mirror = None
    BY <1>7, <2>1
  <2>5. mirrors' = mirrors
    BY <1>10, <2>2, ConstantFacts, ArchiveAssumption DEF deleteManagedKnowledgeMirror, IInv, TypeOK, Import, Requests
  <2>3. PICK y : y.op = None /\ y.pc = "files" /\ proc' = [proc EXCEPT ![s] = y]
    <3> DEFINE z == [x EXCEPT !.pc = "files", !.doc = None]
    <3>0. x.op # "trash"
      BY <1>a, <2>2 DEF Ops
    <3>1. z.op = x.op /\ z.pc = "files" /\ proc' = [proc EXCEPT ![s] = z]
      BY <1>10, <1>a, <2>2, <3>0 DEF deleteManagedKnowledgeMirror, ProcStates
    <3> QED BY <2>2, <3>1
  <2>4. ScanOK(y)'
    BY <1>b, <2>1, <2>2, <2>3 DEF ScanOK, Gone, ClearSteps, clock
  <2> QED BY <1>a, <1>b, <2>1, <2>2, <2>3, <2>4, <2>5, ScanMoves
<1>11. CASE DeleteFiles(s)
  <2>1. Continue(s) /\ UNCHANGED <<doc, mirrors>> /\ ~file' /\ To(s, "hard")
    BY <1>11, <1>a DEF Continue, DeleteFiles
  <2>2. x.op = None /\ "expiry" \in world /\ Gone
    BY <1>7, <2>1
  <2>3. PICK y : y.op = None /\ y.pc = "hard" /\ proc' = [proc EXCEPT ![s] = y]
    BY <1>4, <2>1, <2>2
  <2>4. ScanOK(y)'
    BY <1>b, <2>1, <2>2, <2>3 DEF ScanOK, Gone, ClearSteps, clock
  <2> QED BY <1>a, <1>b, <2>1, <2>2, <2>3, <2>4, ScanMoves
<1>12. CASE HardDeleteDocument(s)
  <2>1. Continue(s) /\ UNCHANGED <<file, mirrors>> /\ doc' = None /\ x.pc = "hard"
          /\ proc' = [proc EXCEPT ![s] = Idle]
    BY <1>12 DEF Continue, HardDeleteDocument, At, End
  <2>2. "expiry" \in world /\ Gone /\ ~file
    BY <1>7, <2>1
  <2>3. PICK y : y.op = None /\ y.pc = "idle" /\ proc' = [proc EXCEPT ![s] = y]
    BY <2>1 DEF Idle
  <2>4. ScanOK(y)'
    BY <2>3 DEF ScanOK
  <2> QED BY <1>a, <1>b, <2>1, <2>2, <2>3, <2>4, ScanMoves
<1> QED BY <1>5, <1>6, <1>7, <1>9, <1>10, <1>11, <1>12 DEF Scan, Continue

LEMMA InitBin == Init => BinInv
<1> SUFFICES ASSUME Init PROVE BinOK
  BY DEF BinInv
<1>1. /\ doc # None /\ doc.trashed = None /\ doc.mirror = Import /\ file = TRUE /\ mirrors = {Import}
      /\ \A p \in Procs : proc[p].pc = "idle" /\ proc[p].op = None
  BY ConstantFacts, NoneAssumption DEF Init, Documents, Idle
<1>2. Requests \subseteq Procs /\ Scanners \subseteq Procs
  BY ConstantFacts
<1> QED BY <1>1, <1>2 DEF BinOK, Busy, At, RequestOK, ClearSteps, ScanOK, Settled, Linked

LEMMA StepBin == IInv /\ BinInv /\ [Next]_vars => BinInv'
<1> SUFFICES ASSUME IInv, BinInv, [Next]_vars, Turns' PROVE BinOK'
  BY DEF BinInv
<1>1. ASSUME NEW p \in Procs, Refuse(p) \/ Crash(p) PROVE FALSE
  BY <1>1, ArchiveAssumption DEF Refuse, Crash, Turns, IInv, TypeOK
<1>2. UNCHANGED <<world, faults>>
  <2>1. ASSUME NEW r \in Requests, Ask(r) PROVE UNCHANGED <<world, faults>>
    BY <2>1 DEF Ask, ArchiveDocument, UpdateDocument, DeleteDocument, permanentlyDeleteDocument,
       UpdateReminderStatus, DeleteReminder, DeleteNotification, Edit, Receive, clock
  <2>2. ASSUME NEW p \in Procs, Continue(p) PROVE UNCHANGED <<world, faults>>
    BY <2>2 DEF Continue, SaveDocument, SaveReminder, deleteManagedKnowledgeMirror,
       restoreManagedKnowledgeMirror, clearList, clearCancel, clearArtifacts, DeleteFiles,
       HardDeleteDocument, clock
  <2>3. ASSUME NEW s \in Scanners, Scan(s) PROVE UNCHANGED <<world, faults>>
    BY <2>2, <2>3, ConstantFacts DEF Scan, ListDueReminders, Wake, hasArchiveReturnRecord, DeliverReminder,
       ListTrashedDocuments, clock
  <2> QED BY <1>1, <2>1, <2>2, <2>3, ConstantFacts DEF Next, Tick, vars
<1>3. Turns /\ BinOK
  BY <1>2 DEF Turns, BinInv
<1>4. CASE UNCHANGED <<doc, file, mirrors, proc>>
  <2>1. now' = now \/ ("expiry" \in world => \A r \in Requests : ~Busy(r))
    <3>1. CASE Tick
      BY <3>1 DEF Tick, AtRest, Busy
    <3>2. ASSUME NEW r \in Requests, Ask(r) PROVE now' = now
      BY <3>2 DEF Ask, ArchiveDocument, UpdateDocument, DeleteDocument, permanentlyDeleteDocument,
         UpdateReminderStatus, DeleteReminder, DeleteNotification, Edit, Receive, clock
    <3>3. ASSUME NEW p \in Procs, Continue(p) PROVE now' = now
      BY <3>3 DEF Continue, SaveDocument, SaveReminder, deleteManagedKnowledgeMirror,
         restoreManagedKnowledgeMirror, clearList, clearCancel, clearArtifacts, DeleteFiles,
         HardDeleteDocument, clock
    <3>4. ASSUME NEW s \in Scanners, Scan(s) PROVE now' = now
      BY <3>3, <3>4, ConstantFacts DEF Scan, ListDueReminders, Wake, hasArchiveReturnRecord, DeliverReminder,
         ListTrashedDocuments, clock
    <3> QED BY <1>1, <3>1, <3>2, <3>3, <3>4, ConstantFacts DEF Next, vars
  <2>2. ASSUME NEW r \in Requests PROVE RequestOK(proc[r])'
    BY <1>2, <1>3, <1>4, <2>1 DEF BinOK, Busy, At, RequestOK, Settled, Live, Gone, Linked
  <2> QED BY <1>2, <1>3, <1>4, <2>2 DEF BinOK, Busy, At, ScanOK, Settled, Gone
<1> QED BY <1>1, <1>3, <1>4, AskBin, ContinueBin, ScanBin DEF Next, Tick, vars, archive

\* Without restores there is one mirror; as long as it is there, the row and
\* every copy of it name it, and nobody is past its deletion.
Named(x) == (x.doc # None => x.doc.mirror = Import) /\ x.pc \notin {"files", "hard"}

MirrorOK ==
    /\ mirrors \subseteq {Import}
    /\ \A p \in Procs : proc[p].pc # "remirror"
    /\ Import \in mirrors =>
           doc # None /\ doc.mirror = Import /\ \A p \in Procs : Named(proc[p])

MirrorInv == "restore" \notin world => MirrorOK

LEMMA MirrorMoves ==
    ASSUME MirrorOK, ProcInv, NEW p \in Procs, NEW y, proc' = [proc EXCEPT ![p] = y],
           y.pc # "remirror", mirrors' \subseteq mirrors,
           Import \in mirrors' => doc' # None /\ doc'.mirror = Import /\ Named(y)
    PROVE  MirrorOK'
<1>1. proc'[p] = y /\ \A q \in Procs \ {p} : proc'[q] = proc[q]
  BY DEF ProcInv
<1>2. ASSUME NEW q \in Procs PROVE proc'[q].pc # "remirror" /\ (Import \in mirrors' => Named(proc[q])')
  <2>1. CASE q = p
    BY <1>1, <2>1 DEF Named
  <2>2. CASE q # p
    BY <1>1, <2>2 DEF Named, MirrorOK
  <2> QED BY <2>1, <2>2
<1> QED BY <1>2 DEF MirrorOK

\* A step that leaves the row and the mirror alone, and loads at most the row.
LEMMA MirrorKept ==
    ASSUME MirrorOK, ProcInv, NEW p \in Procs, NEW y, proc' = [proc EXCEPT ![p] = y],
           UNCHANGED <<doc, mirrors>>, y.pc \notin {"remirror", "files", "hard"},
           y.doc = None \/ y.doc = proc[p].doc \/ y.doc = doc
    PROVE  MirrorOK'
<1>1. Import \in mirrors => Named(y)
  BY DEF MirrorOK, Named
<1> QED BY <1>1, MirrorMoves DEF MirrorOK

\* What p is after it has ended, and after it has moved on.
LEMMA EndForm ==
    ASSUME NEW p \in Procs, End(p)
    PROVE  \E y : proc' = [proc EXCEPT ![p] = y] /\ y.doc = None /\ y.pc \in {"idle", "done"}
<1> DEFINE z == IF p \in Scanners THEN Idle ELSE [Idle EXCEPT !.pc = "done"]
<1>1. proc' = [proc EXCEPT ![p] = z] /\ z.doc = None /\ z.pc \in {"idle", "done"}
  BY DEF End, Idle
<1> QED BY <1>1

LEMMA ToForm ==
    ASSUME ProcInv, NEW p \in Procs, NEW pc, To(p, pc)
    PROVE  \E y : proc' = [proc EXCEPT ![p] = y] /\ y.doc = proc[p].doc /\ y.pc = pc
<1> DEFINE z == [proc[p] EXCEPT !.pc = pc]
<1>1. proc' = [proc EXCEPT ![p] = z] /\ z.doc = proc[p].doc /\ z.pc = pc
  BY DEF To, ProcInv, ProcStates
<1> QED BY <1>1

LEMMA MirrorEnd ==
    ASSUME MirrorOK, ProcInv, NEW p \in Procs, End(p), UNCHANGED <<doc, mirrors>>
    PROVE  MirrorOK'
<1>1. PICK y : proc' = [proc EXCEPT ![p] = y] /\ y.doc = None /\ y.pc \in {"idle", "done"}
  BY EndForm
<1> QED BY <1>1, MirrorKept

LEMMA MirrorTo ==
    ASSUME MirrorOK, ProcInv, NEW p \in Procs, NEW pc, To(p, pc), UNCHANGED <<doc, mirrors>>,
           pc \notin {"remirror", "files", "hard"}
    PROVE  MirrorOK'
<1>1. PICK y : proc' = [proc EXCEPT ![p] = y] /\ y.doc = proc[p].doc /\ y.pc = pc
  BY ToForm
<1> QED BY <1>1, MirrorKept

LEMMA AskMirror ==
    ASSUME IInv, MirrorOK, "restore" \notin world, NEW r \in Requests, Ask(r)
    PROVE  MirrorOK'
<1>1. /\ r \in Procs /\ ProcInv /\ (doc # None => doc \in Documents)
      /\ UNCHANGED <<doc, mirrors>>
  BY ConstantFacts DEF IInv, TypeOK, Ask, ArchiveDocument, UpdateDocument, DeleteDocument,
     permanentlyDeleteDocument, UpdateReminderStatus, DeleteReminder, DeleteNotification, Edit, Receive,
     archive
<1>2. ASSUME NEW op, NEW copy, NEW pc, Edit(r, op, copy, pc), copy.mirror = doc.mirror,
             pc \notin {"remirror", "files", "hard"}
      PROVE  MirrorOK'
  <2> DEFINE y == [Idle EXCEPT !.pc = pc, !.op = op, !.doc = copy]
  <2>1. y.pc = pc /\ y.doc = copy /\ proc' = [proc EXCEPT ![r] = y]
    BY <1>2 DEF Edit, Idle
  <2> HIDE DEF y
  <2>2. Import \in mirrors => doc # None /\ doc.mirror = Import /\ Named(y)
    BY <1>2, <2>1 DEF MirrorOK, Named
  <2> QED BY <1>1, <1>2, <2>1, <2>2, MirrorMoves
<1>3. CASE ArchiveDocument(r)
  <2>1. doc \in Documents
    BY <1>1, <1>3 DEF ArchiveDocument, Edit
  <2> DEFINE kept == [doc EXCEPT !.archived = TRUE]
  <2>2. kept.mirror = doc.mirror
    BY <2>1 DEF Documents
  <2>3. Edit(r, "archive", kept, "save")
    BY <1>3 DEF ArchiveDocument, Edit, Receive
  <2> HIDE DEF kept
  <2> QED BY <1>2, <2>2, <2>3
<1>4. CASE UpdateDocument(r)
  <2>1. doc \in Documents
    BY <1>1, <1>4 DEF UpdateDocument, Edit
  <2> DEFINE copy == [doc EXCEPT !.returned = ("loan" \in world)]
  <2>2. copy.mirror = doc.mirror
    BY <2>1 DEF Documents
  <2>3. Edit(r, "patch", copy, "save")
    BY <1>4 DEF UpdateDocument
  <2> HIDE DEF copy
  <2> QED BY <1>2, <2>2, <2>3
<1>5. CASE DeleteDocument(r)
  <2>1. doc \in Documents
    BY <1>1, <1>5 DEF DeleteDocument, Edit
  <2> DEFINE copy == [doc EXCEPT !.trashed = now]
  <2>2. copy.mirror = doc.mirror
    BY <2>1 DEF Documents
  <2>3. Edit(r, "trash", copy, "mark") \/ Edit(r, "trash", doc, "unmirror")
    BY <1>5 DEF DeleteDocument
  <2> HIDE DEF copy
  <2> QED BY <1>2, <2>2, <2>3
<1>6. CASE permanentlyDeleteDocument(r)
  BY <1>2, <1>6 DEF permanentlyDeleteDocument
<1>7. CASE UpdateReminderStatus(r)
  <2>1. PICK op, row : proc' = [proc EXCEPT ![r] = [Idle EXCEPT !.pc = "saverem", !.op = op, !.rem = row]]
    BY <1>7 DEF UpdateReminderStatus
  <2> DEFINE y == [Idle EXCEPT !.pc = "saverem", !.op = op, !.rem = row]
  <2>2. y.pc = "saverem" /\ y.doc = None /\ proc' = [proc EXCEPT ![r] = y]
    BY <2>1 DEF Idle
  <2> HIDE DEF y
  <2> QED BY <1>1, <2>2, MirrorKept
<1>8. CASE DeleteReminder(r) \/ DeleteNotification(r)
  BY <1>1, <1>8, MirrorEnd DEF DeleteReminder, DeleteNotification
<1> QED BY <1>3, <1>4, <1>5, <1>6, <1>7, <1>8 DEF Ask

LEMMA ContinueMirror ==
    ASSUME IInv, MirrorOK, NEW p \in Procs, Continue(p)
    PROVE  MirrorOK'
<1> DEFINE x == proc[p]
<1>1. /\ ProcInv /\ x \in ProcStates /\ LoadedOK(x, p) /\ (x.doc # None => x.doc \in Documents)
      /\ x.pc # "remirror" /\ (Import \in mirrors => Named(x))
      /\ mirrors \subseteq {Import}
  BY DEF IInv, ProcInv, ProcStates, MirrorOK
<1>2. CASE SaveDocument(p)
  <2>1. x.doc \in Documents /\ UNCHANGED mirrors
    BY <1>1, <1>2 DEF SaveDocument, At, LoadedOK, DocumentSteps
  <2>2. doc' \in Documents /\ doc'.mirror = x.doc.mirror
    BY <1>2, <2>1, ConstantFacts DEF SaveDocument, Documents
  <2>3. Import \in mirrors' => doc' # None /\ doc'.mirror = Import
    BY <1>1, <2>1, <2>2, ConstantFacts DEF Named
  <2>4. PICK y : /\ proc' = [proc EXCEPT ![p] = y] /\ (y.doc = None \/ y.doc = x.doc)
                 /\ y.pc \in {"resave", "idle", "done", "unmirror", "list"}
    <3>1. CASE End(p)
      BY <3>1, EndForm
    <3>2. CASE To(p, "resave")
      BY <1>1, <3>2, ToForm
    <3>3. CASE proc' = [proc EXCEPT ![p].pc = "unmirror", ![p].moved = TRUE]
      <4> DEFINE z == [x EXCEPT !.pc = "unmirror", !.moved = TRUE]
      <4>1. proc' = [proc EXCEPT ![p] = z] /\ z.doc = x.doc /\ z.pc = "unmirror"
        BY <1>1, <3>3 DEF ProcInv, ProcStates
      <4> QED BY <4>1
    <3>4. CASE proc' = [proc EXCEPT ![p] = [Idle EXCEPT !.pc = "list", !.op = "trash"]]
      <4> DEFINE z == [Idle EXCEPT !.pc = "list", !.op = "trash"]
      <4>1. proc' = [proc EXCEPT ![p] = z] /\ z.doc = None /\ z.pc = "list"
        BY <3>4 DEF Idle
      <4> QED BY <4>1
    <3> QED BY <1>2, <3>1, <3>2, <3>3, <3>4 DEF SaveDocument
  <2>5. Import \in mirrors' => Named(y)
    BY <1>1, <2>1, <2>4 DEF Named
  <2> QED BY <1>1, <2>1, <2>3, <2>4, <2>5, MirrorMoves
<1>3. CASE SaveReminder(p)
  BY <1>1, <1>3, MirrorEnd DEF SaveReminder, archive
<1>4. CASE deleteManagedKnowledgeMirror(p)
  <2>1. x.doc \in Documents /\ UNCHANGED doc /\ mirrors' = mirrors \ {x.doc.mirror}
    BY <1>1, <1>4 DEF deleteManagedKnowledgeMirror, At, LoadedOK, DocumentSteps
  <2>2. Import \notin mirrors'
    BY <1>1, <2>1, ConstantFacts DEF Named
  <2>3. PICK y : proc' = [proc EXCEPT ![p] = y] /\ y.pc \in {"rollback", "idle", "done", "link", "files"}
    <3>1. CASE End(p)
      BY <3>1, EndForm
    <3>2. CASE To(p, "rollback")
      BY <1>1, <3>2, ToForm
    <3>3. ASSUME NEW pc \in {"link", "files"}, NEW row, proc' = [proc EXCEPT ![p].pc = pc, ![p].doc = row]
          PROVE  \E y : proc' = [proc EXCEPT ![p] = y] /\ y.pc \in {"link", "files"}
      <4> DEFINE z == [x EXCEPT !.pc = pc, !.doc = row]
      <4>1. proc' = [proc EXCEPT ![p] = z] /\ z.pc = pc
        BY <1>1, <3>3 DEF ProcInv, ProcStates
      <4> HIDE DEF z
      <4> QED BY <4>1
    <3> DEFINE copy == [x.doc EXCEPT !.mirror = None]
    <3>4. \/ End(p) \/ To(p, "rollback")
          \/ proc' = [proc EXCEPT ![p].pc = "link", ![p].doc = copy]
          \/ proc' = [proc EXCEPT ![p].pc = "files", ![p].doc = None]
      BY <1>1, <1>4 DEF deleteManagedKnowledgeMirror, KeepMirror, ProcInv, ProcStates
    <3> HIDE DEF copy
    <3> QED BY <3>1, <3>2, <3>3, <3>4
  <2> QED BY <1>1, <2>1, <2>2, <2>3, MirrorMoves
<1>5. CASE restoreManagedKnowledgeMirror(p)
  BY <1>1, <1>5 DEF restoreManagedKnowledgeMirror, At
<1>6. CASE clearList(p) \/ clearCancel(p) \/ clearArtifacts(p)
  <2>1. UNCHANGED <<doc, mirrors>>
    BY <1>6 DEF clearList, clearCancel, clearArtifacts, archive
  <2>2. ASSUME NEW pc \in {"cancel", "artifacts"}, NEW row, proc' = [proc EXCEPT ![p].pc = pc, ![p].rem = row]
        PROVE  MirrorOK'
    <3>1. PICK y : proc' = [proc EXCEPT ![p] = y] /\ y.doc = x.doc /\ y.pc = pc
      <4> DEFINE z == [x EXCEPT !.pc = pc, !.rem = row]
      <4>1. proc' = [proc EXCEPT ![p] = z] /\ z.doc = x.doc /\ z.pc = pc
        BY <1>1, <2>2 DEF ProcInv, ProcStates
      <4> QED BY <4>1
    <3> QED BY <1>1, <2>1, <2>2, <3>1, MirrorKept
  <2>3. \/ End(p) \/ To(p, "unmirror") \/ To(p, "artifacts")
        \/ proc' = [proc EXCEPT ![p].pc = "cancel", ![p].rem = rem]
        \/ proc' = [proc EXCEPT ![p].pc = "artifacts", ![p].rem = None]
    BY <1>6 DEF clearList, clearCancel, clearArtifacts, Cleared
  <2> QED BY <1>1, <2>1, <2>2, <2>3, MirrorEnd, MirrorTo
<1>7. CASE DeleteFiles(p)
  <2>1. x.pc = "files" /\ UNCHANGED <<doc, mirrors>> /\ (To(p, "hard") \/ End(p))
    BY <1>7 DEF DeleteFiles, At
  <2>2. Import \notin mirrors
    BY <1>1, <2>1 DEF Named
  <2>3. PICK y : proc' = [proc EXCEPT ![p] = y] /\ y.pc \in {"hard", "idle", "done"}
    BY <1>1, <2>1, EndForm, ToForm
  <2> QED BY <1>1, <2>1, <2>2, <2>3, MirrorMoves
<1>8. CASE HardDeleteDocument(p)
  <2>1. x.pc = "hard" /\ UNCHANGED mirrors /\ End(p)
    BY <1>8 DEF HardDeleteDocument, At
  <2>2. Import \notin mirrors
    BY <1>1, <2>1 DEF Named
  <2>3. PICK y : proc' = [proc EXCEPT ![p] = y] /\ y.pc \in {"idle", "done"}
    BY <2>1, EndForm
  <2> QED BY <1>1, <2>1, <2>2, <2>3, MirrorMoves
<1> QED BY <1>2, <1>3, <1>4, <1>5, <1>6, <1>7, <1>8 DEF Continue

LEMMA ScanMirror ==
    ASSUME IInv, MirrorOK, NEW s \in Scanners, Scan(s)
    PROVE  MirrorOK'
<1> DEFINE x == proc[s]
<1>1. s \in Procs /\ ProcInv /\ x \in ProcStates
  BY ConstantFacts DEF IInv, ProcInv
<1>2. CASE Continue(s)
  BY <1>1, <1>2, ContinueMirror
<1>3. CASE ~Continue(s)
  <2>1. UNCHANGED <<doc, mirrors>>
    BY <1>3 DEF Scan, ListDueReminders, Wake, hasArchiveReturnRecord, DeliverReminder,
       ListTrashedDocuments, archive
  <2>2. ASSUME NEW z, proc' = [proc EXCEPT ![s] = z], z.pc \notin {"remirror", "files", "hard"},
               z.doc = None \/ z.doc = x.doc \/ z.doc = doc
        PROVE  MirrorOK'
    BY <1>1, <2>1, <2>2, MirrorKept
  <2>3. CASE ListDueReminders(s)
    <3> DEFINE z == [x EXCEPT !.pc = "wake", !.rem = rem]
    <3>1. To(s, Deliverable) \/ To(s, "bin") \/ proc' = [proc EXCEPT ![s] = z]
      BY <1>1, <2>3 DEF ListDueReminders, ProcInv, ProcStates
    <3>2. z.pc = "wake" /\ z.doc = x.doc
      BY <1>1 DEF ProcStates
    <3>3. Deliverable \notin {"remirror", "files", "hard"}
      BY DEF Deliverable
    <3> HIDE DEF z
    <3> QED BY <1>1, <2>1, <2>2, <3>1, <3>2, <3>3, MirrorTo
  <2>4. CASE Wake(s)
    <3> DEFINE z == [x EXCEPT !.pc = Deliverable, !.rem = None]
    <3>1. proc' = [proc EXCEPT ![s] = z] /\ z.pc \in {"inspect", "deliver"} /\ z.doc = x.doc
      BY <1>1, <2>4 DEF Wake, Deliverable, ProcInv, ProcStates
    <3> HIDE DEF z
    <3> QED BY <2>2, <3>1
  <2>5. CASE hasArchiveReturnRecord(s)
    <3> DEFINE z == [x EXCEPT !.returned = (doc # None /\ doc.returned), !.pc = "deliver"]
    <3>1. proc' = [proc EXCEPT ![s] = z] /\ z.pc = "deliver" /\ z.doc = x.doc
      BY <1>1, <2>5 DEF hasArchiveReturnRecord, ProcInv, ProcStates
    <3> HIDE DEF z
    <3> QED BY <2>2, <3>1
  <2>6. CASE DeliverReminder(s)
    <3> DEFINE z == [Idle EXCEPT !.pc = "bin"]
    <3>1. proc' = [proc EXCEPT ![s] = z] /\ z.pc = "bin" /\ z.doc = None
      BY <2>6 DEF DeliverReminder, Idle
    <3> HIDE DEF z
    <3> QED BY <2>2, <3>1
  <2>7. CASE ListTrashedDocuments(s)
    <3> DEFINE z == [x EXCEPT !.doc = doc, !.pc = "list"]
    <3>1. End(s) \/ proc' = [proc EXCEPT ![s] = z]
      BY <1>1, <2>7 DEF ListTrashedDocuments, ProcInv, ProcStates
    <3>2. z.pc = "list" /\ z.doc = doc
      BY <1>1 DEF ProcStates
    <3> HIDE DEF z
    <3> QED BY <1>1, <2>1, <2>2, <3>1, <3>2, MirrorEnd
  <2> QED BY <1>3, <2>3, <2>4, <2>5, <2>6, <2>7 DEF Scan
<1> QED BY <1>2, <1>3

LEMMA RefuseMirror ==
    ASSUME IInv, MirrorOK, NEW p \in Procs, Refuse(p)
    PROVE  MirrorOK'
<1> DEFINE x == proc[p]
<1>1. ProcInv /\ x \in ProcStates /\ UNCHANGED <<doc, mirrors>> /\ (Import \in mirrors => Named(x))
  BY DEF IInv, ProcInv, Refuse, archive, MirrorOK
<1>2. \/ End(p) \/ To(p, "rollback") \/ To(p, "deliver") \/ (x.pc = "files" /\ To(p, "hard"))
      \/ proc' = [proc EXCEPT ![p].pc = "artifacts", ![p].rem = None, ![p].failed = TRUE]
      \/ proc' = [proc EXCEPT ![p] = [Idle EXCEPT !.pc = "bin"]]
  <2>1. CASE x.pc = "unmirror"
    BY <2>1 DEF Refuse, KeepMirror, At
  <2>2. CASE x.pc \in {"idle", "done"}
    BY <2>2 DEF Refuse, At
  <2>3. CASE x.pc \notin {"idle", "done", "unmirror"}
    BY <2>3, Zenon DEF Refuse, At
  <2> QED BY <2>1, <2>2, <2>3
<1>3. CASE End(p) \/ To(p, "rollback") \/ To(p, "deliver")
  BY <1>1, <1>3, MirrorEnd, MirrorTo
<1>4. CASE x.pc = "files" /\ To(p, "hard")
  <2>1. PICK y : proc' = [proc EXCEPT ![p] = y] /\ y.pc = "hard"
    BY <1>1, <1>4, ToForm
  <2>2. Import \notin mirrors
    BY <1>1, <1>4 DEF Named
  <2> QED BY <1>1, <2>1, <2>2, MirrorMoves
<1>5. CASE proc' = [proc EXCEPT ![p].pc = "artifacts", ![p].rem = None, ![p].failed = TRUE]
  <2> DEFINE z == [x EXCEPT !.pc = "artifacts", !.rem = None, !.failed = TRUE]
  <2>1. proc' = [proc EXCEPT ![p] = z] /\ z.pc = "artifacts" /\ z.doc = x.doc
    BY <1>1, <1>5 DEF ProcInv, ProcStates
  <2> HIDE DEF z
  <2> QED BY <1>1, <2>1, MirrorKept
<1>6. CASE proc' = [proc EXCEPT ![p] = [Idle EXCEPT !.pc = "bin"]]
  <2> DEFINE z == [Idle EXCEPT !.pc = "bin"]
  <2>1. proc' = [proc EXCEPT ![p] = z] /\ z.pc = "bin" /\ z.doc = None
    BY <1>6 DEF Idle
  <2> HIDE DEF z
  <2> QED BY <1>1, <2>1, MirrorKept
<1> QED BY <1>2, <1>3, <1>4, <1>5, <1>6

LEMMA InitMirror == Init => MirrorInv
<1> SUFFICES ASSUME Init PROVE MirrorOK
  BY DEF MirrorInv
<1>1. doc # None /\ doc.mirror = Import /\ mirrors = {Import}
  BY NoneAssumption DEF Init, Documents
<1>2. \A p \in Procs : proc[p].pc = "idle" /\ proc[p].doc = None
  BY DEF Init, Idle
<1> QED BY <1>1, <1>2 DEF MirrorOK, Named

LEMMA StepMirror == IInv /\ MirrorInv /\ [Next]_vars => MirrorInv'
<1> SUFFICES ASSUME IInv, MirrorInv, [Next]_vars, "restore" \notin world' PROVE MirrorOK'
  BY DEF MirrorInv
<1>1. world' = world
  <2>1. ASSUME NEW r \in Requests, Ask(r) PROVE world' = world
    BY <2>1 DEF Ask, ArchiveDocument, UpdateDocument, DeleteDocument, permanentlyDeleteDocument,
       UpdateReminderStatus, DeleteReminder, DeleteNotification, Edit, Receive, clock
  <2>2. ASSUME NEW p \in Procs, Continue(p) PROVE world' = world
    BY <2>2 DEF Continue, SaveDocument, SaveReminder, deleteManagedKnowledgeMirror,
       restoreManagedKnowledgeMirror, clearList, clearCancel, clearArtifacts, DeleteFiles,
       HardDeleteDocument, clock
  <2>3. ASSUME NEW s \in Scanners, Scan(s) PROVE world' = world
    BY <2>2, <2>3, ConstantFacts DEF Scan, ListDueReminders, Wake, hasArchiveReturnRecord, DeliverReminder,
       ListTrashedDocuments, clock
  <2>4. ASSUME NEW p \in Procs, Refuse(p) \/ Crash(p) PROVE world' = world
    BY <2>4 DEF Refuse, Crash, clock
  <2> QED BY <2>1, <2>2, <2>3, <2>4, ConstantFacts DEF Next, Tick, vars
<1>2. MirrorOK /\ "restore" \notin world /\ ProcInv
  BY <1>1 DEF MirrorInv, IInv
<1>3. CASE UNCHANGED <<doc, mirrors, proc>>
  BY <1>2, <1>3 DEF MirrorOK, Named
<1>4. ASSUME NEW p \in Procs, Crash(p) PROVE MirrorOK'
  BY <1>2, <1>4, MirrorEnd DEF Crash, archive
<1>5. ASSUME NEW r \in Requests, Ask(r) \/ Continue(r) PROVE MirrorOK'
  BY <1>2, <1>5, AskMirror, ContinueMirror, ConstantFacts
<1> QED BY <1>2, <1>3, <1>4, <1>5, ScanMirror, RefuseMirror DEF Next, Tick, vars, archive

\* Users who take turns and calls that work: between two requests a document of
\* the archive has its file and just the mirror it names, one in the bin has no
\* mirror and names none, and one that is gone has left neither behind, however
\* far the scans of any number of instances have come with their clean-up.  And
\* without restores, whatever calls fail, processes die and requests overlap, a
\* document that is gone has taken its mirror with it.
THEOREM BinIsClean == Spec => []NothingLeftBehind
<1>1. BinInv => CleanBetweenRequests
  BY DEF BinInv, Turns, BinOK, Busy, AtRest, Settled, CleanBetweenRequests
<1>2. MirrorInv => NoMirrorWithoutRow
  BY DEF MirrorInv, MirrorOK, NoMirrorWithoutRow
<1>3. BinInv /\ MirrorInv => NothingLeftBehind
  BY <1>1, <1>2 DEF NothingLeftBehind
<1> QED BY InitIInv, Step, InitBin, StepBin, InitMirror, StepMirror, <1>3, PTL DEF Spec

---------------------------------------------------------------------------
(* The reminder of a user who put it aside.  What brings it back is a scan *)
(* that saves the snoozed row it listed, or a clear that does not see the  *)
(* reminder because the tenant has too many: without these, nothing does.  *)

Off == rem = None \/ rem.status \notin {"active", "snoozed"}

Awake == "one" \in world /\ "snooze" \notin world /\ "crowded" \notin world

\* No row that was loaded is snoozed, and a clear that is about to remove the
\* artifacts has put the reminder aside.
AwakeOK(x) == x.pc # "wake" /\ (x.rem # None => x.rem.status # "snoozed")
ClearOK(x) == x.pc = "artifacts" /\ ~x.failed => Off

QuietOK ==
    /\ \A q, r \in Requests : Busy(q) /\ Busy(r) => q = r
    /\ rem # None => rem.status # "snoozed"
    /\ \A p \in Procs : AwakeOK(proc[p])
    /\ \A r \in Requests : ClearOK(proc[r])
    /\ stopped => Off

QuietInv == Awake => QuietOK

LEMMA QuietMoves ==
    ASSUME QuietOK, ProcInv, NEW p \in Procs, NEW y, proc' = [proc EXCEPT ![p] = y], AwakeOK(y),
           rem' # None => rem'.status # "snoozed", stopped' => Off',
           \/ p \in Scanners /\ (Off => Off')
           \/ p \in Requests /\ (\A q \in Requests \ {p} : ~Busy(q)) /\ ClearOK(y)'
    PROVE  QuietOK'
<1>1. /\ proc'[p] = y /\ \A q \in Procs \ {p} : proc'[q] = proc[q]
      /\ Requests \subseteq Procs /\ \A r \in Requests : r \notin Scanners
  BY ConstantFacts DEF ProcInv
<1>2. \A q \in Procs : AwakeOK(proc[q])'
  BY <1>1 DEF AwakeOK, QuietOK
<1>3. CASE p \in Scanners /\ (Off => Off')
  <2>1. \A r \in Requests : proc'[r] = proc[r]
    BY <1>1, <1>3
  <2>2. \A r \in Requests : Busy(r)' <=> Busy(r)
    BY <2>1 DEF Busy, At
  <2>3. \A r \in Requests : ClearOK(proc[r])'
    BY <2>1, <1>3 DEF ClearOK, QuietOK
  <2> QED BY <1>2, <2>2, <2>3 DEF QuietOK
<1>4. CASE p \in Requests /\ (\A q \in Requests \ {p} : ~Busy(q)) /\ ClearOK(y)'
  <2>1. \A r \in Requests \ {p} : ~Busy(r)'
    BY <1>1, <1>4 DEF Busy, At
  <2>2. \A r \in Requests : ClearOK(proc[r])'
    BY <2>1, <1>1, <1>4 DEF ClearOK, Busy, At
  <2> QED BY <1>2, <2>1, <2>2 DEF QuietOK
<1> QED BY <1>3, <1>4

LEMMA AskQuiet ==
    ASSUME IInv, Awake, QuietOK, NEW r \in Requests, Ask(r)
    PROVE  QuietOK'
<1>1. /\ r \in Procs /\ r \notin Scanners /\ ProcInv /\ \A q \in Requests \ {r} : ~Busy(q)
      /\ stopped' => stopped \/ rem' = None
      /\ rem' = rem \/ rem' = None
  <2>1. Receive(r, "archive") \/ \E op \in Ops : Receive(r, op)
    BY DEF Ask, ArchiveDocument, UpdateDocument, DeleteDocument, permanentlyDeleteDocument,
       UpdateReminderStatus, DeleteReminder, DeleteNotification, Edit, Ops
  <2>2. \A q \in Requests : ~Busy(q)
    BY <2>1 DEF Receive, Busy, Awake
  <2>3. \/ UNCHANGED <<rem, stopped>>
        \/ rem' = None /\ stopped' = TRUE
    BY DEF Ask, ArchiveDocument, UpdateDocument, DeleteDocument, permanentlyDeleteDocument,
       UpdateReminderStatus, DeleteReminder, DeleteNotification, Edit
  <2> QED BY <2>2, <2>3, ConstantFacts DEF IInv
<1>2. PICK y : /\ proc' = [proc EXCEPT ![r] = y]
               /\ y.pc \notin {"wake", "artifacts"}
               /\ y.rem # None => y.rem.status # "snoozed"
  <2>1. ASSUME NEW op, NEW copy, NEW pc \in {"save", "remirror", "mark", "unmirror", "list"}, Edit(r, op, copy, pc)
        PROVE  \E y : /\ proc' = [proc EXCEPT ![r] = y]
                      /\ y.pc \notin {"wake", "artifacts"}
                      /\ y.rem # None => y.rem.status # "snoozed"
    <3> DEFINE z == [Idle EXCEPT !.pc = pc, !.op = op, !.doc = copy]
    <3>1. proc' = [proc EXCEPT ![r] = z] /\ z.pc = pc /\ z.rem = None
      BY <2>1 DEF Edit, Idle
    <3> QED BY <3>1
  <2>2. CASE UpdateReminderStatus(r)
    <3>1. PICK status \in Statuses \ {"snoozed"}, until \in Times \cup {None} :
              proc' = [proc EXCEPT ![r] = [Idle EXCEPT !.pc = "saverem", !.op = "status",
                         !.rem = [rem EXCEPT !.status = status, !.until = until]]]
      BY <2>2 DEF UpdateReminderStatus, Awake, Receive
    <3> DEFINE row == [rem EXCEPT !.status = status, !.until = until]
               z == [Idle EXCEPT !.pc = "saverem", !.op = "status", !.rem = row]
    <3>2. row.status = status
      BY <2>2 DEF UpdateReminderStatus, IInv, TypeOK, Reminders
    <3>3. proc' = [proc EXCEPT ![r] = z] /\ z.pc = "saverem" /\ z.rem = row
      BY <3>1 DEF Idle
    <3> QED BY <3>2, <3>3
  <2>3. CASE DeleteReminder(r) \/ DeleteNotification(r)
    <3> DEFINE z == [Idle EXCEPT !.pc = "done"]
    <3>1. proc' = [proc EXCEPT ![r] = z] /\ z.pc = "done" /\ z.rem = None
      BY <1>1, <2>3 DEF DeleteReminder, DeleteNotification, End, Idle
    <3> QED BY <3>1
  <2> QED BY <2>1, <2>2, <2>3 DEF Ask, ArchiveDocument, UpdateDocument, DeleteDocument,
       permanentlyDeleteDocument
<1>3. AwakeOK(y) /\ ClearOK(y)' /\ (rem' # None => rem'.status # "snoozed") /\ (stopped' => Off')
  BY <1>1, <1>2 DEF AwakeOK, ClearOK, QuietOK, Off
<1> QED BY <1>1, <1>2, <1>3, QuietMoves

LEMMA ContinueQuiet ==
    ASSUME IInv, Awake, QuietOK, NEW p \in Procs, Continue(p)
    PROVE  QuietOK'
<1> DEFINE x == proc[p]
<1>a. /\ x \in ProcStates /\ LoadedOK(x, p) /\ AwakeOK(x) /\ (p \in Requests => ClearOK(x))
      /\ ProcInv /\ proc \in [Procs -> ProcStates] /\ rem \in Reminders \cup {None}
      /\ p \in Requests \/ p \in Scanners
      /\ p \in Requests => p \notin Scanners
  BY ConstantFacts DEF IInv, ProcInv, QuietOK, TypeOK, Procs
<1>b. p \in Requests => \A q \in Requests \ {p} : ~Busy(q)
  <2>1. p \in Requests => Busy(p)
    BY DEF Continue, SaveDocument, SaveReminder, deleteManagedKnowledgeMirror, restoreManagedKnowledgeMirror,
       clearList, clearCancel, clearArtifacts, DeleteFiles, HardDeleteDocument, At, Busy
  <2> QED BY <2>1 DEF QuietOK
<1>1. ASSUME NEW y, proc' = [proc EXCEPT ![p] = y], AwakeOK(y),
             rem' # None => rem'.status # "snoozed", stopped' => Off',
             p \in Scanners => (Off => Off'), p \in Requests => ClearOK(y)'
      PROVE  QuietOK'
  BY <1>1, <1>a, <1>b, QuietMoves
<1>2. ASSUME End(p), rem' # None => rem'.status # "snoozed", stopped' => Off', p \in Scanners => (Off => Off')
      PROVE  QuietOK'
  <2>1. PICK y : proc' = [proc EXCEPT ![p] = y] /\ y.pc \in {"idle", "done"} /\ y.rem = None
    <3>1. Idle.pc = "idle" /\ Idle.rem = None
      BY DEF Idle
    <3> DEFINE z == [Idle EXCEPT !.pc = "done"]
    <3>2. z.pc = "done" /\ z.rem = None
      BY DEF Idle
    <3> QED BY <1>2, <3>1, <3>2 DEF End
  <2>2. AwakeOK(y) /\ ClearOK(y)'
    BY <2>1 DEF AwakeOK, ClearOK
  <2> QED BY <1>1, <1>2, <2>1, <2>2
<1>3. ASSUME NEW pc, To(p, pc), pc # "wake", UNCHANGED <<rem, stopped>>, pc # "artifacts" \/ Off
      PROVE  QuietOK'
  <2>1. PICK y : proc' = [proc EXCEPT ![p] = y] /\ y.pc = pc /\ y.rem = x.rem
    <3> DEFINE z == [x EXCEPT !.pc = pc]
    <3>1. proc' = [proc EXCEPT ![p] = z] /\ z.pc = pc /\ z.rem = x.rem
      BY <1>3, <1>a DEF To, ProcStates
    <3> QED BY <3>1
  <2>2. AwakeOK(y) /\ ClearOK(y)' /\ (Off => Off')
    BY <1>3, <1>a, <2>1 DEF AwakeOK, ClearOK, Off
  <2> QED BY <1>1, <1>3, <2>1, <2>2 DEF QuietOK, Off
<1>4. ASSUME UNCHANGED <<rem, stopped>>
      PROVE  (rem' # None => rem'.status # "snoozed") /\ (stopped' => Off') /\ (Off => Off')
  BY <1>4 DEF QuietOK, Off
<1>5. CASE SaveDocument(p)
  <2>1. UNCHANGED <<rem, stopped>>
    BY <1>5 DEF SaveDocument
  <2>2. CASE End(p)
    BY <1>2, <1>4, <2>1, <2>2
  <2>3. CASE To(p, "resave")
    BY <1>3, <2>1, <2>3
  <2>4. CASE proc' = [proc EXCEPT ![p].pc = "unmirror", ![p].moved = TRUE]
    <3>1. PICK y : proc' = [proc EXCEPT ![p] = y] /\ y.pc = "unmirror" /\ y.rem = x.rem
      <4> DEFINE z == [x EXCEPT !.pc = "unmirror", !.moved = TRUE]
      <4>1. proc' = [proc EXCEPT ![p] = z] /\ z.pc = "unmirror" /\ z.rem = x.rem
        BY <2>4, <1>a DEF ProcStates
      <4> QED BY <4>1
    <3>2. AwakeOK(y) /\ ClearOK(y)'
      BY <1>a, <3>1 DEF AwakeOK, ClearOK
    <3> QED BY <1>1, <1>4, <2>1, <3>1, <3>2
  <2>5. CASE proc' = [proc EXCEPT ![p] = [Idle EXCEPT !.pc = "list", !.op = "trash"]]
    <3>1. PICK y : proc' = [proc EXCEPT ![p] = y] /\ y.pc = "list" /\ y.rem = None
      <4> DEFINE z == [Idle EXCEPT !.pc = "list", !.op = "trash"]
      <4>1. proc' = [proc EXCEPT ![p] = z] /\ z.pc = "list" /\ z.rem = None
        BY <2>5 DEF Idle
      <4> QED BY <4>1
    <3>2. AwakeOK(y) /\ ClearOK(y)'
      BY <3>1 DEF AwakeOK, ClearOK
    <3> QED BY <1>1, <1>4, <2>1, <3>1, <3>2
  <2> QED BY <1>5, <2>2, <2>3, <2>4, <2>5 DEF SaveDocument
<1>6. CASE SaveReminder(p)
  <2>1. x.rem \in Reminders /\ x.rem # None /\ rem' = x.rem /\ End(p) /\ x.rem.status # "snoozed"
    BY <1>6, <1>a DEF SaveReminder, At, LoadedOK, ReminderSteps, AwakeOK, ProcStates
  <2>2. stopped' => Off'
    BY <1>6 DEF SaveReminder, Off
  <2>3. p \in Requests
    BY <1>6, <1>a DEF SaveReminder, At, LoadedOK
  <2> QED BY <1>2, <2>1, <2>2, <2>3, <1>a
<1>7. CASE deleteManagedKnowledgeMirror(p) \/ restoreManagedKnowledgeMirror(p)
  <2>1. UNCHANGED <<rem, stopped>>
    BY <1>7 DEF deleteManagedKnowledgeMirror, restoreManagedKnowledgeMirror
  <2>2. CASE End(p)
    BY <1>2, <1>4, <2>1, <2>2
  <2>4. CASE To(p, "rollback")
    <3>1. PICK y : proc' = [proc EXCEPT ![p] = y] /\ y.pc = "rollback" /\ y.rem = x.rem
      <4> DEFINE z == [x EXCEPT !.pc = "rollback"]
      <4>1. proc' = [proc EXCEPT ![p] = z] /\ z.pc = "rollback" /\ z.rem = x.rem
        BY <1>a, <2>4 DEF To, ProcStates
      <4> QED BY <4>1
    <3>2. AwakeOK(y) /\ ClearOK(y)'
      BY <1>a, <3>1 DEF AwakeOK, ClearOK
    <3> QED BY <1>1, <1>4, <2>1, <3>1, <3>2
  <2>3. CASE ~End(p) /\ ~To(p, "rollback")
    <3>1. PICK y : proc' = [proc EXCEPT ![p] = y] /\ y.pc \in {"link", "files", "save"} /\ y.rem = x.rem
      <4>1. ASSUME NEW pc \in {"link", "files", "save"}, NEW row,
                   proc' = [proc EXCEPT ![p].pc = pc, ![p].doc = row]
            PROVE  \E y : proc' = [proc EXCEPT ![p] = y] /\ y.pc \in {"link", "files", "save"} /\ y.rem = x.rem
        <5> DEFINE z == [x EXCEPT !.pc = pc, !.doc = row]
        <5>1. proc' = [proc EXCEPT ![p] = z] /\ z.pc = pc /\ z.rem = x.rem
          BY <4>1, <1>a DEF ProcStates
        <5> HIDE DEF z
        <5> QED BY <5>1
      <4>2. CASE deleteManagedKnowledgeMirror(p)
        <5>1. ~KeepMirror(p)
          BY <2>3 DEF KeepMirror
        <5> DEFINE copy == [x.doc EXCEPT !.mirror = None]
        <5>2. \/ proc' = [proc EXCEPT ![p].pc = "link", ![p].doc = copy]
              \/ proc' = [proc EXCEPT ![p].pc = "files", ![p].doc = None]
          BY <4>2, <5>1, <1>a DEF deleteManagedKnowledgeMirror, ProcStates
        <5> HIDE DEF copy
        <5> QED BY <4>1, <5>2
      <4>3. CASE restoreManagedKnowledgeMirror(p)
        <5> DEFINE copy == [x.doc EXCEPT !.mirror = p, !.trashed = None]
        <5>1. proc' = [proc EXCEPT ![p].pc = "save", ![p].doc = copy]
          BY <4>3, <2>3, <1>a DEF restoreManagedKnowledgeMirror, ProcStates
        <5> HIDE DEF copy
        <5> QED BY <4>1, <5>1
      <4> QED BY <1>7, <4>2, <4>3
    <3>2. AwakeOK(y) /\ ClearOK(y)'
      BY <1>a, <3>1 DEF AwakeOK, ClearOK
    <3> QED BY <1>1, <1>4, <2>1, <3>1, <3>2
  <2> QED BY <2>2, <2>3, <2>4
<1>8. CASE clearList(p)
  <2>1. CASE rem = None
    <3>1. Off /\ Off' /\ rem' = None /\ Cleared(p, FALSE)
      BY <1>8, <2>1 DEF clearList, Off
    <3>2. CASE End(p)
      BY <1>2, <3>1, <3>2
    <3>3. CASE To(p, "unmirror")
      <4>1. PICK y : proc' = [proc EXCEPT ![p] = y] /\ y.pc = "unmirror" /\ y.rem = x.rem
        <5> DEFINE z == [x EXCEPT !.pc = "unmirror"]
        <5>1. proc' = [proc EXCEPT ![p] = z] /\ z.pc = "unmirror" /\ z.rem = x.rem
          BY <3>3, <1>a DEF To, ProcStates
        <5> QED BY <5>1
      <4>2. AwakeOK(y) /\ ClearOK(y)'
        BY <1>a, <4>1 DEF AwakeOK, ClearOK
      <4> QED BY <1>1, <3>1, <4>1, <4>2
    <3> QED BY <3>1, <3>2, <3>3 DEF Cleared
  <2>2. CASE rem # None /\ rem.status \in {"handled", "canceled"}
    <3>1. To(p, "artifacts") /\ UNCHANGED <<rem, stopped>> /\ Off
      BY <1>8, <2>2 DEF clearList, Off, Awake
    <3> QED BY <1>3, <3>1
  <2>3. CASE rem # None /\ rem.status \notin {"handled", "canceled"}
    <3>1. UNCHANGED <<rem, stopped>> /\ proc' = [proc EXCEPT ![p].pc = "cancel", ![p].rem = rem]
      BY <1>8, <2>3 DEF clearList, Awake
    <3>2. PICK y : proc' = [proc EXCEPT ![p] = y] /\ y.pc = "cancel" /\ y.rem = rem
      <4> DEFINE z == [x EXCEPT !.pc = "cancel", !.rem = rem]
      <4>1. proc' = [proc EXCEPT ![p] = z] /\ z.pc = "cancel" /\ z.rem = rem
        BY <3>1, <1>a DEF ProcStates
      <4> QED BY <4>1
    <3>3. AwakeOK(y) /\ ClearOK(y)'
      BY <3>2 DEF AwakeOK, ClearOK, QuietOK
    <3> QED BY <1>1, <1>4, <3>1, <3>2, <3>3
  <2> QED BY <2>1, <2>2, <2>3
<1>9. CASE clearCancel(p)
  <2>1. x.rem \in Reminders /\ rem' = [x.rem EXCEPT !.status = "canceled"] /\ stopped' = stopped
    BY <1>9, <1>a DEF clearCancel, At, LoadedOK, ReminderSteps, ProcStates
  <2>2. rem'.status = "canceled"
    BY <2>1 DEF Reminders
  <2>3. Off' /\ rem'.status # "snoozed"
    BY <2>2 DEF Off
  <2>4. PICK y : proc' = [proc EXCEPT ![p] = y] /\ y.pc = "artifacts" /\ y.rem = None
    <3> DEFINE z == [x EXCEPT !.pc = "artifacts", !.rem = None]
    <3>1. proc' = [proc EXCEPT ![p] = z] /\ z.pc = "artifacts" /\ z.rem = None
      BY <1>9, <1>a DEF clearCancel, ProcStates
    <3> QED BY <3>1
  <2>5. AwakeOK(y) /\ ClearOK(y)'
    BY <2>3, <2>4 DEF AwakeOK, ClearOK
  <2> QED BY <1>1, <2>3, <2>4, <2>5
<1>10. CASE clearArtifacts(p)
  <2>1. rem' = rem /\ (Off => Off')
    BY <1>10 DEF clearArtifacts, Off
  <2>2. stopped' => Off'
    BY <1>10, <1>a DEF clearArtifacts, At, ClearOK, QuietOK, Off
  <2>3. CASE End(p)
    BY <1>2, <2>1, <2>2, <2>3 DEF QuietOK
  <2>4. CASE To(p, "unmirror")
    <3>1. PICK y : proc' = [proc EXCEPT ![p] = y] /\ y.pc = "unmirror" /\ y.rem = x.rem
      <4> DEFINE z == [x EXCEPT !.pc = "unmirror"]
      <4>1. proc' = [proc EXCEPT ![p] = z] /\ z.pc = "unmirror" /\ z.rem = x.rem
        BY <2>4, <1>a DEF To, ProcStates
      <4> QED BY <4>1
    <3>2. AwakeOK(y) /\ ClearOK(y)'
      BY <1>a, <3>1 DEF AwakeOK, ClearOK
    <3> QED BY <1>1, <2>1, <2>2, <3>1, <3>2 DEF QuietOK
  <2> QED BY <1>10, <2>3, <2>4 DEF clearArtifacts, Cleared
<1>11. CASE DeleteFiles(p) \/ HardDeleteDocument(p)
  <2>1. UNCHANGED <<rem, stopped>>
    BY <1>11 DEF DeleteFiles, HardDeleteDocument
  <2> QED BY <1>2, <1>3, <1>4, <1>11, <2>1 DEF DeleteFiles, HardDeleteDocument
<1> QED BY <1>5, <1>6, <1>7, <1>8, <1>9, <1>10, <1>11 DEF Continue

LEMMA ScanQuiet ==
    ASSUME IInv, Awake, QuietOK, NEW s \in Scanners, Scan(s), ~Continue(s)
    PROVE  QuietOK' /\ (stopped /\ stopped' => shown' = shown)
<1> DEFINE x == proc[s]
<1>a. /\ s \in Procs /\ x \in ProcStates /\ AwakeOK(x) /\ ProcInv /\ proc \in [Procs -> ProcStates]
      /\ rem # None => rem \in Reminders
  BY ConstantFacts DEF IInv, ProcInv, QuietOK, TypeOK
<1>1. ASSUME NEW y, proc' = [proc EXCEPT ![s] = y], y.pc # "wake", y.rem # None => y.rem.status # "snoozed",
             UNCHANGED stopped, rem' # None => rem'.status # "snoozed", Off => Off'
      PROVE  QuietOK'
  <2>1. AwakeOK(y) /\ (stopped' => Off')
    BY <1>1 DEF AwakeOK, QuietOK
  <2> QED BY <1>1, <1>a, <2>1, QuietMoves
<1>2. ASSUME NEW y, proc' = [proc EXCEPT ![s] = y], y.pc # "wake", y.rem # None => y.rem.status # "snoozed",
             UNCHANGED <<stopped, rem>>
      PROVE  QuietOK'
  BY <1>1, <1>2 DEF QuietOK, Off
<1>3. ASSUME NEW pc, To(s, pc), pc # "wake", UNCHANGED <<stopped, rem>>
      PROVE  QuietOK'
  <2>1. PICK y : proc' = [proc EXCEPT ![s] = y] /\ y.pc = pc /\ y.rem = x.rem
    <3> DEFINE z == [x EXCEPT !.pc = pc]
    <3>1. proc' = [proc EXCEPT ![s] = z] /\ z.pc = pc /\ z.rem = x.rem
      BY <1>3, <1>a DEF To, ProcStates
    <3> QED BY <3>1
  <2> QED BY <1>2, <1>3, <1>a, <2>1 DEF AwakeOK
<1>4. ~Wake(s)
  BY <1>a DEF Wake, At, AwakeOK
<1>5. CASE ListDueReminders(s)
  <2>1. UNCHANGED <<stopped, rem, shown>>
    BY <1>5 DEF ListDueReminders, delivery
  <2>2. PICK pc \in {"inspect", "deliver", "bin"} : To(s, pc)
    BY <1>5 DEF ListDueReminders, Deliverable, QuietOK
  <2> QED BY <1>3, <2>1, <2>2
<1>6. CASE hasArchiveReturnRecord(s)
  <2>1. UNCHANGED <<stopped, rem, shown>>
    BY <1>6 DEF hasArchiveReturnRecord, delivery
  <2>2. PICK y : proc' = [proc EXCEPT ![s] = y] /\ y.pc = "deliver" /\ y.rem = x.rem
    <3> DEFINE z == [x EXCEPT !.returned = (doc # None /\ doc.returned), !.pc = "deliver"]
    <3>1. proc' = [proc EXCEPT ![s] = z] /\ z.pc = "deliver" /\ z.rem = x.rem
      BY <1>6, <1>a DEF hasArchiveReturnRecord, ProcStates
    <3> QED BY <3>1
  <2> QED BY <1>2, <1>a, <2>1, <2>2 DEF AwakeOK
<1>7. CASE DeliverReminder(s)
  <2>1. PICK y : proc' = [proc EXCEPT ![s] = y] /\ y.pc = "bin" /\ y.rem = None
    <3> DEFINE z == [Idle EXCEPT !.pc = "bin"]
    <3>1. proc' = [proc EXCEPT ![s] = z] /\ z.pc = "bin" /\ z.rem = None
      BY <1>7 DEF DeliverReminder, Idle
    <3> QED BY <3>1
  <2>2. CASE rem # None /\ rem.status \in {"active", "snoozed"}
    <3>1. rem' = [rem EXCEPT !.told = TRUE] /\ UNCHANGED stopped /\ rem \in Reminders
      BY <1>7, <1>a, <2>2 DEF DeliverReminder, Deliver, QuietOK
    <3>2. rem'.status = rem.status /\ rem' \in Reminders /\ ~Off
      BY <2>2, <3>1 DEF Reminders, Off
    <3>3. ~stopped
      BY <3>2 DEF QuietOK
    <3> QED BY <1>1, <2>1, <2>2, <3>1, <3>2, <3>3 DEF QuietOK
  <2>3. CASE ~(rem # None /\ rem.status \in {"active", "snoozed"})
    <3>1. UNCHANGED <<stopped, rem, shown>>
      BY <1>7, <2>3 DEF DeliverReminder, delivery
    <3> QED BY <1>2, <2>1, <3>1
  <2> QED BY <2>2, <2>3
<1>8. CASE ListTrashedDocuments(s)
  <2>1. UNCHANGED <<stopped, rem, shown>>
    BY <1>8 DEF ListTrashedDocuments, delivery
  <2>2. PICK y : proc' = [proc EXCEPT ![s] = y] /\ y.pc \in {"list", "idle"} /\ y.rem \in {x.rem, None}
    <3>1. CASE proc' = [proc EXCEPT ![s].doc = doc, ![s].pc = "list"]
      <4> DEFINE z == [x EXCEPT !.doc = doc, !.pc = "list"]
      <4>1. proc' = [proc EXCEPT ![s] = z] /\ z.pc = "list" /\ z.rem = x.rem
        BY <1>a, <3>1 DEF ProcStates
      <4> QED BY <4>1
    <3>2. CASE End(s)
      BY <3>2, IdleOK DEF End
    <3> QED BY <1>8, <3>1, <3>2 DEF ListTrashedDocuments
  <2> QED BY <1>2, <1>a, <2>1, <2>2 DEF AwakeOK
<1> QED BY <1>4, <1>5, <1>6, <1>7, <1>8 DEF Scan

LEMMA FaultQuiet ==
    ASSUME IInv, Awake, QuietOK, NEW p \in Procs, Refuse(p) \/ Crash(p)
    PROVE  QuietOK'
<1> DEFINE x == proc[p]
<1>a. /\ x \in ProcStates /\ AwakeOK(x) /\ ProcInv /\ proc \in [Procs -> ProcStates]
      /\ p \in Requests \/ p \in Scanners
  BY ConstantFacts DEF IInv, ProcInv, QuietOK, Procs
<1>b. UNCHANGED <<rem, stopped>>
  BY DEF Refuse, Crash
<1>1. PICK y : /\ proc' = [proc EXCEPT ![p] = y] /\ y.pc # "wake" /\ (y.pc = "artifacts" => y.failed)
               /\ y.rem # None => y.rem.status # "snoozed"
  <2>1. CASE End(p)
    <3> DEFINE z == [Idle EXCEPT !.pc = "done"]
    <3>1. z.pc = "done" /\ z.rem = None
      BY DEF Idle
    <3> QED BY <2>1, <3>1, IdleOK DEF End
  <2>2. ASSUME NEW pc \in {"rollback", "deliver", "hard"}, To(p, pc)
        PROVE  \E y : /\ proc' = [proc EXCEPT ![p] = y] /\ y.pc # "wake" /\ (y.pc = "artifacts" => y.failed)
                      /\ y.rem # None => y.rem.status # "snoozed"
    <3> DEFINE z == [x EXCEPT !.pc = pc]
    <3>1. proc' = [proc EXCEPT ![p] = z] /\ z.pc = pc /\ z.rem = x.rem
      BY <1>a, <2>2 DEF To, ProcStates
    <3> QED BY <1>a, <3>1 DEF AwakeOK
  <2>3. CASE proc' = [proc EXCEPT ![p].pc = "artifacts", ![p].rem = None, ![p].failed = TRUE]
    <3> DEFINE z == [x EXCEPT !.pc = "artifacts", !.rem = None, !.failed = TRUE]
    <3>1. proc' = [proc EXCEPT ![p] = z] /\ z.failed = TRUE /\ z.pc = "artifacts" /\ z.rem = None
      BY <1>a, <2>3 DEF ProcStates
    <3> QED BY <3>1
  <2>4. CASE proc' = [proc EXCEPT ![p] = [Idle EXCEPT !.pc = "bin"]]
    <3> DEFINE z == [Idle EXCEPT !.pc = "bin"]
    <3>1. proc' = [proc EXCEPT ![p] = z] /\ z.pc = "bin" /\ z.rem = None
      BY <2>4 DEF Idle
    <3> QED BY <3>1
  <2>5. \/ End(p) \/ \E pc \in {"rollback", "deliver", "hard"} : To(p, pc)
        \/ proc' = [proc EXCEPT ![p].pc = "artifacts", ![p].rem = None, ![p].failed = TRUE]
        \/ proc' = [proc EXCEPT ![p] = [Idle EXCEPT !.pc = "bin"]]
    BY DEF Refuse, Crash, KeepMirror
  <2> QED BY <2>1, <2>2, <2>3, <2>4, <2>5
<1>2. /\ AwakeOK(y) /\ (rem' # None => rem'.status # "snoozed") /\ (stopped' => Off') /\ (Off => Off')
      /\ ClearOK(y)'
  BY <1>b, <1>1 DEF AwakeOK, ClearOK, QuietOK, Off
<1>3. p \in Requests => Busy(p)
  BY DEF Refuse, Crash, Busy, At
<1>4. p \in Requests => \A q \in Requests \ {p} : ~Busy(q)
  BY <1>3 DEF QuietOK
<1> QED BY <1>1, <1>2, <1>4, <1>a, QuietMoves

LEMMA InitQuiet == Init => QuietInv
<1> SUFFICES ASSUME Init, Awake PROVE QuietOK
  BY DEF QuietInv
<1>1. ~stopped /\ rem.status # "snoozed"
  BY DEF Init, Awake
<1>2. \A p \in Procs : proc[p].pc = "idle" /\ proc[p].rem = None
  BY IdleOK DEF Init
<1>3. Requests \subseteq Procs
  BY ConstantFacts
<1> QED BY <1>1, <1>2, <1>3 DEF QuietOK, Busy, At, AwakeOK, ClearOK

\* The scene is chosen once.
LEMMA WorldStays == [Next]_vars => world' = world
<1> SUFFICES ASSUME [Next]_vars PROVE world' = world
  OBVIOUS
<1>1. ASSUME NEW r \in Requests, Ask(r) PROVE world' = world
  BY <1>1 DEF Ask, ArchiveDocument, UpdateDocument, DeleteDocument, permanentlyDeleteDocument,
     UpdateReminderStatus, DeleteReminder, DeleteNotification, Edit, Receive, clock
<1>2. ASSUME NEW p \in Procs, Continue(p) PROVE world' = world
  BY <1>2 DEF Continue, SaveDocument, SaveReminder, deleteManagedKnowledgeMirror,
     restoreManagedKnowledgeMirror, clearList, clearCancel, clearArtifacts, DeleteFiles,
     HardDeleteDocument, clock
<1>3. ASSUME NEW s \in Scanners, Scan(s) PROVE world' = world
  BY <1>2, <1>3, ConstantFacts DEF Scan, ListDueReminders, Wake, hasArchiveReturnRecord, DeliverReminder,
     ListTrashedDocuments, clock
<1>4. ASSUME NEW p \in Procs, Refuse(p) \/ Crash(p) PROVE world' = world
  BY <1>4 DEF Refuse, Crash, clock
<1> QED BY <1>1, <1>2, <1>3, <1>4, ConstantFacts DEF Next, Tick, vars

LEMMA StepQuiet ==
    ASSUME IInv, QuietInv, [Next]_vars, Awake
    PROVE  QuietOK' /\ (stopped /\ stopped' => shown' <= shown)
<1>a. QuietOK /\ shown \in Nat
  BY DEF QuietInv, IInv, TypeOK
<1>1. ASSUME NEW r \in Requests, Ask(r) PROVE QuietOK' /\ shown' <= shown
  <2>1. shown' \in {shown, 0} \/ (shown > 0 /\ shown' = shown - 1)
    BY <1>1 DEF Ask, ArchiveDocument, UpdateDocument, DeleteDocument, permanentlyDeleteDocument,
       UpdateReminderStatus, DeleteReminder, DeleteNotification, Edit, delivery, RemoveArtifacts
  <2> QED BY <1>1, <1>a, <2>1, AskQuiet
<1>2. ASSUME NEW p \in Procs, Continue(p) PROVE QuietOK' /\ shown' <= shown
  <2>1. shown' \in {shown, 0}
    BY <1>2 DEF Continue, SaveDocument, SaveReminder, deleteManagedKnowledgeMirror,
       restoreManagedKnowledgeMirror, clearList, clearCancel, clearArtifacts, DeleteFiles,
       HardDeleteDocument, delivery, RemoveArtifacts
  <2> QED BY <1>2, <1>a, <2>1, ContinueQuiet
<1>3. ASSUME NEW s \in Scanners, Scan(s), ~Continue(s) PROVE QuietOK' /\ (stopped /\ stopped' => shown' <= shown)
  BY <1>3, <1>a, ScanQuiet
<1>4. ASSUME NEW p \in Procs, Refuse(p) \/ Crash(p) PROVE QuietOK' /\ shown' <= shown
  <2>1. shown' = shown
    BY <1>4 DEF Refuse, Crash, delivery
  <2> QED BY <1>4, <1>a, <2>1, FaultQuiet
<1>5. CASE UNCHANGED <<rem, stopped, proc, shown>>
  BY <1>a, <1>5 DEF QuietOK, Busy, At, AwakeOK, ClearOK, Off
<1>6. CASE Tick \/ UNCHANGED vars
  BY <1>5, <1>6 DEF Tick, vars, delivery
<1>7. CASE Next
  BY <1>1, <1>2, <1>3, <1>4, <1>6, <1>7, ConstantFacts DEF Next
<1> QED BY <1>6, <1>7

\* Users who take turns: a reminder that was deleted, or whose document went
\* into the bin, is announced no more before it is activated again - by any
\* number of runners, through failed calls and restarts - as long as nobody
\* snoozes it and the tenant's list of reminders is short enough to show it.
\* (With a snooze, or a longer list, it is not so: a run shows how.)
THEOREM StoppedStaysQuiet ==
    Spec /\ "snooze" \notin world /\ "crowded" \notin world => StoppedIsQuiet
<1> DEFINE Plain == "snooze" \notin world /\ "crowded" \notin world
<1>1. Plain /\ [Next]_vars => Plain'
  BY WorldStays
<1>2. IInv /\ QuietInv /\ [Next]_vars => QuietInv'
  <2>1. [Next]_vars => (Awake' => Awake)
    BY WorldStays DEF Awake
  <2> QED BY <2>1, StepQuiet DEF QuietInv
<1>3. /\ IInv /\ QuietInv /\ Plain /\ [Next]_vars
      => [ "one" \in world /\ stopped /\ stopped' => shown' <= shown ]_vars
  BY StepQuiet DEF Awake
<1> QED BY InitIInv, Step, InitQuiet, <1>1, <1>2, <1>3, PTL DEF Spec, StoppedIsQuiet

=============================================================================
