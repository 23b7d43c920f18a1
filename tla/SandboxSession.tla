--------------------------- MODULE SandboxSession ---------------------------
(***************************************************************************)
(* One chat session and its remote sandbox: the lifecycle coordinator      *)
(* (internal/sandbox/session_lifecycle.go), the binding store              *)
(* (session_binding_redis.go), the pin of a session on a sandbox config    *)
(* (application/service/session_sandbox_pin.go) and the teardown that      *)
(* deletes a session (application/service/session.go).                     *)
(*                                                                         *)
(* A call is an execution in the session, or a deletion of the session.    *)
(* Each holds the session's lifecycle lock while it works; RedisLock is    *)
(* the model of that lock, here it is a holder that a stall can depose.    *)
(* A backend is a sandbox config: it has a provider and an account there,  *)
(* which other configs may share.  Sandboxes are numbered in the order of  *)
(* their creation.                                                         *)
(***************************************************************************)
EXTENDS Naturals, FiniteSets

CONSTANTS Calls,         \* requests that use or delete the session
          Backends,      \* sandbox configs of the workspace
          None,
          Layouts,       \* what configs share: a behaviour meets one of them
          MaxSandboxes,  \* bound: sandboxes ever created
          Environments   \* sets of faults: a behaviour meets one of them

FaultKinds == {"stall",    \* the lock's lease runs out under a working call
               "net",      \* a command to Redis, the database or the provider fails, executed or not
               "slow",     \* a creation that was given up is carried out later
               "cancel",   \* a caller goes away
               "crash",    \* the process of a call dies
               "refuse",   \* the workspace switch or a cordon refuses the manager of a teardown
               "restart",  \* the only process restarts and its in-memory bindings are gone
               "kill"}     \* the provider removes a sandbox

Sandboxes == 1 .. MaxSandboxes

ASSUME NoneAssumption == None \notin Sandboxes \union Backends \union Calls
ASSUME MaxAssumption == MaxSandboxes \in Nat
ASSUME LayoutsAssumption == \A h \in Layouts : DOMAIN h = Backends
ASSUME EnvironmentsAssumption == Environments \subseteq SUBSET FaultKinds

VARIABLES faults,     \* what may go wrong in this behaviour
          hosts,      \* provider and account of each backend
          session,    \* the session's row is there
          pin,        \* its sandbox_config_id
          binding,    \* the bound sandbox, or None
          made,       \* number of sandboxes created
          back,       \* backend of each sandbox
          alive,      \* sandboxes that exist and are not terminal
          pending,    \* creations given up and still under way, by backend
          holder,     \* call that holds the lifecycle lock, or None
          kind, pc,   \* what each call does, and where it is
          mgr,        \* backend of the manager it uses
          seen,       \* the binding it has read
          box,        \* the sandbox it has created, picked or connected to
          listed,     \* what List gave it and it has not dealt with
          cut,        \* calls whose request context is cancelled
          given,      \* sandboxes whose handle was given to a caller
          abandoned,  \* history: unbound while alive, by a manager of another backend
          late,       \* history: created after the teardown of a deletion that is not over
          entered     \* history: calls that took the lock when the row was there
store == <<session, pin, binding>>
cloud == <<made, back, alive, pending>>
calls == <<kind, mgr, cut>>
history == <<given, abandoned, late, entered>>
vars == <<faults, hosts, store, cloud, holder, pc, seen, box, listed, calls, history>>

\* Steps of a call under the lock, by what they ask for.
ReadSteps == {"read", "check", "connect", "list", "adopt", "winner", "connectWinner", "whoWon"}
BindSteps == {"bindOwned", "bindNew"}
UnbindSteps == {"unbind", "destroyUnbind"}
DeleteSteps == {"duplicates", "cleanup", "destroy"}
LockedSteps == ReadSteps \union BindSteps \union UnbindSteps \union DeleteSteps
                 \union {"create", "recheck", "return", "fail"}
Ended == {"done", "dead"}
PCs == {"idle", "pin", "lock", "clear", "row"} \union LockedSteps \union Ended

TypeOK ==
  /\ faults \in Environments
  /\ hosts \in Layouts
  /\ session \in BOOLEAN
  /\ pin \in Backends \union {None}
  /\ made \in 0 .. MaxSandboxes
  /\ binding \in (1 .. made) \union {None}
  /\ back \in [Sandboxes -> Backends \union {None}]
  /\ alive \subseteq 1 .. made
  /\ pending \subseteq Backends \union {None}
  /\ holder \in Calls \union {None}
  /\ kind \in [Calls -> {"execute", "delete"}]
  /\ pc \in [Calls -> PCs]
  /\ mgr \in [Calls -> Backends \union {None}]
  /\ seen \in [Calls -> (1 .. made) \union {None}]
  /\ box \in [Calls -> (1 .. made) \union {None}]
  /\ listed \in [Calls -> SUBSET (1 .. made)]
  /\ cut \subseteq Calls
  /\ given \subseteq 1 .. made
  /\ abandoned \subseteq 1 .. made
  /\ late \subseteq 1 .. made
  /\ entered \subseteq Calls

Init ==
  /\ faults \in Environments
  /\ hosts \in Layouts
  /\ session = TRUE /\ pin = None /\ binding = None
  /\ made = 0 /\ back = [s \in Sandboxes |-> None] /\ alive = {} /\ pending = {}
  /\ holder = None
  /\ kind = [c \in Calls |-> "execute"]
  /\ pc = [c \in Calls |-> "idle"]
  /\ mgr = [c \in Calls |-> None]
  /\ seen = [c \in Calls |-> None]
  /\ box = [c \in Calls |-> None]
  /\ listed = [c \in Calls |-> {}]
  /\ cut = {} /\ given = {} /\ abandoned = {} /\ late = {} /\ entered = {}

Goto(c, step) == pc' = [pc EXCEPT ![c] = step]
At(c, step) == pc[c] = step /\ c \notin cut
Keep(c) == UNCHANGED <<seen, box, listed>>

-----------------------------------------------------------------------------
(* Which backend: resolveSandboxForExecution and destroyBoundSandbox        *)

\* An execution of an agent whose config is b: a pinned session keeps its pin.
StartExecution(c, b) ==
  /\ pc[c] = "idle"
  /\ kind' = [kind EXCEPT ![c] = "execute"]
  /\ IF session /\ pin # None
       THEN mgr' = [mgr EXCEPT ![c] = pin] /\ Goto(c, "lock")
       ELSE mgr' = [mgr EXCEPT ![c] = b] /\ Goto(c, "pin")
  /\ Keep(c)
  /\ UNCHANGED <<faults, hosts, store, cloud, holder, cut, history>>

\* mutant: the pin is written whatever it holds
PinAlways(c) ==
  /\ At(c, "pin")
  /\ IF session
       THEN pin' = mgr[c] /\ Goto(c, "lock")
       ELSE UNCHANGED pin /\ Goto(c, "done")
  /\ UNCHANGED mgr
  /\ Keep(c)
  /\ UNCHANGED <<faults, hosts, session, binding, cloud, holder, kind, cut, history>>

\* The conditional update, then the read of the pin that was there first.
Pin(c) ==
  /\ At(c, "pin")
  /\ IF session
       THEN /\ pin' = IF pin = None THEN mgr[c] ELSE pin
            /\ mgr' = [mgr EXCEPT ![c] = pin']
            /\ Goto(c, "lock")
       ELSE UNCHANGED <<pin, mgr>> /\ Goto(c, "done")
  /\ Keep(c)
  /\ UNCHANGED <<faults, hosts, session, binding, cloud, holder, kind, cut, history>>

\* DeleteSession.  Without a pin the manager has no session to destroy; when
\* the pin cannot be read or the manager is refused the row goes all the same.
StartDeletion(c) ==
  /\ pc[c] = "idle" /\ session
  /\ kind' = [kind EXCEPT ![c] = "delete"]
  /\ \/ pin # None /\ mgr' = [mgr EXCEPT ![c] = pin] /\ Goto(c, "lock")
     \/ /\ pin = None \/ {"refuse", "net"} \intersect faults # {}
        /\ UNCHANGED mgr /\ Goto(c, "row")
  /\ Keep(c)
  /\ UNCHANGED <<faults, hosts, store, cloud, holder, cut, history>>

\* What follows the lifecycle: a deletion goes on whatever it returned.
After(c, ok) ==
  CASE kind[c] = "execute" -> "done"
    [] kind[c] = "delete" /\ ok -> "clear"
    [] OTHER -> "row"

Clear(c) ==
  /\ pc[c] = "clear"
  /\ \/ c \notin cut /\ pin' = IF session THEN None ELSE pin
     \/ ("net" \in faults \/ c \in cut) /\ UNCHANGED pin
  /\ Goto(c, "row")
  /\ Keep(c)
  /\ UNCHANGED <<faults, hosts, session, binding, cloud, holder, calls, history>>

\* The row goes; a deletion that finds none, or fails, returns an error.
DeleteRow(c) ==
  /\ pc[c] = "row"
  /\ \/ c \notin cut /\ session' = FALSE
     \/ ("net" \in faults \/ c \in cut) /\ UNCHANGED session
  /\ Goto(c, "done")
  /\ Keep(c)
  /\ UNCHANGED <<faults, hosts, pin, binding, cloud, holder, calls, history>>

-----------------------------------------------------------------------------
(* The lifecycle lock *)

\* mutant: the callback runs without the lock
LockShared(c) ==
  /\ At(c, "lock")
  /\ holder' = c
  /\ entered' = IF session THEN entered \union {c} ELSE entered
  /\ Goto(c, "read")
  /\ Keep(c)
  /\ UNCHANGED <<faults, hosts, store, cloud, calls, given, abandoned, late>>

Lock(c) ==
  /\ At(c, "lock") /\ holder = None
  /\ holder' = c
  /\ entered' = IF session THEN entered \union {c} ELSE entered
  /\ Goto(c, "read")
  /\ Keep(c)
  /\ UNCHANGED <<faults, hosts, store, cloud, calls, given, abandoned, late>>

\* A release that fails leaves the key to its lease.
Release(c) ==
  \/ holder' = IF holder = c THEN None ELSE holder
  \/ "net" \in faults /\ UNCHANGED holder

\* The callback has succeeded.  Its result stands if the lock is still its
\* own when it is released; the loss of the lock is an error of the call.
Return(c) ==
  /\ pc[c] = "return"
  /\ \/ /\ holder = c /\ holder' = None
        /\ given' = IF kind[c] = "execute" THEN given \union {box[c]} ELSE given
        /\ Goto(c, After(c, TRUE))
     \/ /\ holder # c \/ "net" \in faults
        /\ Release(c)
        /\ UNCHANGED given
        /\ Goto(c, After(c, FALSE))
  /\ Keep(c)
  /\ UNCHANGED <<faults, hosts, store, cloud, calls, abandoned, late, entered>>

Fail(c) ==
  /\ pc[c] = "fail"
  /\ Release(c)
  /\ Goto(c, After(c, FALSE))
  /\ Keep(c)
  /\ UNCHANGED <<faults, hosts, store, cloud, calls, history>>

\* The lease of a working call runs out.
LoseLock(c) ==
  /\ "stall" \in faults
  /\ holder = c /\ pc[c] \in LockedSteps
  /\ holder' = None
  /\ UNCHANGED <<faults, hosts, store, cloud, pc, seen, box, listed, calls, history>>

\* The renewal has noticed: both contexts are cancelled, nothing can follow.
NoticeLoss(c) ==
  /\ pc[c] \in LockedSteps /\ holder # c
  /\ Goto(c, After(c, FALSE))
  /\ Keep(c)
  /\ UNCHANGED <<faults, hosts, store, cloud, holder, calls, history>>

\* The key of a dead process, or one that was not released, goes with its lease.
ExpireLock ==
  /\ holder # None /\ pc[holder] \notin LockedSteps
  /\ holder' = None
  /\ UNCHANGED <<faults, hosts, store, cloud, pc, seen, box, listed, calls, history>>

-----------------------------------------------------------------------------
(* The coordinator: what Resolve and Destroy do under the lock             *)

Rest == <<faults, hosts, session, pin, holder, calls, given, entered>>
UnchangedCloud == UNCHANGED <<cloud, late>>
UnchangedBinding == UNCHANGED <<binding, abandoned>>
Read(c) == UnchangedCloud /\ UnchangedBinding /\ UNCHANGED <<Rest, listed>>

\* A binding names the provider, not the config: the lifecycle takes the
\* sandbox of another config for its own, and the provider finds it if the
\* account is the same.
SameProvider(c, s) == hosts[back[s]].provider = hosts[mgr[c]].provider
Reachable(c, s) == hosts[back[s]] = hosts[mgr[c]]

\* destroyBindingLocked deletes a sandbox of its own provider first.
Teardown(c, s) == IF SameProvider(c, s) THEN "destroy" ELSE "destroyUnbind"

ReadBinding(c) ==
  /\ At(c, "read")
  /\ seen' = [seen EXCEPT ![c] = binding]
  /\ Goto(c, CASE kind[c] = "execute" -> "check"
               [] kind[c] = "delete" /\ binding = None -> "return"
               [] OTHER -> Teardown(c, binding))
  /\ UNCHANGED box /\ Read(c)

CheckSession(c) ==
  /\ At(c, "check")
  /\ Goto(c, CASE ~session -> IF seen[c] = None THEN "fail" ELSE Teardown(c, seen[c])
               [] session /\ seen[c] = None -> "list"
               [] session /\ seen[c] # None /\ ~SameProvider(c, seen[c]) -> "unbind"
               [] OTHER -> "connect")
  /\ UNCHANGED <<seen, box>> /\ Read(c)

\* connectBinding: the handle, or the provider's word that there is none.
Found(c) == seen[c] \in alive /\ Reachable(c, seen[c])

Connect(c) ==
  /\ At(c, "connect")
  /\ IF Found(c)
       THEN box' = [box EXCEPT ![c] = seen[c]] /\ Goto(c, "return")
       ELSE UNCHANGED box /\ Goto(c, "unbind")
  /\ UNCHANGED seen /\ Read(c)

\* DeleteIfMatch
Drop(c) ==
  IF binding = seen[c]
    THEN /\ binding' = None
         /\ abandoned' = abandoned \union {s \in {seen[c]} \intersect alive : back[s] # mgr[c]}
    ELSE UnchangedBinding

Unbind(c) ==
  /\ At(c, "unbind")
  /\ Drop(c)
  /\ IF binding = seen[c]
       THEN seen' = [seen EXCEPT ![c] = None] /\ Goto(c, "list")
       ELSE UNCHANGED seen /\ Goto(c, "fail")
  /\ UnchangedCloud
  /\ UNCHANGED <<Rest, box, listed>>

\* What is not found counts as deleted.
Deleted(c) == IF Found(c) THEN alive \ {seen[c]} ELSE alive

Destroy(c) ==
  /\ At(c, "destroy")
  /\ alive' = Deleted(c)
  /\ Goto(c, "destroyUnbind")
  /\ UnchangedBinding
  /\ UNCHANGED <<Rest, made, back, pending, late, seen, box, listed>>

\* A binding that is already gone is as good as deleted.
DestroyUnbind(c) ==
  /\ At(c, "destroyUnbind")
  /\ Drop(c)
  /\ Goto(c, IF kind[c] = "delete" /\ binding \in {seen[c], None} THEN "return" ELSE "fail")
  /\ UnchangedCloud
  /\ UNCHANGED <<Rest, seen, box, listed>>

\* recoverOwnedSandbox: what the metadata of the provider's sandboxes says.
Owned(c) == {s \in alive : back[s] = mgr[c]}

\* mutant: an unbound session always gets a new sandbox
SkipRecovery(c) ==
  /\ At(c, "list")
  /\ listed' = [listed EXCEPT ![c] = {}]
  /\ Goto(c, "create")
  /\ UnchangedCloud /\ UnchangedBinding
  /\ UNCHANGED <<Rest, seen, box>>

List(c) ==
  /\ At(c, "list")
  /\ listed' = [listed EXCEPT ![c] = Owned(c)]
  /\ Goto(c, IF Owned(c) = {} THEN "create" ELSE "adopt")
  /\ UnchangedCloud /\ UnchangedBinding
  /\ UNCHANGED <<Rest, seen, box>>

Oldest(c, s) == s \in listed[c] /\ \A t \in listed[c] : s <= t

\* The oldest sandbox that can be connected to is kept.
Adopt(c) ==
  /\ At(c, "adopt")
  /\ \E s \in listed[c] :
       /\ Oldest(c, s)
       /\ listed' = [listed EXCEPT ![c] = @ \ {s}]
       /\ IF s \in alive
            THEN /\ box' = [box EXCEPT ![c] = s]
                 /\ Goto(c, IF listed[c] = {s} THEN "bindOwned" ELSE "duplicates")
            ELSE /\ UNCHANGED box
                 /\ Goto(c, IF listed[c] = {s} THEN "create" ELSE "adopt")
  /\ UnchangedCloud /\ UnchangedBinding
  /\ UNCHANGED <<Rest, seen>>

\* cleanupOwnedDuplicates, whatever becomes of the request.
Duplicates(c) ==
  /\ pc[c] = "duplicates"
  /\ \E s \in listed[c] :
       /\ Oldest(c, s)
       /\ alive' = alive \ {s}
       /\ listed' = [listed EXCEPT ![c] = @ \ {s}]
       /\ Goto(c, IF listed[c] = {s} THEN "bindOwned" ELSE "duplicates")
  /\ UnchangedBinding
  /\ UNCHANGED <<Rest, made, back, pending, late, seen, box>>

\* SET NX
Bind(c) ==
  IF binding = None
    THEN binding' = box[c] /\ abandoned' = abandoned \ {box[c]}
    ELSE UnchangedBinding

BindSandbox(c) ==
  /\ pc[c] \in BindSteps /\ c \notin cut
  /\ Bind(c)
  /\ Goto(c, CASE binding' = box[c] /\ binding = None -> "return"
               [] pc[c] = "bindOwned" /\ binding # None -> "winner"
               [] OTHER -> "whoWon")
  /\ UnchangedCloud
  /\ UNCHANGED <<Rest, seen, box, listed>>

\* connectWinner: the binding that was there first, if this manager can use it.
Winner(c) ==
  /\ At(c, "winner")
  /\ seen' = [seen EXCEPT ![c] = binding]
  /\ Goto(c, IF binding # None /\ SameProvider(c, binding) THEN "connectWinner" ELSE "fail")
  /\ UNCHANGED box /\ Read(c)

ConnectWinner(c) ==
  /\ At(c, "connectWinner")
  /\ IF Found(c)
       THEN box' = [box EXCEPT ![c] = seen[c]] /\ Goto(c, "return")
       ELSE UNCHANGED box /\ Goto(c, "fail")
  /\ UNCHANGED seen /\ Read(c)

Deleting == {c \in Calls : kind[c] = "delete" /\ pc[c] \in {"clear", "row", "return", "fail"}}

Created(b) ==
  /\ made < MaxSandboxes
  /\ made' = made + 1
  /\ back' = [back EXCEPT ![made + 1] = b]
  /\ alive' = alive \union {made + 1}
  /\ late' = IF Deleting = {} THEN late ELSE late \union {made + 1}

\* createAndBind.  The provider refuses more sandboxes than the bound.
Create(c) ==
  /\ At(c, "create")
  /\ IF made < MaxSandboxes
       THEN /\ Created(mgr[c])
            /\ box' = [box EXCEPT ![c] = made + 1]
            /\ Goto(c, "recheck")
            /\ UNCHANGED pending
       ELSE UnchangedCloud /\ UNCHANGED box /\ Goto(c, "fail")
  /\ UnchangedBinding
  /\ UNCHANGED <<Rest, seen, listed>>

Recheck(c) ==
  /\ At(c, "recheck")
  /\ Goto(c, IF session THEN "bindNew" ELSE "cleanup")
  /\ UNCHANGED <<seen, box>> /\ Read(c)

\* The loser's own sandbox goes; if the winner is not known, it may be his.
WhoWon(c) ==
  /\ At(c, "whoWon")
  /\ seen' = [seen EXCEPT ![c] = binding]
  /\ Goto(c, IF binding = box[c] THEN "return" ELSE "cleanup")
  /\ UNCHANGED box /\ Read(c)

\* mutant: the loser leaves its sandbox to the provider
SkipCleanup(c) ==
  /\ pc[c] = "cleanup"
  /\ Goto(c, "fail")
  /\ UNCHANGED <<seen, box>> /\ Read(c)

Cleanup(c) ==
  /\ pc[c] = "cleanup"
  /\ alive' = alive \ {box[c]}
  /\ Goto(c, IF seen[c] # None /\ SameProvider(c, seen[c]) THEN "connectWinner" ELSE "fail")
  /\ UnchangedBinding
  /\ UNCHANGED <<Rest, made, back, pending, late, seen, box, listed>>

-----------------------------------------------------------------------------
(* Failures: a command returns an error, executed or not                   *)

\* A command under the request's context.
CanFail(c) == c \in cut \/ "net" \in faults

\* mutant: an error of the provider is taken for a sandbox that is gone
DeleteErrorIgnored(c) ==
  /\ pc[c] = "destroy"
  /\ alive' \in {alive, Deleted(c)}
  /\ Goto(c, "destroyUnbind")
  /\ UnchangedBinding
  /\ UNCHANGED <<Rest, made, back, pending, late, seen, box, listed>>

DestroyFails(c) ==
  /\ pc[c] = "destroy"
  /\ alive' \in {alive, Deleted(c)}
  /\ Goto(c, "fail")
  /\ UnchangedBinding
  /\ UNCHANGED <<Rest, made, back, pending, late, seen, box, listed>>

ReadFails(c) ==
  /\ pc[c] \in ReadSteps \union {"recheck"}
  /\ Goto(c, IF pc[c] = "recheck" THEN "cleanup" ELSE "fail")
  /\ UNCHANGED <<seen, box>> /\ Read(c)

UnbindFails(c) ==
  /\ pc[c] \in UnbindSteps
  /\ Drop(c) \/ UnchangedBinding
  /\ Goto(c, "fail")
  /\ UnchangedCloud
  /\ UNCHANGED <<Rest, seen, box, listed>>

BindFails(c) ==
  /\ pc[c] \in BindSteps
  /\ Bind(c) \/ UnchangedBinding
  /\ Goto(c, IF pc[c] = "bindNew" THEN "cleanup" ELSE "fail")
  /\ UnchangedCloud
  /\ UNCHANGED <<Rest, seen, box, listed>>

\* The answer with the sandbox's id is lost, or never comes.
CreateFails(c) ==
  /\ pc[c] = "create"
  /\ \/ UnchangedCloud
     \/ Created(mgr[c]) /\ UNCHANGED pending
     \/ /\ "slow" \in faults
        /\ pending' = pending \union {mgr[c]}
        /\ UNCHANGED <<made, back, alive, late>>
  /\ Goto(c, "fail")
  /\ UnchangedBinding
  /\ UNCHANGED <<Rest, seen, box, listed>>

CreatedLate ==
  \E b \in pending :
    /\ Created(b)
    /\ pending' = pending \ {b}
    /\ UnchangedBinding
    /\ UNCHANGED <<Rest, pc, seen, box, listed>>

\* Clean-up runs under the ownership context: no cancellation reaches it.
CleanupFails(c) ==
  /\ "net" \in faults
  /\ \/ pc[c] = "cleanup" /\ alive' \in {alive, alive \ {box[c]}}
     \/ /\ pc[c] = "duplicates"
        /\ \E s \in listed[c] : Oldest(c, s) /\ alive' \in {alive, alive \ {s}}
  /\ Goto(c, "fail")
  /\ UnchangedBinding
  /\ UNCHANGED <<Rest, made, back, pending, late, seen, box, listed>>

OutsideFails(c) ==
  /\ CanFail(c)
  /\ \/ pc[c] = "pin" /\ Goto(c, "done")
        /\ pin' \in IF session /\ pin = None THEN {None, mgr[c]} ELSE {pin}
     \/ pc[c] = "lock" /\ Goto(c, After(c, FALSE)) /\ UNCHANGED pin
  /\ Keep(c)
  /\ UNCHANGED <<faults, hosts, session, binding, cloud, holder, calls, history>>

StepFails(c) ==
  /\ CanFail(c)
  /\ DestroyFails(c) \/ ReadFails(c) \/ UnbindFails(c) \/ BindFails(c) \/ CreateFails(c)

Cancel(c) ==
  /\ "cancel" \in faults
  /\ pc[c] \notin Ended \union {"idle"} /\ c \notin cut
  /\ cut' = cut \union {c}
  /\ UNCHANGED <<faults, hosts, store, cloud, holder, pc, seen, box, listed, kind, mgr, history>>

Crash(c) ==
  /\ "crash" \in faults
  /\ pc[c] \notin Ended \union {"idle"}
  /\ Goto(c, "dead")
  /\ Keep(c)
  /\ UNCHANGED <<faults, hosts, store, cloud, holder, calls, history>>

\* One process with the in-memory store: locks, bindings and handles go.
Restart ==
  /\ "restart" \in faults
  /\ \E c \in Calls : pc[c] # "idle"
  /\ pc' = [c \in Calls |-> IF pc[c] = "idle" THEN "idle" ELSE "dead"]
  /\ binding' = None /\ holder' = None /\ given' = {}
  /\ UNCHANGED <<seen, box, listed>>
  /\ UNCHANGED <<faults, hosts, session, pin, cloud, calls, abandoned, late, entered>>

Kill(s) ==
  /\ "kill" \in faults
  /\ s \in alive
  /\ alive' = alive \ {s}
  /\ UnchangedBinding
  /\ UNCHANGED <<Rest, made, back, pending, late, pc, seen, box, listed>>

-----------------------------------------------------------------------------

LockedStep(c) ==
  \/ ReadBinding(c) \/ CheckSession(c) \/ Connect(c) \/ Unbind(c)
  \/ Destroy(c) \/ DestroyUnbind(c)
  \/ List(c) \/ Adopt(c) \/ Duplicates(c)
  \/ BindSandbox(c) \/ Winner(c) \/ ConnectWinner(c)
  \/ Create(c) \/ Recheck(c) \/ WhoWon(c) \/ Cleanup(c)
OutsideStep(c) ==
  \/ \E b \in Backends : StartExecution(c, b)
  \/ Pin(c) \/ StartDeletion(c) \/ Clear(c) \/ DeleteRow(c)
  \/ Lock(c) \/ Return(c) \/ Fail(c)
FaultStep(c) ==
  \/ LoseLock(c) \/ NoticeLoss(c)
  \/ StepFails(c) \/ CleanupFails(c) \/ OutsideFails(c) \/ Cancel(c) \/ Crash(c)

Next ==
  \/ \E c \in Calls : LockedStep(c) \/ OutsideStep(c) \/ FaultStep(c)
  \/ ExpireLock \/ CreatedLate \/ Restart
  \/ \E s \in Sandboxes : Kill(s)

Spec == Init /\ [][Next]_vars

-----------------------------------------------------------------------------
(* Properties *)

\* A sandbox whose handle was given to a caller, and that lives, is the bound
\* one: whatever stalls, fails, comes late or dies, two callers of a session
\* never work in two live sandboxes.  Only a manager of another backend drops
\* the binding of a live sandbox.
BoundOrGone(s) == s \in alive \ abandoned => binding = s
LiveHandlesAreBound == \A s \in given : BoundOrGone(s)

\* While no lease runs out under a working call, no call deletes a sandbox
\* that another one was given, except the teardown of the session.
UsedSandboxesSurvive ==
  [][\A s \in given \ abandoned :
       ("stall" \notin faults /\ s \in alive /\ s \notin alive') =>
         \/ "kill" \in faults
         \/ \E c \in Calls : /\ pc[c] = "destroy" /\ seen[c] = s
                             /\ kind[c] = "delete" \/ ~session]_vars

\* "Two processes concurrently servicing the same session never allocate
\* duplicate sandboxes, and a restart never loses the session's remote
\* resource": a backend never has two, if the lock holds and no creation that
\* was given up is carried out later.
AtMostOnePerBackend ==
  {"stall", "slow"} \intersect faults = {} =>
    \A s, t \in alive : back[s] = back[t] => s = t

\* Without failures, what lives when nobody works is bound; and a deleted
\* session leaves only what was created after its teardown, or what a manager
\* of another backend let go.
NothingLeftBehind ==
  (faults \subseteq {"kill", "refuse"} /\ \A c \in Calls : pc[c] \in {"idle", "done"}) =>
    /\ alive \subseteq {binding} \union abandoned
    /\ (~session /\ "refuse" \notin faults) => alive \subseteq late \union abandoned

\* Until a deletion begins every execution uses the pinned backend: agents
\* with other configs do not part the session from its sandbox.
PinNamesTheBackend ==
  (\A c \in Calls : kind[c] = "execute") =>
    /\ abandoned = {}
    /\ binding # None => pin = back[binding]

\* A call that takes the lock after the session was deleted gets no sandbox.
DeletedSessionsGetNothing ==
  \A c \in Calls : (pc[c] = "return" /\ kind[c] = "execute") => c \in entered

=============================================================================
