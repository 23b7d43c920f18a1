----------------------------- MODULE RedisLock -----------------------------
(***************************************************************************)
(* internal/common/redislock: a Redis lock owned by a random token.        *)
(* WithRenewableLock takes the lock, runs a callback while a goroutine     *)
(* renews the lease, and gives the lock back.  It serialises the sandbox   *)
(* lifecycle across processes (internal/sandbox/session_binding_redis.go). *)
(*                                                                         *)
(* A call of WithRenewableLock is its own token: a call runs once, and its *)
(* commands may reach Redis after it has given up on them.  Time is        *)
(* counted in ticks; Lease and RenewInterval are numbers of ticks.         *)
(***************************************************************************)
EXTENDS Naturals, FiniteSets

CONSTANTS Calls,          \* the calls of WithRenewableLock for one key
          Nobody,         \* the key is absent
          Lease,          \* ticks a SET or PEXPIRE gives the key
          RenewInterval,  \* ticks between two ticks of the renewal ticker
          Slack,          \* ticks a command or a goroutine may be late when nothing stalls
          Environments    \* sets of faults: a behaviour meets one of them

FaultKinds == {"stall",   \* a process, the network or Redis pauses for any time
               "net",     \* a command fails with an error, executed or not
               "retry",   \* an answer is lost and the client library sends again
               "crash",   \* the process of a call dies
               "cancel"}  \* the caller's context ends

ASSUME NobodyAssumption == Nobody \notin Calls
ASSUME EnvironmentsAssumption == Environments \subseteq SUBSET FaultKinds
\* The code checks 0 < RenewInterval < Lease; the callers use 20 s and 60 s.
ASSUME TimesAssumption ==
  /\ Lease \in Nat /\ RenewInterval \in Nat \ {0} /\ Slack \in Nat
  /\ RenewInterval < Lease
\* What "nothing stalls" means: a renewal that is late and the release after
\* it still find the lease running.
ASSUME SlackAssumption ==
  (\E e \in Environments : "stall" \notin e) =>
    Slack < RenewInterval /\ RenewInterval + 3 * Slack < Lease

VARIABLES faults,   \* what may go wrong in this behaviour
          key,      \* the token stored under the key, or Nobody
          left,     \* ticks until the key expires
          wire,     \* commands sent to Redis and not executed, <<command, call>>
          reply,    \* the answer a call has not read yet
          pc,       \* where each call is
          renewer,  \* its renewal goroutine
          clock,    \* running: phase of the ticker; else: ticks spent on the step under way
          ticked,   \* the ticker's channel, of capacity one, is full
          lost,     \* calls whose ownership context is cancelled
          ended,    \* calls whose caller's context is done
          errs,     \* what each call's result joins
          met       \* history: the sets of two calls whose callbacks ran at once
vars == <<faults, key, left, wire, reply, pc, renewer, clock, ticked, lost, ended, errs, met>>
server == <<key, left, wire>>
results == <<lost, ended, errs, met>>

Commands == {"set", "renew", "release"}
PCs == {"idle", "acquire", "backoff", "run", "stop", "release", "done", "crashed"}

TypeOK ==
  /\ faults \in Environments
  /\ key \in Calls \union {Nobody}
  /\ left \in 0 .. Lease
  /\ wire \subseteq Commands \X Calls
  /\ reply \in [Calls -> {"none", "yes", "no"}]
  /\ pc \in [Calls -> PCs]
  /\ renewer \in [Calls -> {"off", "armed", "sent"}]
  /\ clock \in [Calls -> 0 .. RenewInterval]
  /\ ticked \subseteq Calls
  /\ lost \subseteq Calls
  /\ ended \subseteq Calls
  /\ errs \in [Calls -> SUBSET {"lost", "ctx", "net"}]
  /\ met \subseteq SUBSET Calls

Init ==
  /\ faults \in Environments
  /\ key = Nobody /\ left = 0
  /\ wire = {}
  /\ reply = [c \in Calls |-> "none"]
  /\ pc = [c \in Calls |-> "idle"]
  /\ renewer = [c \in Calls |-> "off"]
  /\ clock = [c \in Calls |-> 0]
  /\ ticked = {} /\ lost = {} /\ ended = {}
  /\ errs = [c \in Calls |-> {}]
  /\ met = {}

-----------------------------------------------------------------------------
(* Redis: a command is executed at once, whenever it arrives.              *)

\* The call still waits for the answer to this command.
Awaits(c, command) ==
  CASE command = "set" -> pc[c] = "acquire"
    [] command = "renew" -> renewer[c] = "sent"
    [] command = "release" -> pc[c] = "release"

Answer(c, command, ok) ==
  /\ <<command, c>> \in wire
  /\ wire' = wire \ {<<command, c>>}
  /\ reply' = IF Awaits(c, command)
                THEN [reply EXCEPT ![c] = IF ok THEN "yes" ELSE "no"]
                ELSE reply

\* mutant: the lock is taken with a plain SET
SetAlways(c) == Answer(c, "set", TRUE) /\ key' = c /\ left' = Lease

\* SET key token NX PX lease.
SetNX(c) ==
  /\ Answer(c, "set", key = Nobody)
  /\ IF key = Nobody
       THEN key' = c /\ left' = Lease
       ELSE UNCHANGED <<key, left>>

\* The two scripts compare the token before they touch the key.
renewScript(c) ==
  /\ Answer(c, "renew", key = c)
  /\ left' = IF key = c THEN Lease ELSE left
  /\ UNCHANGED key

\* mutant: DEL without the comparison
releaseAnyone(c) ==
  Answer(c, "release", key # Nobody) /\ key' = Nobody /\ left' = 0

releaseScript(c) ==
  /\ Answer(c, "release", key = c)
  /\ IF key = c
       THEN key' = Nobody /\ left' = 0
       ELSE UNCHANGED <<key, left>>

Serve(c) ==
  /\ SetNX(c) \/ renewScript(c) \/ releaseScript(c)
  /\ UNCHANGED <<pc, renewer, clock, ticked, results, faults>>

-----------------------------------------------------------------------------
(* The call *)

Send(c, command) ==
  /\ wire' = wire \union {<<command, c>>}
  /\ reply' = [reply EXCEPT ![c] = "none"]

\* A client that gives up on a command does not take it back: it may have
\* been executed, be executed later, or be lost.
GiveUp(c, command) ==
  /\ wire' \in {wire, wire \ {<<command, c>>}}
  /\ reply' = [reply EXCEPT ![c] = "none"]

ReadReply(c, answer) ==
  /\ reply[c] = answer
  /\ reply' = [reply EXCEPT ![c] = "none"]
  /\ UNCHANGED server

Fails(c, kinds) == errs' = [errs EXCEPT ![c] = @ \union kinds]

\* Acquire: the first attempt and each one after a pause.
TryAcquire(c) ==
  /\ pc[c] \in {"idle", "backoff"}
  /\ pc' = [pc EXCEPT ![c] = "acquire"]
  /\ clock' = [clock EXCEPT ![c] = 0]
  /\ Send(c, "set")
  /\ UNCHANGED <<key, left, renewer, ticked, results, faults>>

Busy(c) ==
  /\ pc[c] = "acquire"
  /\ ReadReply(c, "no")
  /\ pc' = [pc EXCEPT ![c] = "backoff"]
  /\ UNCHANGED <<renewer, clock, ticked, results, faults>>

Running == {c \in Calls : pc[c] = "run"}

\* The lock is taken: the renewal goroutine starts and the callback runs.
Acquired(c) ==
  /\ pc[c] = "acquire"
  /\ ReadReply(c, "yes")
  /\ pc' = [pc EXCEPT ![c] = "run"]
  /\ renewer' = [renewer EXCEPT ![c] = "armed"]
  /\ clock' = [clock EXCEPT ![c] = 0]
  /\ met' = met \union {{c, d} : d \in Running}
  /\ UNCHANGED <<ticked, lost, ended, errs, faults>>

\* The wait ends with the caller's context, or the attempt with an error.
CancelWait(c) ==
  /\ c \in ended
  /\ pc[c] \in {"acquire", "backoff"}
  /\ GiveUp(c, "set")
  /\ pc' = [pc EXCEPT ![c] = "done"]
  /\ Fails(c, {"ctx"})
  /\ UNCHANGED <<key, left, renewer, clock, ticked, lost, ended, met, faults>>

AcquireError(c) ==
  /\ "net" \in faults
  /\ pc[c] = "acquire"
  /\ GiveUp(c, "set")
  /\ pc' = [pc EXCEPT ![c] = "done"]
  /\ Fails(c, {"net"})
  /\ UNCHANGED <<key, left, renewer, clock, ticked, lost, ended, met, faults>>

\* The callback returns, for whatever reason, and the renewal is told to stop.
FnReturns(c) ==
  /\ pc[c] = "run"
  /\ pc' = [pc EXCEPT ![c] = "stop"]
  /\ clock' = [clock EXCEPT ![c] = 0]
  /\ UNCHANGED <<server, reply, renewer, ticked, results, faults>>

\* The deferred function has the renewal's result and releases the lock.
Release(c) ==
  /\ pc[c] = "stop" /\ renewer[c] = "off"
  /\ pc' = [pc EXCEPT ![c] = "release"]
  /\ Send(c, "release")
  /\ UNCHANGED <<key, left, renewer, clock, ticked, results, faults>>

Outcome(c) ==
  (IF c \in lost THEN {"lost"} ELSE {}) \union (IF c \in ended THEN {"ctx"} ELSE {})

\* mutant: the number of deleted keys is not looked at
TrustRelease(c, released) == Outcome(c)

\* Nothing was released and the renewal did not say so: the lock was lost.
ReleaseOutcome(c, released) ==
  IF released THEN Outcome(c) ELSE Outcome(c) \union {"lost"}

Released(c) ==
  /\ pc[c] = "release"
  /\ \E answer \in {"yes", "no"} :
       /\ ReadReply(c, answer)
       /\ Fails(c, ReleaseOutcome(c, answer = "yes"))
  /\ pc' = [pc EXCEPT ![c] = "done"]
  /\ UNCHANGED <<renewer, clock, ticked, lost, ended, met, faults>>

ReleaseError(c) ==
  /\ "net" \in faults
  /\ pc[c] = "release"
  /\ GiveUp(c, "release")
  /\ Fails(c, Outcome(c) \union {"net"})
  /\ pc' = [pc EXCEPT ![c] = "done"]
  /\ UNCHANGED <<key, left, renewer, clock, ticked, lost, ended, met, faults>>

-----------------------------------------------------------------------------
(* The renewal goroutine *)

RenewTick(c) ==
  /\ pc[c] = "run"
  /\ renewer[c] = "armed" /\ c \in ticked
  /\ renewer' = [renewer EXCEPT ![c] = "sent"]
  /\ ticked' = ticked \ {c}
  /\ Send(c, "renew")
  /\ UNCHANGED <<key, left, pc, clock, results, faults>>

Renewed(c) ==
  /\ renewer[c] = "sent"
  /\ ReadReply(c, "yes")
  /\ renewer' = [renewer EXCEPT ![c] = "armed"]
  /\ UNCHANGED <<pc, clock, ticked, results, faults>>

\* The goroutine is over; what it leaves in the ticker's channel is dropped.
StopTicker(c) ==
  /\ renewer' = [renewer EXCEPT ![c] = "off"]
  /\ ticked' = ticked \ {c}

\* mutant: an answer of 0 is taken for a renewal
IgnoreNotRenewed(c) ==
  /\ renewer[c] = "sent"
  /\ ReadReply(c, "no")
  /\ renewer' = [renewer EXCEPT ![c] = "armed"]
  /\ UNCHANGED <<pc, clock, ticked, results, faults>>

\* The key is another's or nobody's: the contexts are cancelled.
NotRenewed(c) ==
  /\ renewer[c] = "sent"
  /\ ReadReply(c, "no")
  /\ StopTicker(c)
  /\ lost' = lost \union {c}
  /\ UNCHANGED <<pc, clock, ended, errs, met, faults>>

RenewError(c) ==
  /\ "net" \in faults
  /\ renewer[c] = "sent"
  /\ GiveUp(c, "renew")
  /\ StopTicker(c)
  /\ lost' = lost \union {c}
  /\ UNCHANGED <<key, left, pc, clock, ended, errs, met, faults>>

\* mutant: the goroutine's own cancellation is taken for a failed renewal
StopRenewalFails(c) ==
  /\ pc[c] = "stop"
  /\ renewer[c] \in {"armed", "sent"}
  /\ GiveUp(c, "renew")
  /\ StopTicker(c)
  /\ lost' = IF renewer[c] = "sent" THEN lost \union {c} ELSE lost
  /\ UNCHANGED <<key, left, pc, clock, ended, errs, met, faults>>

\* stopRenewal: a renewal under way is given up, which is no error.
StopRenewal(c) ==
  /\ pc[c] = "stop"
  /\ renewer[c] \in {"armed", "sent"}
  /\ GiveUp(c, "renew")
  /\ StopTicker(c)
  /\ UNCHANGED <<key, left, pc, clock, results, faults>>

-----------------------------------------------------------------------------
(* Surroundings *)

\* The caller's context ends while the call is under way.
Cancel(c) ==
  /\ "cancel" \in faults
  /\ pc[c] \notin {"done", "crashed"} /\ c \notin ended
  /\ ended' = ended \union {c}
  /\ UNCHANGED <<server, reply, pc, renewer, clock, ticked, lost, errs, met, faults>>

\* The answer is lost and go-redis sends the command again.
Resend(c, command) ==
  /\ "retry" \in faults
  /\ Awaits(c, command) /\ reply[c] # "none"
  /\ Send(c, command)
  /\ UNCHANGED <<key, left, pc, renewer, clock, ticked, results, faults>>

Crash(c) ==
  /\ "crash" \in faults
  /\ pc[c] \notin {"idle", "done", "crashed"}
  /\ pc' = [pc EXCEPT ![c] = "crashed"]
  /\ reply' = [reply EXCEPT ![c] = "none"]
  /\ StopTicker(c)
  /\ UNCHANGED <<server, clock, results, faults>>

\* Without stalls nothing that is due waits for more than Slack ticks.
Waiting(c) == pc[c] \in {"acquire", "stop", "release"}
Due(c) == Waiting(c) \/ renewer[c] = "sent" \/ c \in ticked
InTime == "stall" \in faults \/ \A c \in Calls : Due(c) => clock[c] < Slack

Fires(c) == c \in Running /\ renewer[c] # "off" /\ clock[c] + 1 = RenewInterval
Counts(c) ==
  \/ c \in Running /\ renewer[c] # "off"
  \/ Waiting(c) /\ clock[c] < RenewInterval

\* mutant: the key is set without a lease
KeyStays(ticks) == key

\* The key goes when its lease is over.
KeyLeft(ticks) == IF ticks = 0 THEN Nobody ELSE key

Tick ==
  /\ InTime
  /\ left' = IF left = 0 THEN 0 ELSE left - 1
  /\ key' = KeyLeft(left')
  /\ ticked' = ticked \union {c \in Calls : Fires(c)}
  /\ clock' = [c \in Calls |-> IF Fires(c) THEN 0 ELSE IF Counts(c) THEN clock[c] + 1 ELSE clock[c]]
  /\ UNCHANGED <<wire, reply, pc, renewer, results, faults>>

CallStep(c) ==
  \/ TryAcquire(c) \/ Busy(c) \/ Acquired(c) \/ CancelWait(c)
  \/ Release(c) \/ Released(c)
RenewStep(c) == RenewTick(c) \/ Renewed(c) \/ NotRenewed(c) \/ StopRenewal(c)
FaultStep(c) ==
  \/ AcquireError(c) \/ ReleaseError(c) \/ RenewError(c)
  \/ Cancel(c) \/ Crash(c)
  \/ \E command \in Commands : Resend(c, command)

Next ==
  \/ \E c \in Calls :
       Serve(c) \/ CallStep(c) \/ FnReturns(c) \/ RenewStep(c) \/ FaultStep(c)
  \/ Tick

Spec == Init /\ [][Next]_vars

\* Goroutines are scheduled, Redis serves what it is sent, time passes however
\* often commands follow each other within a tick.
Fairness ==
  /\ \A c \in Calls :
       /\ WF_vars(pc[c] # "idle" /\ CallStep(c))
       /\ WF_vars(RenewStep(c))
       /\ WF_vars(Serve(c))
  /\ SF_vars(Tick)
FairSpec == Spec /\ Fairness

-----------------------------------------------------------------------------
(* Properties *)

\* While nothing stalls, at most one callback runs whose ownership context is
\* alive, whatever commands fail, are repeated or arrive late.
MutualExclusion ==
  "stall" \notin faults =>
    \A c, d \in Running \ lost : c = d

\* Only the end of its lease or its owner's own release takes the lock away:
\* no late, repeated or foreign command does.
OnlyOwnerReleases ==
  [][\A c \in Calls :
       (key = c /\ key' # c) =>
         key' = Nobody /\ (left = 1 \/ pc[c] \in {"release", "done", "crashed"})]_vars

\* Stalls can let two callbacks run at once; it never passes in silence:
\* one of the two calls returns an error that says so.
OverlapIsReported ==
  \A pair \in met :
    (\A c \in pair : pc[c] = "done") => \E c \in pair : errs[c] \intersect {"lost", "net"} # {}

\* ErrLockOwnershipLost means that exclusive ownership can no longer be
\* guaranteed: when nothing stalls, fails or is sent twice no call returns it,
\* and the end of the caller's context is not taken for a loss.
NoFalseAlarm ==
  {"stall", "net", "retry"} \intersect faults = {} =>
    \A c \in Calls : c \notin lost /\ "lost" \notin errs[c]

\* A callback that has lost the lock is told, unless it returns before. (The
\* model may send a command again without end; the client library may not.)
LossIsNoticed ==
  "retry" \notin faults =>
    \A c \in Calls : (pc[c] = "run" /\ key # c) ~> (c \in lost \/ pc[c] # "run")

\* A call that waits stops waiting, even if the owner of the lock dies,
\* provided that callbacks return: the lock does not see to that.
WaiterProceeds ==
  ("retry" \notin faults /\ \A c \in Calls : []<>(pc[c] # "run")) =>
    \A c \in Calls : pc[c] \in {"acquire", "backoff"} ~> pc[c] \notin {"acquire", "backoff"}

-----------------------------------------------------------------------------
(* What the users of the lock rely on *)

\* A call that knows of its loss is as good as over: its contexts are
\* cancelled and it will return an error.
Phase(c) ==
  CASE pc[c] \in {"idle", "acquire", "backoff"} -> "out"
    [] pc[c] = "done" -> IF errs[c] = {} THEN "won" ELSE "over"
    [] OTHER -> IF pc[c] = "crashed" \/ c \in lost THEN "over" ELSE "in"
AtWork(c) == Phase(c) = "in"

Holder == IF \E c \in Calls : AtWork(c) /\ key = c THEN key ELSE Nobody
Phases == [c \in Calls |-> Phase(c)]
Freed == {c \in Calls : AtWork(c) /\ pc[c] = "release" /\ reply[c] = "yes"}

Promise == INSTANCE ExclusiveLock WITH holder <- Holder, phase <- Phases, freed <- Freed

\* The lock keeps its promise through failing, repeated and late commands,
\* crashes and stalls: a call that returns no error held it from the start of
\* its callback until its release, and only a stall parts a call at work from it.
ImplementsExclusiveLock == Promise!Spec

=============================================================================
