---------------------------- MODULE ModelLimiter ----------------------------
(***************************************************************************)
(* internal/models/limiter over Redis: the cap on concurrent background    *)
(* calls of one model.  A slot is a member of a sorted set scored by the   *)
(* end of its lease; a script prunes, counts and admits; each holder beats *)
(* to keep its lease and the set's own expiry alive.                       *)
(*                                                                         *)
(* A gated call runs once and is its own token.  Time is counted in ticks. *)
(* The clocks of the application hosts differ by at most Skew: a script    *)
(* may see a lease as up to Skew older than its owner does.                *)
(***************************************************************************)
EXTENDS Naturals, FiniteSets

CONSTANTS Calls,     \* the gated calls of one model
          MaxLimit,  \* bound on the limits an operator sets
          TTL,       \* ticks of a lease; the set itself lives 2 * TTL
          Beat,      \* ticks between two heartbeats (TTL / 3 in the code)
          Slack,     \* ticks anything due may be late when nothing stalls
          Skew,      \* ticks two hosts' clocks may differ by
          Environments \* sets of faults: a behaviour meets one of them

FaultKinds == {"stall",   \* a process, the network or Redis pauses for any time
               "net",     \* a command fails with an error, executed or not
               "retry",   \* the script's answer is lost and the library runs it again
               "crash",   \* the process of a call dies
               "cancel"}  \* the context of a waiting call ends

ASSUME LimiterAssumption ==
  /\ Environments \subseteq SUBSET FaultKinds
  /\ MaxLimit \in Nat /\ TTL \in Nat \ {0} /\ Beat \in Nat \ {0}
  /\ Slack \in Nat /\ Skew \in Nat
ASSUME SlackAssumption ==
  (\E e \in Environments : "stall" \notin e) => Slack < Beat /\ Beat + 2 * Slack + Skew < TTL

VARIABLES faults,   \* what may go wrong in this behaviour
          limit,    \* the process-wide limit (governorN)
          zset,     \* members of the sorted set
          lease,    \* ticks left to each member's score
          keyLeft,  \* ticks left to the set's own expiry, 0: none
          wire,     \* calls whose acquire script is on its way
          reply,    \* the script's answer the call has not read
          pc,       \* where each call is
          lim,      \* the limit the call was gated with
          open,     \* calls let through without a slot
          beater,   \* the heartbeat goroutine of a holder
          clock,    \* phase of its ticker; before: ticks since the script was sent
          ticked    \* the ticker's channel is full
vars == <<faults, limit, zset, lease, keyLeft, wire, reply, pc, lim, open, beater, clock, ticked>>
set == <<zset, lease, keyLeft>>

TypeOK ==
  /\ faults \in Environments
  /\ limit \in 0 .. MaxLimit
  /\ zset \subseteq Calls
  /\ lease \in [Calls -> 0 .. TTL]
  /\ keyLeft \in 0 .. 2 * TTL
  /\ wire \subseteq Calls
  /\ reply \in [Calls -> {"none", "yes", "no"}]
  /\ pc \in [Calls -> {"idle", "ask", "wait", "call", "free", "freed", "crashed"}]
  /\ lim \in [Calls -> 0 .. MaxLimit]
  /\ open \subseteq Calls
  /\ beater \in [Calls -> {"off", "armed", "zadd", "pexpire"}]
  /\ clock \in [Calls -> 0 .. Beat]
  /\ ticked \subseteq Calls

Init ==
  /\ faults \in Environments
  /\ limit \in 0 .. MaxLimit
  /\ zset = {} /\ lease = [c \in Calls |-> 0] /\ keyLeft = 0
  /\ wire = {} /\ reply = [c \in Calls |-> "none"]
  /\ pc = [c \in Calls |-> "idle"]
  /\ lim = [c \in Calls |-> 0]
  /\ open = {}
  /\ beater = [c \in Calls |-> "off"]
  /\ clock = [c \in Calls |-> 0]
  /\ ticked = {}

\* The calls that were given a slot of their own and have not let go of it.
Holders == {c \in Calls : \/ pc[c] = "ask" /\ reply[c] = "yes"
                          \/ pc[c] = "call" /\ c \notin open}

-----------------------------------------------------------------------------
(* The governor *)

SetGlobalLimit(n) ==
  /\ limit' = n
  /\ UNCHANGED <<set, wire, reply, pc, lim, open, beater, clock, ticked, faults>>

Go(c, place) == pc' = [pc EXCEPT ![c] = place]

\* A background call reads the limit in force; no limit, no gate.
GateNamedN(c) ==
  /\ pc[c] = "idle"
  /\ lim' = [lim EXCEPT ![c] = limit]
  /\ IF limit = 0
       THEN Go(c, "call") /\ open' = open \union {c} /\ UNCHANGED wire
       ELSE Go(c, "ask") /\ wire' = wire \union {c} /\ UNCHANGED open
  /\ clock' = [clock EXCEPT ![c] = 0]
  /\ UNCHANGED <<limit, set, reply, beater, ticked, faults>>

-----------------------------------------------------------------------------
(* The acquire script and the loop around it *)

Live(age) == {m \in zset : lease[m] > age}

Answer(c, ok) ==
  /\ wire' = wire \ {c}
  /\ reply' = IF pc[c] = "ask" THEN [reply EXCEPT ![c] = IF ok THEN "yes" ELSE "no"] ELSE reply

\* mutant: the count is compared with <=
AdmitOneMore(c, live) == Cardinality(live) <= lim[c]

\* Fewer live leases than the limit this call was gated with.
Admit(c, live) == Cardinality(live) < lim[c]

acquireScript(c) ==
  /\ c \in wire
  /\ \E age \in 0 .. Skew :
       LET live == Live(age)
       IN IF Admit(c, live)
            THEN /\ zset' = live \union {c}
                 /\ lease' = [lease EXCEPT ![c] = TTL]
                 /\ keyLeft' = 2 * TTL
                 /\ Answer(c, TRUE)
            ELSE /\ zset' = live
                 /\ keyLeft' = IF live = {} THEN 0 ELSE keyLeft
                 /\ UNCHANGED lease
                 /\ Answer(c, FALSE)
  /\ UNCHANGED <<limit, pc, lim, open, beater, clock, ticked, faults>>

ReadReply(c, answer) ==
  /\ pc[c] = "ask" /\ reply[c] = answer
  /\ reply' = [reply EXCEPT ![c] = "none"]
  /\ UNCHANGED <<limit, set, wire, lim, ticked, faults>>

\* Admitted: the call goes on and its heartbeat starts.
hold(c) ==
  /\ ReadReply(c, "yes")
  /\ Go(c, "call")
  /\ beater' = [beater EXCEPT ![c] = "armed"]
  /\ clock' = [clock EXCEPT ![c] = 0]
  /\ UNCHANGED open

Full(c) ==
  /\ ReadReply(c, "no")
  /\ Go(c, "wait")
  /\ UNCHANGED <<open, beater, clock>>

\* mutant: a full semaphore is asked only once
PollOnce(c) == FALSE /\ UNCHANGED vars

PollAgain(c) ==
  /\ pc[c] = "wait"
  /\ Go(c, "ask")
  /\ wire' = wire \union {c}
  /\ clock' = [clock EXCEPT ![c] = 0]
  /\ UNCHANGED <<limit, set, reply, lim, open, beater, ticked, faults>>

\* An error or a cancelled context lets the call through; a script already
\* sent may still run.
FailOpen(c) ==
  /\ \/ "net" \in faults /\ pc[c] = "ask"
     \/ "cancel" \in faults /\ pc[c] \in {"ask", "wait"}
  /\ Go(c, "call")
  /\ open' = open \union {c}
  /\ wire' \in {wire, wire \ {c}}
  /\ reply' = [reply EXCEPT ![c] = "none"]
  /\ UNCHANGED <<limit, set, lim, beater, clock, ticked, faults>>

-----------------------------------------------------------------------------
(* The heartbeat: two commands, each with its error ignored.  Between two   *)
(* beats, when the stop channel is closed and the ticker has fired, the     *)
(* select takes either.                                                     *)

Heart(c, state) == beater' = [beater EXCEPT ![c] = state]

StartBeat(c) ==
  /\ beater[c] = "armed" /\ c \in ticked
  /\ Heart(c, "zadd")
  /\ ticked' = ticked \ {c}
  /\ UNCHANGED <<limit, set, wire, reply, pc, lim, open, clock, faults>>

\* mutant: only the set's expiry is refreshed
KeepLease(c) == UNCHANGED set

ZAdd(c) ==
  /\ zset' = zset \union {c}
  /\ lease' = [lease EXCEPT ![c] = TTL]
  /\ UNCHANGED keyLeft

BeatLease(c) ==
  /\ beater[c] = "zadd"
  /\ ZAdd(c) \/ ("net" \in faults /\ UNCHANGED set)
  /\ Heart(c, "pexpire")
  /\ UNCHANGED <<limit, wire, reply, pc, lim, open, clock, ticked, faults>>

PExpire(c) ==
  /\ keyLeft' = IF zset = {} THEN 0 ELSE 2 * TTL
  /\ UNCHANGED <<zset, lease>>

BeatKey(c) ==
  /\ beater[c] = "pexpire"
  /\ PExpire(c) \/ ("net" \in faults /\ UNCHANGED set)
  /\ Heart(c, "armed")
  /\ UNCHANGED <<limit, wire, reply, pc, lim, open, clock, ticked, faults>>

\* mutant: the heartbeat does not look at the stop channel
NeverStop(c) == FALSE /\ UNCHANGED vars

StopBeat(c) ==
  /\ beater[c] = "armed" /\ pc[c] # "call"
  /\ Heart(c, "off")
  /\ ticked' = ticked \ {c}
  /\ UNCHANGED <<limit, set, wire, reply, pc, lim, open, clock, faults>>

-----------------------------------------------------------------------------
(* Release *)

\* The provider has answered: the stop channel is closed, the slot dropped.
release(c) ==
  /\ pc[c] = "call"
  /\ Go(c, IF c \in open THEN "freed" ELSE "free")
  /\ UNCHANGED <<limit, set, wire, reply, lim, open, beater, clock, ticked, faults>>

ZRem(c) ==
  /\ zset' = zset \ {c}
  /\ keyLeft' = IF zset' = {} THEN 0 ELSE keyLeft
  /\ UNCHANGED lease

Drop(c) ==
  /\ pc[c] = "free"
  /\ ZRem(c) \/ ("net" \in faults /\ UNCHANGED set)
  /\ Go(c, "freed")
  /\ UNCHANGED <<limit, wire, reply, lim, open, beater, clock, ticked, faults>>

-----------------------------------------------------------------------------
(* Surroundings *)

Rerun(c) ==
  /\ "retry" \in faults
  /\ pc[c] = "ask" /\ reply[c] # "none"
  /\ reply' = [reply EXCEPT ![c] = "none"]
  /\ wire' = wire \union {c}
  /\ UNCHANGED <<limit, set, pc, lim, open, beater, clock, ticked, faults>>

Crash(c) ==
  /\ "crash" \in faults
  /\ pc[c] \in {"ask", "wait", "call", "free"}
  /\ Go(c, "crashed")
  /\ Heart(c, "off")
  /\ ticked' = ticked \ {c}
  /\ reply' = [reply EXCEPT ![c] = "none"]
  /\ UNCHANGED <<limit, set, wire, lim, open, clock, faults>>

Due(c) == pc[c] = "ask" \/ beater[c] \in {"zadd", "pexpire"} \/ c \in ticked
InTime == "stall" \in faults \/ \A c \in Calls : Due(c) => clock[c] < Slack
Fires(c) == beater[c] # "off" /\ clock[c] + 1 = Beat
Counts(c) == beater[c] # "off" \/ (pc[c] = "ask" /\ clock[c] < Beat)

\* The set goes with all its members when its own expiry comes.
Tick ==
  /\ InTime
  /\ lease' = [c \in Calls |-> IF lease[c] = 0 THEN 0 ELSE lease[c] - 1]
  /\ keyLeft' = IF keyLeft = 0 THEN 0 ELSE keyLeft - 1
  /\ zset' = IF keyLeft = 1 THEN {} ELSE zset
  /\ ticked' = ticked \union {c \in Calls : Fires(c)}
  /\ clock' = [c \in Calls |-> IF Fires(c) THEN 0 ELSE IF Counts(c) THEN clock[c] + 1 ELSE clock[c]]
  /\ UNCHANGED <<limit, wire, reply, pc, lim, open, beater, faults>>

Acquire(c) == hold(c) \/ Full(c) \/ PollAgain(c)
Heartbeat(c) == StartBeat(c) \/ BeatLease(c) \/ BeatKey(c) \/ StopBeat(c)

Next ==
  \/ \E n \in 0 .. MaxLimit : SetGlobalLimit(n)
  \/ \E c \in Calls :
       \/ GateNamedN(c) \/ acquireScript(c) \/ Acquire(c) \/ FailOpen(c)
       \/ Heartbeat(c) \/ release(c) \/ Drop(c) \/ Rerun(c) \/ Crash(c)
  \/ Tick

Spec == Init /\ [][Next]_vars

\* Goroutines and Redis run, the provider answers, and time passes whatever
\* commands come and go; a select whose stop channel is closed does not take
\* the ticker for ever.
FairSpec ==
  /\ Spec
  /\ SF_vars(Tick)
  /\ \A c \in Calls :
       /\ WF_vars(acquireScript(c)) /\ WF_vars(Acquire(c)) /\ WF_vars(release(c) \/ Drop(c))
       /\ WF_vars(Heartbeat(c)) /\ SF_vars(StopBeat(c))

-----------------------------------------------------------------------------
(* Properties *)

\* A call is admitted only while fewer calls than its limit hold a slot: a
\* live holder is never pruned, and the set never expires under its holders.
AdmitsWithinLimit ==
  [][{"stall", "net"} \intersect faults = {} =>
       \A c \in Calls : (c \notin Holders /\ c \in Holders') => Cardinality(Holders') <= lim[c]]_vars

\* A call that holds a slot of its own is in the set.
HoldersKeepSlots ==
  {"stall", "net"} \intersect faults = {} => Holders \subseteq Live(Skew)

\* A slot that nobody holds any more comes back: after a crash, a lost
\* answer, a failed release or a heartbeat that arrives after the release.
\* A script that the library runs again without end is left out.
SlotsComeBack ==
  "retry" \notin faults => \A c \in Calls :
    (c \in zset /\ pc[c] \in {"freed", "crashed"}) ~> (c \notin zset \/ lease[c] = 0)

\* The gate never blocks a call for good, whatever dies, stalls or fails, unless
\* the library could run its script again for ever.
NeverBlocksForGood ==
  "retry" \notin faults => \A c \in Calls :
    pc[c] \in {"ask", "wait"} ~> pc[c] \notin {"ask", "wait"}

=============================================================================
