------------------------------ MODULE QAQueue ------------------------------
(***************************************************************************)
(* internal/im: the queue of questions from instant messengers.  Every     *)
(* instance of the server has a bounded queue and a fixed pool of workers; *)
(* with Redis the instances share a counter per user, one counter of the   *)
(* running requests (the global gate) and the markers of /stop commands.   *)
(*                                                                         *)
(* What an instance does under its mutex is one step, every Redis command  *)
(* another.  Time is left out: a wait may exceed its limit at any moment,  *)
(* and a Redis key expires when nothing has renewed it for its whole TTL.  *)
(***************************************************************************)
EXTENDS Integers, Sequences, FiniteSets, SequencesExt

CONSTANTS Instances,    \* server processes
          Users,        \* userKeys: one user in one chat of one channel
          Requests,     \* questions, numbered as they arrive
          Workers,      \* workers of an instance
          MaxSize,      \* places in the queue of an instance
          MaxPerUser,   \* requests a user may have under way
          GlobalMax,    \* requests that may run in all instances, 0: any number
          Environments, \* what a behaviour may meet
          None

Events == {"redis",   \* a Redis command fails, executed or not
           "slow",    \* a request is under way for longer than a counter's TTL
           "cancel",  \* the connection a request came from is closed
           "crash",   \* an instance dies and starts again
           "stop",    \* a user sends /stop
           "close"}   \* an instance shuts down

ASSUME RequestsAssumption == Requests \subseteq Nat /\ None \notin Nat
ASSUME SizesAssumption ==
  Workers \in Nat /\ MaxSize \in Nat /\ MaxPerUser \in Nat /\ GlobalMax \in Nat
ASSUME EnvironmentsAssumption ==
  Environments \subseteq [redis : BOOLEAN, events : SUBSET Events, asks : Nat]

VARIABLES env,       \* with Redis or without, what may happen, and the bound on questions
          queue,     \* instance -> its queue
          perUser,   \* instance -> user -> queued requests, kept without Redis
          inflight,  \* instance -> user -> the request a local /stop cancels
          closed,    \* instances that are shutting down
          count,     \* Redis: user -> requests under way
          gate,      \* Redis: running requests
          marker,    \* Redis: users with a stop marker
          stopping,  \* users whose /stop has yet to set its marker
          pc,        \* where each request is
          home,      \* the instance it came to
          user,      \* who asked
          cancelled, \* requests whose context is cancelled
          stopped    \* history: requests that came before a /stop of their user was done

local == <<queue, perUser, inflight, closed>>
shared == <<count, gate, marker>>
asked == <<home, user>>
stops == <<stopping, stopped>>
vars == <<env, local, shared, asked, stops, pc, cancelled>>

Waiting == {"queued", "picked", "gate"}
Running == {"start", "check", "run", "release"}
Accepted == {"insert", "free"} \union Waiting \union Running
Ended == {"rejected", "removed", "dropped", "done", "lost"}

TypeOK ==
  /\ env \in Environments
  /\ queue \in [Instances -> Seq(Requests)]
  /\ \A i \in Instances : Len(queue[i]) <= MaxSize
  /\ perUser \in [Instances -> [Users -> Nat]]
  /\ inflight \in [Instances -> [Users -> Requests \union {None}]]
  /\ closed \subseteq Instances
  /\ count \in [Users -> Int] /\ gate \in Int
  /\ marker \subseteq Users /\ stopping \subseteq Users
  /\ pc \in [Requests -> {"new", "refuse"} \union Accepted \union Ended]
  /\ home \in [Requests -> Instances \union {None}]
  /\ user \in [Requests -> Users \union {None}]
  /\ cancelled \subseteq Requests /\ stopped \subseteq Requests

Init ==
  /\ env \in Environments
  /\ queue = [i \in Instances |-> <<>>]
  /\ perUser = [i \in Instances |-> [u \in Users |-> 0]]
  /\ inflight = [i \in Instances |-> [u \in Users |-> None]]
  /\ closed = {}
  /\ count = [u \in Users |-> 0] /\ gate = 0 /\ marker = {}
  /\ pc = [r \in Requests |-> "new"]
  /\ home = [r \in Requests |-> None] /\ user = [r \in Requests |-> None]
  /\ stopping = {} /\ stopped = {} /\ cancelled = {}

Go(r, place) == pc' = [pc EXCEPT ![r] = place]
Fails == "redis" \in env.events

-----------------------------------------------------------------------------
(* Counters *)

Add(u, n) == [count EXCEPT ![u] = @ + n]

\* A command that fails may have been executed or not.
redisDecrUser(u) ==
  IF env.redis THEN count' = Add(u, -1) \/ (Fails /\ UNCHANGED count)
               ELSE UNCHANGED count

Forget(i, u) ==
  perUser' = IF env.redis \/ perUser[i][u] = 0 THEN perUser
             ELSE [perUser EXCEPT ![i][u] = @ - 1]

-----------------------------------------------------------------------------
(* Enqueue *)

OverLimit(n) == n > MaxPerUser

\* The first step counts the request of user u that reaches instance i.
redisCheckAndIncrUser(r, i, u) ==
  /\ pc[r] = "new" /\ r <= env.asks /\ \A q \in Requests : q < r => pc[q] # "new"
  /\ home' = [home EXCEPT ![r] = i] /\ user' = [user EXCEPT ![r] = u]
  /\ IF ~env.redis
       THEN Go(r, "insert") /\ UNCHANGED count
       ELSE \/ /\ count' = Add(u, 1)
               /\ Go(r, IF OverLimit(count[u] + 1) THEN "refuse" ELSE "insert")
            \/ /\ Fails
               /\ count' \in {count, Add(u, 1)}
               /\ Go(r, "insert")
  /\ UNCHANGED <<env, local, gate, marker, stops, cancelled>>

Refuse(r) ==
  /\ pc[r] = "refuse"
  /\ redisDecrUser(user[r])
  /\ Go(r, "rejected")
  /\ UNCHANGED <<env, local, gate, marker, asked, stops, cancelled>>

\* The per-user limit is checked here only without Redis.
Rejects(i, u) ==
  \/ i \in closed
  \/ Len(queue[i]) >= MaxSize
  \/ ~env.redis /\ perUser[i][u] >= MaxPerUser

Enqueue(r) ==
  /\ pc[r] = "insert"
  /\ LET i == home[r]
         u == user[r]
     IN \/ /\ Rejects(i, u)
           /\ redisDecrUser(u) /\ Go(r, "rejected")
           /\ UNCHANGED <<queue, perUser>>
        \/ /\ ~Rejects(i, u)
           /\ queue' = [queue EXCEPT ![i] = Append(@, r)]
           /\ perUser' = IF env.redis THEN perUser ELSE [perUser EXCEPT ![i][u] = @ + 1]
           /\ Go(r, "queued") /\ UNCHANGED count
  /\ UNCHANGED <<env, inflight, closed, gate, marker, asked, stops, cancelled>>

-----------------------------------------------------------------------------
(* The workers *)

GateUsed == env.redis /\ GlobalMax > 0
Busy(i) == {r \in Requests : home[r] = i /\ pc[r] \in {"picked", "gate", "free"} \union Running}

dequeue(r) ==
  LET i == home[r]
  IN /\ pc[r] = "queued" /\ Head(queue[i]) = r
     /\ Cardinality(Busy(i)) < Workers
     /\ queue' = [queue EXCEPT ![i] = Tail(@)]
     /\ Forget(i, user[r])
     /\ Go(r, "picked")
     /\ UNCHANGED <<env, inflight, closed, shared, asked, stops, cancelled>>

\* Cancelled, or in the queue for longer than queueTimeout.
Discard(r) ==
  /\ pc[r] = "picked"
  /\ redisDecrUser(user[r])
  /\ Go(r, "dropped")
  /\ UNCHANGED <<env, local, gate, marker, asked, stops, cancelled>>

Proceed(r) ==
  /\ pc[r] = "picked" /\ r \notin cancelled
  /\ Go(r, IF GateUsed THEN "gate" ELSE "start")
  /\ UNCHANGED <<env, local, shared, asked, stops, cancelled>>

\* mutant: the count is compared with the limit before it is increased
AdmitsOneMore(n) == n <= GlobalMax
Admits(n) == n + 1 <= GlobalMax

\* A full gate leaves the counter as it was and the worker polls again.  An
\* error, that of a cancelled context included, counts as a slot.
acquireGlobalGate(r) ==
  /\ pc[r] = "gate"
  /\ \/ Admits(gate) /\ gate' = gate + 1
     \/ Fails /\ gate' \in {gate, gate + 1}
     \/ r \in cancelled /\ UNCHANGED gate
  /\ Go(r, "start")
  /\ UNCHANGED <<env, local, count, marker, asked, stops, cancelled>>

GiveUp(r) ==
  /\ pc[r] = "gate" /\ r \in cancelled
  /\ redisDecrUser(user[r])
  /\ Go(r, "dropped")
  /\ UNCHANGED <<env, local, gate, marker, asked, stops, cancelled>>

\* mutant: the slot is given back only when nobody waits for one
ReleaseLast(r) == IF \E s \in Requests : pc[s] = "gate" THEN gate ELSE gate - 1
ReleaseSlot(r) == gate - 1

releaseGlobalGate(r) ==
  /\ pc[r] = "release"
  /\ IF GateUsed THEN gate' = ReleaseSlot(r) \/ (Fails /\ UNCHANGED gate)
                 ELSE UNCHANGED gate
  /\ Go(r, "free")
  /\ UNCHANGED <<env, local, count, marker, asked, stops, cancelled>>

Finish(r) ==
  /\ pc[r] = "free"
  /\ redisDecrUser(user[r])
  /\ Go(r, "done")
  /\ UNCHANGED <<env, local, gate, marker, asked, stops, cancelled>>

-----------------------------------------------------------------------------
(* The handler: executeQARequest of service.go *)

Start(r) ==
  /\ pc[r] = "start"
  /\ inflight' = [inflight EXCEPT ![home[r]][user[r]] = r]
  /\ Go(r, "check")
  /\ UNCHANGED <<env, queue, perUser, closed, shared, asked, stops, cancelled>>

\* The deferred delete removes the entry of the user, whosever it is.
DeleteEntry(r) == inflight' = [inflight EXCEPT ![home[r]][user[r]] = None]

\* Reading the marker deletes it.
checkAndClearStopMarker(r) ==
  /\ pc[r] = "check"
  /\ \/ /\ env.redis /\ user[r] \in marker
        /\ marker' = marker \ {user[r]}
        /\ DeleteEntry(r) /\ Go(r, "release")
     \/ /\ ~env.redis \/ user[r] \notin marker
        /\ Go(r, "run") /\ UNCHANGED <<marker, inflight>>
     \/ /\ Fails
        /\ marker' \in {marker, marker \ {user[r]}}
        /\ Go(r, "run") /\ UNCHANGED inflight
  /\ UNCHANGED <<env, queue, perUser, closed, count, gate, asked, stops, cancelled>>

\* The pipeline ends: answered, failed or cancelled.
Return(r) ==
  /\ pc[r] = "run"
  /\ DeleteEntry(r)
  /\ Go(r, "release")
  /\ UNCHANGED <<env, queue, perUser, closed, shared, asked, stops, cancelled>>

-----------------------------------------------------------------------------
(* /stop of user u at instance i *)

Asked(u) == {r \in Requests : user[r] = u}
FirstOf(i, u) == SelectInSeq(queue[i], LAMBDA r : user[r] = u)

\* mutant: the request leaves the queue, not the count
RemoveUncounted(u) == UNCHANGED count
DecrRemoved(u) == redisDecrUser(u)

RemoveQueued(i, u) ==
  LET n == FirstOf(i, u)
  IN /\ n > 0
     /\ queue' = [queue EXCEPT ![i] = RemoveAt(@, n)]
     /\ cancelled' = cancelled \union {queue[i][n]}
     /\ Forget(i, u) /\ DecrRemoved(u)
     /\ Go(queue[i][n], "removed")
     /\ UNCHANGED inflight

CancelInflight(i, u) ==
  /\ FirstOf(i, u) = 0
  /\ cancelled' = cancelled \union ({inflight[i][u]} \ {None})
  /\ inflight' = [inflight EXCEPT ![i][u] = None]
  /\ UNCHANGED <<queue, perUser, count, pc>>

Stop(i, u) ==
  /\ "stop" \in env.events /\ u \notin stopping
  /\ RemoveQueued(i, u) \/ CancelInflight(i, u)
  /\ stopping' = IF env.redis THEN stopping \union {u} ELSE stopping
  /\ stopped' = stopped \union Asked(u)
  /\ UNCHANGED <<env, closed, gate, marker, asked>>

SetStopMarker(u) ==
  /\ u \in stopping
  /\ stopping' = stopping \ {u} /\ stopped' = stopped \union Asked(u)
  /\ marker' = marker \union {u} \/ (Fails /\ UNCHANGED marker)
  /\ UNCHANGED <<env, local, count, gate, asked, pc, cancelled>>

-----------------------------------------------------------------------------
(* Surroundings *)

Close(i) ==
  /\ "close" \in env.events
  /\ closed' = closed \union {i}
  /\ UNCHANGED <<env, queue, perUser, inflight, shared, asked, stops, pc, cancelled>>

Disconnect(r) ==
  /\ "cancel" \in env.events /\ pc[r] \in Accepted
  /\ cancelled' = cancelled \union {r}
  /\ UNCHANGED <<env, local, shared, asked, stops, pc>>

\* The process dies and starts again with nothing; what it had counted stays.
Crash(i) ==
  /\ "crash" \in env.events
  /\ queue' = [queue EXCEPT ![i] = <<>>]
  /\ perUser' = [perUser EXCEPT ![i] = [u \in Users |-> 0]]
  /\ inflight' = [inflight EXCEPT ![i] = [u \in Users |-> None]]
  /\ closed' = closed \ {i}
  /\ pc' = [r \in Requests |->
              IF home[r] = i /\ pc[r] \notin Ended THEN "lost" ELSE pc[r]]
  /\ UNCHANGED <<env, shared, asked, stops, cancelled>>

\* Every attempt at the gate renews its key for 5 minutes, and a waiting worker
\* makes one every 500 ms; unless requests are slow, no slot outlives the key.
GateExpires ==
  /\ gate # 0
  /\ \A r \in Requests : pc[r] # "gate"
  /\ "slow" \in env.events \/ \A r \in Requests : pc[r] \notin Running
  /\ gate' = 0
  /\ UNCHANGED <<env, local, count, marker, asked, stops, pc, cancelled>>

\* Every request of the user renews the key of their counter.
UserExpires(u) ==
  /\ count[u] # 0
  /\ "slow" \in env.events \/ \A r \in Asked(u) : pc[r] \notin {"refuse"} \union Accepted
  /\ count' = [count EXCEPT ![u] = 0]
  /\ UNCHANGED <<env, local, gate, marker, asked, stops, pc, cancelled>>

MarkerExpires(u) ==
  /\ u \in marker
  /\ marker' = marker \ {u}
  /\ UNCHANGED <<env, local, count, gate, asked, stops, pc, cancelled>>

WorkerStep(r) ==
  \/ dequeue(r) \/ Discard(r) \/ Proceed(r) \/ acquireGlobalGate(r) \/ GiveUp(r)
  \/ Start(r) \/ checkAndClearStopMarker(r) \/ Return(r)
  \/ releaseGlobalGate(r) \/ Finish(r)
Insert(r) == Refuse(r) \/ Enqueue(r)

Next ==
  \/ \E r \in Requests :
       \/ \E i \in Instances, u \in Users : redisCheckAndIncrUser(r, i, u)
       \/ Insert(r) \/ WorkerStep(r) \/ Disconnect(r)
  \/ \E i \in Instances : Close(i) \/ Crash(i) \/ \E u \in Users : Stop(i, u)
  \/ \E u \in Users : SetStopMarker(u) \/ UserExpires(u) \/ MarkerExpires(u)
  \/ GateExpires

Spec == Init /\ [][Next]_vars

\* Workers and callers run, handlers return and keys that nobody renews expire.
FairSpec ==
  /\ Spec
  /\ \A r \in Requests : WF_vars(Insert(r)) /\ WF_vars(WorkerStep(r))
  /\ WF_vars(GateExpires)

-----------------------------------------------------------------------------
(* Properties *)

Without(events) == env.events \intersect events = {}

UnderWay(u) == {r \in Asked(u) : pc[r] \in Accepted}
Holding == {r \in Requests : pc[r] \in Running}

\* Whatever is stopped, removed, timed out or lost in a crash: with Redis a
\* user never has more than MaxPerUser requests under way in all instances,
\* without it in the queue of one, and never more than GlobalMax run in all.
LimitsHold ==
  /\ env.redis /\ Without({"redis", "slow"}) =>
       \A u \in Users : Cardinality(UnderWay(u)) <= MaxPerUser
  /\ ~env.redis =>
       \A i \in Instances, u \in Users :
         Cardinality({r \in Asked(u) : home[r] = i /\ pc[r] = "queued"}) <= MaxPerUser
  /\ GateUsed /\ Without({"redis", "slow", "cancel"}) => Cardinality(Holding) <= GlobalMax

\* Every way out of the queue gives back what it took, exactly once: the
\* counters are those of the requests under way.
CountersMatch ==
  Without({"redis", "slow", "crash"}) =>
    /\ env.redis =>
         \A u \in Users : count[u] = Cardinality(UnderWay(u) \union {r \in Asked(u) : pc[r] = "refuse"})
    /\ GateUsed /\ Without({"cancel"}) => gate = Cardinality(Holding)
    /\ ~env.redis =>
         \A i \in Instances, u \in Users :
           perUser[i][u] = Cardinality({r \in Asked(u) : home[r] = i /\ pc[r] = "queued"})

\* An accepted request is answered, discarded or stopped: while no instance dies
\* and Redis answers, nobody is stuck at the gate or in a queue for ever.
EveryRequestEnds ==
  \A r \in Requests :
    (pc[r] \in Accepted /\ Without({"crash", "redis"})) ~> pc[r] \in Ended

-----------------------------------------------------------------------------
(* What the comments say *)

\* The marker discards a request when "a pre-execution /stop was issued while
\* this request was queued": never one that came after the /stop.
StopHitsEarlierOnly ==
  [][\A r \in Requests : pc[r] = "check" /\ pc'[r] = "release" => r \in stopped]_vars
=============================================================================
