---------------------------- MODULE ApprovalGate ----------------------------
(***************************************************************************)
(* internal/agent/approval: a tool call of an agent waits until its user   *)
(* decides, a timer fires or the request is cancelled.  The wait lives in  *)
(* one instance; a Resolve call may reach any of them and is passed on     *)
(* over Redis Pub/Sub, where the owning instance acknowledges it.          *)
(*                                                                         *)
(* One wait: everything is keyed by its pending id.  Waits for an OAuth    *)
(* authorization have the same shape.  A decision is the call that made it. *)
(***************************************************************************)
EXTENDS FiniteSets

CONSTANTS Instances,
          Owner,        \* the instance where the tool call waits
          Calls,        \* calls of Resolve
          Environments, \* what a behaviour may meet
          None

Events == {"emit",   \* an event handler fails when the wait is announced
           "cancel", \* the agent's request is cancelled
           "late",   \* an acknowledgement takes more than three seconds
           "loss",   \* a Pub/Sub message is not received
           "redis",  \* subscribing or publishing fails
           "crash"}  \* an instance dies and starts again
Outcomes == {"timeout", "cancel"}
Answers == {"ok", "already_resolved", "mismatch", "not_found", "error"}

ASSUME OwnerAssumption == Owner \in Instances
ASSUME NamesAssumption ==
  (Outcomes \union {None}) \intersect Calls = {} /\ None \notin Outcomes \union Answers
ASSUME EnvironmentsAssumption ==
  Environments \subseteq [redis : BOOLEAN, named : BOOLEAN, events : SUBSET Events]

VARIABLES env,     \* with Redis or without, whether the waiter knows the user of
                   \* its session, and what may happen
          wait,    \* where the waiting tool call is
          pending, \* its waiter is in the map
          ch,      \* the waiter's channel, of capacity one
          spent,   \* the waiter's once has been used
          result,  \* what the wait returned
          pc,      \* where each Resolve call is
          at,      \* the instance it reached
          by,      \* who made it
          answer,  \* what it returned
          inbox,   \* instance -> calls its subscriber has not read
          hears,   \* instance -> the call its subscriber is delivering
          acks     \* call -> acknowledgements it has not read
waiter == <<wait, pending, ch, spent, result>>
calls == <<pc, at, by, answer>>
pubsub == <<inbox, hears, acks>>
vars == <<env, waiter, calls, pubsub>>

Callers == {"owner", "otherTenant", "otherUser"}

TypeOK ==
  /\ env \in Environments
  /\ wait \in {"new", "emit", "wait", "read", "leave", "done", "failed", "error", "dead"}
  /\ pending \in BOOLEAN /\ spent \in BOOLEAN
  /\ {ch, result} \subseteq Calls \union Outcomes \union {None}
  /\ pc \in [Calls -> {"idle", "lookup", "deliver", "publish", "await", "answered", "lost"}]
  /\ at \in [Calls -> Instances \union {None}] /\ by \in [Calls -> Callers \union {None}]
  /\ answer \in [Calls -> Answers \union {None}]
  /\ inbox \in [Instances -> SUBSET Calls]
  /\ hears \in [Instances -> Calls \union {None}]
  /\ acks \in [Calls -> SUBSET (Calls \X Answers)]

Init ==
  /\ env \in Environments
  /\ wait = "new" /\ pending = FALSE /\ spent = FALSE /\ ch = None /\ result = None
  /\ pc = [c \in Calls |-> "idle"] /\ at = [c \in Calls |-> None]
  /\ by = [c \in Calls |-> None] /\ answer = [c \in Calls |-> None]
  /\ inbox = [i \in Instances |-> {}] /\ hears = [i \in Instances |-> None]
  /\ acks = [c \in Calls |-> {}]

May(event) == event \in env.events

\* waiter.deliver: the first decision goes into the channel, no other does.
deliver(d) ==
  IF spent THEN UNCHANGED <<ch, spent>> ELSE ch' = d /\ spent' = TRUE

-----------------------------------------------------------------------------
(* RequestAndWait *)

Register ==
  /\ wait = "new"
  /\ wait' = "emit" /\ pending' = TRUE
  /\ UNCHANGED <<env, ch, spent, result, calls, pubsub>>

Emit ==
  /\ wait = "emit"
  /\ wait' \in {"wait"} \union (IF May("emit") THEN {"failed"} ELSE {})
  /\ UNCHANGED <<env, pending, ch, spent, result, calls, pubsub>>

Receive ==
  /\ wait \in {"wait", "read"} /\ ch # None
  /\ result' = ch /\ ch' = None
  /\ wait' = "leave"
  /\ UNCHANGED <<env, pending, spent, calls, pubsub>>

\* mutant: the timer branch only waits for the channel
NoDelivery(d) == UNCHANGED <<ch, spent>>
EndWith(d) == deliver(d)

\* The timer or the context wins the select; a decision that came first is
\* still the one that is read.
TimeOut(d) ==
  /\ wait = "wait"
  /\ d = "cancel" => May("cancel")
  /\ EndWith(d)
  /\ wait' = "read"
  /\ UNCHANGED <<env, pending, result, calls, pubsub>>

Unregister ==
  /\ wait \in {"leave", "failed"}
  /\ wait' = IF wait = "leave" THEN "done" ELSE "error"
  /\ pending' = FALSE
  /\ UNCHANGED <<env, ch, spent, result, calls, pubsub>>

-----------------------------------------------------------------------------
(* Resolve *)

Move(c, place) == pc' = [pc EXCEPT ![c] = place]
Return(c, ans) == Move(c, "answered") /\ answer' = [answer EXCEPT ![c] = ans]

\* The pending id is known to clients once it is announced.
Resolve(c, i, who) ==
  /\ pc[c] = "idle" /\ wait # "new"
  /\ Move(c, "lookup")
  /\ at' = [at EXCEPT ![c] = i] /\ by' = [by EXCEPT ![c] = who]
  /\ UNCHANGED <<env, waiter, answer, pubsub>>

\* deliverLocal, under the mutex: the waiter, and whether the caller may decide.
Found(i) == i = Owner /\ pending

\* A waiter without a user asks for the tenant only.
Entitled == IF env.named THEN {"owner"} ELSE {"owner", "otherUser"}
Authorized(c) == by[c] \in Entitled

Lookup(c) ==
  /\ pc[c] = "lookup"
  /\ \/ Found(at[c]) /\ Authorized(c) /\ Move(c, "deliver") /\ UNCHANGED answer
     \/ Found(at[c]) /\ ~Authorized(c) /\ Return(c, "mismatch")
     \/ ~Found(at[c]) /\ env.redis /\ Move(c, "publish") /\ UNCHANGED answer
     \/ ~Found(at[c]) /\ ~env.redis /\ Return(c, "not_found")
  /\ UNCHANGED <<env, waiter, at, by, pubsub>>

\* Its second half, after the mutex: the waiter may have left the map since.
Verdict == IF spent THEN "already_resolved" ELSE "ok"

Deliver(c) ==
  /\ pc[c] = "deliver"
  /\ deliver(c) /\ Return(c, Verdict)
  /\ UNCHANGED <<env, wait, pending, result, at, by, pubsub>>

\* Subscribed to the reply channel, the call publishes to the other instances.
Publish(c) ==
  /\ pc[c] = "publish"
  /\ \E hearers \in SUBSET (Instances \ {at[c]}) :
       /\ May("loss") \/ May("redis") \/ hearers = Instances \ {at[c]}
       /\ inbox' = [i \in Instances |-> IF i \in hearers THEN inbox[i] \union {c} ELSE inbox[i]]
  /\ \/ Move(c, "await") /\ UNCHANGED answer
     \/ May("redis") /\ Return(c, "error")
  /\ UNCHANGED <<env, waiter, at, by, hears, acks>>

\* mutant: the acknowledgement of another call counts
AnyAck(c, ack) == TRUE
Mine(c, ack) == ack[1] = c

ReadAck(c) ==
  /\ pc[c] = "await"
  /\ \E ack \in acks[c] :
       IF Mine(c, ack)
         THEN Return(c, ack[2]) /\ acks' = [acks EXCEPT ![c] = {}]
         ELSE UNCHANGED <<pc, answer>> /\ acks' = [acks EXCEPT ![c] = @ \ {ack}]
  /\ UNCHANGED <<env, waiter, at, by, inbox, hears>>

\* An acknowledgement of the call is still to be expected.
Expected(c) ==
  \/ \E i \in Instances : c \in inbox[i] \/ hears[i] = c
  \/ \E ack \in acks[c] : ack[1] = c

GiveUp(c) ==
  /\ pc[c] = "await"
  /\ May("late") \/ ~Expected(c)
  /\ Return(c, "not_found")
  /\ acks' = [acks EXCEPT ![c] = {}]
  /\ UNCHANGED <<env, waiter, at, by, inbox, hears>>

-----------------------------------------------------------------------------
(* runSubscriber *)

\* mutant: only a refusal is acknowledged
RefusalAcked(status) == status # "ok"
Acked(status) == TRUE

\* The reply channel is shared by the calls that wait for this pending id.
Ack(c, status) ==
  \/ /\ Acked(status)
     /\ acks' = [d \in Calls |-> IF pc[d] = "await" THEN acks[d] \union {<<c, status>>} ELSE acks[d]]
  \/ (~Acked(status) \/ May("loss") \/ May("redis")) /\ UNCHANGED acks

\* An instance that does not have the waiter stays silent.
Hear(i, c) ==
  /\ hears[i] = None /\ c \in inbox[i]
  /\ inbox' = [inbox EXCEPT ![i] = @ \ {c}]
  /\ \/ Found(i) /\ Authorized(c) /\ hears' = [hears EXCEPT ![i] = c] /\ UNCHANGED acks
     \/ Found(i) /\ ~Authorized(c) /\ Ack(c, "mismatch") /\ UNCHANGED hears
     \/ ~Found(i) /\ UNCHANGED <<hears, acks>>
  /\ UNCHANGED <<env, waiter, calls>>

DeliverHeard(i) ==
  /\ hears[i] # None
  /\ deliver(hears[i]) /\ Ack(hears[i], Verdict)
  /\ hears' = [hears EXCEPT ![i] = None]
  /\ UNCHANGED <<env, wait, pending, result, calls, inbox>>

-----------------------------------------------------------------------------
Crash(i) ==
  /\ May("crash")
  /\ pc' = [c \in Calls |-> IF at[c] = i /\ pc[c] # "answered" THEN "lost" ELSE pc[c]]
  /\ inbox' = [inbox EXCEPT ![i] = {}] /\ hears' = [hears EXCEPT ![i] = None]
  /\ IF i = Owner /\ wait \notin {"new", "done", "error"}
       THEN wait' = "dead" /\ pending' = FALSE
       ELSE UNCHANGED <<wait, pending>>
  /\ UNCHANGED <<env, ch, spent, result, at, by, answer, acks>>

WaiterStep == Register \/ Emit \/ Receive \/ (\E d \in Outcomes : TimeOut(d)) \/ Unregister
CallStep(c) == Lookup(c) \/ Deliver(c) \/ Publish(c) \/ ReadAck(c) \/ GiveUp(c)
SubscriberStep(i) == DeliverHeard(i) \/ \E c \in Calls : Hear(i, c)

Next ==
  \/ WaiterStep
  \/ \E c \in Calls : CallStep(c) \/ \E i \in Instances, who \in Callers : Resolve(c, i, who)
  \/ \E i \in Instances : SubscriberStep(i) \/ Crash(i)

Spec == Init /\ [][Next]_vars

\* Goroutines run and timers fire; nobody need ever decide.
FairSpec ==
  /\ Spec
  /\ WF_vars(WaiterStep)
  /\ \A c \in Calls : WF_vars(CallStep(c))
  /\ \A i \in Instances : WF_vars(SubscriberStep(i))

-----------------------------------------------------------------------------
(* Properties *)

Without(events) == env.events \intersect events = {}
\* The decision that was taken over, whether or not the tool call has read it.
Taken == {ch, result} \ {None}

\* The tool call ended in an error or with its process: it reads no decision, not
\* even one that lies in its channel.
Aborted == wait \in {"failed", "error", "dead"}

\* The decision the tool call has read, or is going to.
Reaches(d) == d = result \/ (d = ch /\ wait \in {"emit", "wait", "read"})

\* Whoever is told that the decision was taken over is right, also from another
\* instance: the tool call gets that decision and no other, unless it ends
\* without any.  Whoever is told that somebody else decided is right, too, and
\* two callers are never both told that theirs counts.
AnswersAreTrue ==
  \A c \in Calls :
    /\ answer[c] = "ok" =>
         (Reaches(c) \/ Aborted) /\ \A d \in Calls \ {c} : answer[d] # "ok" /\ ~Reaches(d)
    /\ answer[c] = "already_resolved" =>
         ~Reaches(c) /\ (Aborted \/ \E d \in Calls \union Outcomes : Reaches(d))

\* "Not found" means that the decision was not taken over: while messages
\* arrive in time no decision comes into effect that its user believes lost.
NotFoundIsTrue ==
  Without({"late", "loss", "redis", "crash"}) =>
    \A c \in Calls : answer[c] = "not_found" => c \notin Taken

\* Nobody of another tenant decides, and nobody but the user of the session does
\* when the waiter knows that user, whichever instance is asked.
OwnerDecides ==
  \A c \in Calls \intersect Taken :
    by[c] # "otherTenant" /\ (env.named => by[c] = "owner")

\* The wait ends: decided, timed out or cancelled, however the select and the
\* callers race, and every call is answered.
WaitsEnd ==
  /\ (wait # "new" /\ Without({"crash"})) ~> wait \in {"done", "error"}
  /\ \A c \in Calls : pc[c] # "idle" ~> pc[c] \in {"answered", "lost"}
=============================================================================
