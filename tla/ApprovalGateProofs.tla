------------------------- MODULE ApprovalGateProofs -------------------------
(***************************************************************************)
(* Proofs about ApprovalGate, for any instances, calls and environments:   *)
(* only who is entitled decides, and a caller who is told that its         *)
(* decision was taken over, or that another was, is told the truth.        *)
(***************************************************************************)
EXTENDS ApprovalGate, TLAPS

\* The once, the channel and the result together hold one decision or none.
OneDecision ==
  /\ ~spent => ch = None /\ result = None
  /\ spent => (ch = None) # (result = None)
  /\ wait \in {"new", "emit", "wait", "read"} => result = None
  /\ wait \in {"leave", "done"} => result # None
  /\ wait = "new" =>
       /\ ~spent
       /\ \A c \in Calls : pc[c] \in {"idle", "lost"}
       /\ \A i \in Instances : inbox[i] = {} /\ hears[i] = None

\* A call whose decision nobody has yet tried to deliver.
Undelivered(c) == c # ch /\ c # result

\* The decision of a call is in one place at a time, and only the owning
\* instance delivers what its subscriber heard.
OnePlace ==
  /\ \A c \in Calls : pc[c] \in {"idle", "lookup", "deliver", "publish"} =>
       /\ Undelivered(c)
       /\ \A i \in Instances : c \notin inbox[i] /\ hears[i] # c
  /\ \A c \in Calls : c \in inbox[Owner] => Undelivered(c) /\ hears[Owner] # c
  /\ \A i \in Instances : hears[i] # None => i = Owner /\ Undelivered(hears[i])

\* Whoever is about to deliver was found to be entitled to decide.
Cleared ==
  /\ \A c \in Calls : pc[c] = "deliver" => Authorized(c)
  /\ \A i \in Instances : hears[i] # None => Authorized(hears[i])
  /\ \A c \in Calls \intersect {ch, result} : Authorized(c)

\* What a call is told, or what an acknowledgement under way says of it.
Truthful(c, status) ==
  /\ status = "ok" => c \in {ch, result}
  /\ status = "already_resolved" => spent /\ Undelivered(c)

Told ==
  /\ \A c \in Calls : Truthful(c, answer[c])
  /\ \A c \in Calls : \A ack \in acks[c] : Truthful(ack[1], ack[2])

\* A call that waits for its acknowledgement still has its decision under way
\* or the acknowledgement of it; one that gave up has neither.
Heard(c) == c \in inbox[Owner] \/ hears[Owner] = c
Acknowledged(c) == \E ack \in acks[c] : ack[1] = c

Followed(c) ==
  /\ Heard(c) => pc[c] = "await" /\ ~Acknowledged(c)
  /\ pc[c] \in {"idle", "lookup", "deliver", "publish"} => ~Acknowledged(c)
  /\ pc[c] = "await" /\ ~Undelivered(c) => Acknowledged(c)
  /\ answer[c] = "not_found" => pc[c] = "answered" /\ Undelivered(c) /\ ~Heard(c)
  /\ \A ack \in acks[c] : ack[2] # "not_found"

NoneLost ==
  Without({"late", "loss", "redis", "crash"}) => \A c \in Calls : Followed(c)

Safe == OneDecision /\ OnePlace /\ Cleared /\ Told
IInv == TypeOK /\ Safe /\ NoneLost

USE OwnerAssumption, NamesAssumption DEF Outcomes

LEMMA InitIInv == Init => IInv
BY DEF Init, IInv, Safe, TypeOK, OneDecision, OnePlace, Cleared, Told, Truthful, Undelivered,
       NoneLost, Followed, Heard, Acknowledged, Callers, Answers

\* An acknowledgement reaches every call that waits, unless it is lost.
LEMMA AckAdds ==
  ASSUME TypeOK, NEW c \in Calls, NEW status \in Answers, Ack(c, status)
  PROVE  /\ acks' \in [Calls -> SUBSET (Calls \X Answers)]
         /\ \A d \in Calls : \A ack \in acks'[d] : ack \in acks[d] \/ ack = <<c, status>>
         /\ \A d \in Calls : acks[d] \subseteq acks'[d]
         /\ Without({"loss", "redis"}) =>
              \A d \in Calls : pc[d] = "await" => <<c, status>> \in acks'[d]
<1>1. CASE UNCHANGED acks /\ ~Without({"loss", "redis"})
  BY <1>1 DEF TypeOK
<1>2. CASE acks' = [d \in Calls |->
                     IF pc[d] = "await" THEN acks[d] \union {<<c, status>>} ELSE acks[d]]
  <2>1. <<c, status>> \in Calls \X Answers
    OBVIOUS
  <2> QED BY <1>2, <2>1 DEF TypeOK
<1> QED BY <1>1, <1>2 DEF Ack, Acked, Without, May

\* Every step keeps the types.
LEMMA TypeStep == TypeOK /\ [Next]_vars => TypeOK'
<1> SUFFICES ASSUME TypeOK, [Next]_vars PROVE TypeOK'
  OBVIOUS
<1> USE DEF TypeOK, deliver, Callers, Answers, Move, Return, Verdict
<1>1. CASE WaiterStep
  BY <1>1 DEF WaiterStep, Register, Emit, Receive, TimeOut, EndWith, Unregister, calls, pubsub
<1>2. ASSUME NEW c \in Calls, CallStep(c) PROVE TypeOK'
  <2>1. CASE Lookup(c)
    BY <2>1 DEF Lookup, waiter, pubsub
  <2>2. CASE Deliver(c)
    BY <2>2 DEF Deliver, pubsub
  <2>3. CASE Publish(c)
    BY <2>3 DEF Publish, waiter
  <2>4. CASE ReadAck(c)
    BY <2>4 DEF ReadAck, waiter
  <2>5. CASE GiveUp(c)
    BY <2>5 DEF GiveUp, waiter
  <2> QED BY <1>2, <2>1, <2>2, <2>3, <2>4, <2>5 DEF CallStep
<1>3. ASSUME NEW c \in Calls, NEW i \in Instances, NEW who \in Callers, Resolve(c, i, who)
      PROVE TypeOK'
  BY <1>3 DEF Resolve, waiter, pubsub
<1>4. ASSUME NEW i \in Instances, SubscriberStep(i) PROVE TypeOK'
  <2>1. CASE DeliverHeard(i)
    <3>1. hears[i] \in Calls /\ Verdict \in Answers
      BY <2>1 DEF DeliverHeard
    <3>2. acks' \in [Calls -> SUBSET (Calls \X Answers)]
      BY <2>1, <3>1, AckAdds DEF DeliverHeard
    <3> QED BY <2>1, <3>1, <3>2 DEF DeliverHeard, calls
  <2>2. ASSUME NEW c \in Calls, Hear(i, c) PROVE TypeOK'
    <3>1. acks' \in [Calls -> SUBSET (Calls \X Answers)]
      BY <2>2, AckAdds DEF Hear
    <3> QED BY <2>2, <3>1 DEF Hear, waiter, calls
  <2> QED BY <1>4, <2>1, <2>2 DEF SubscriberStep
<1>5. ASSUME NEW i \in Instances, Crash(i) PROVE TypeOK'
  <2>1. pc' \in [Calls -> {"idle", "lookup", "deliver", "publish", "await", "answered", "lost"}]
    BY <1>5 DEF Crash
  <2>2. inbox' \in [Instances -> SUBSET Calls] /\ hears' \in [Instances -> Calls \union {None}]
    BY <1>5 DEF Crash
  <2> QED BY <1>5, <2>1, <2>2 DEF Crash
<1>6. CASE UNCHANGED vars
  BY <1>6 DEF vars, waiter, calls, pubsub
<1> QED BY <1>1, <1>2, <1>3, <1>4, <1>5, <1>6 DEF Next

\* Every step keeps the decision single, in one place, cleared and truly told.
LEMMA SafeStep == TypeOK /\ Safe /\ [Next]_vars => Safe'
<1> SUFFICES ASSUME TypeOK, Safe, [Next]_vars PROVE Safe'
  OBVIOUS
<1> USE DEF Safe, OneDecision, OnePlace, Cleared, Authorized, Entitled, Told, Truthful, Undelivered
<1>1. CASE Register \/ Emit \/ Unregister
  BY <1>1 DEF Register, Emit, Unregister, calls, pubsub, TypeOK
<1>2. CASE Receive
  BY <1>2 DEF Receive, calls, pubsub, TypeOK
<1>3. ASSUME NEW d \in Outcomes, TimeOut(d) PROVE Safe'
  BY <1>3 DEF TimeOut, EndWith, deliver, calls, pubsub, TypeOK
<1>4. ASSUME NEW c \in Calls, NEW i \in Instances, NEW who \in Callers, Resolve(c, i, who)
      PROVE Safe'
  BY <1>4 DEF Resolve, Move, waiter, pubsub, TypeOK
<1>5. ASSUME NEW c \in Calls, Lookup(c) PROVE Safe'
  BY <1>5 DEF Lookup, Move, Return, Authorized, waiter, pubsub, TypeOK
<1>6. ASSUME NEW c \in Calls, Deliver(c) PROVE Safe'
  BY <1>6 DEF Deliver, deliver, Verdict, Move, Return, pubsub, TypeOK
<1>7. ASSUME NEW c \in Calls, Publish(c) PROVE Safe'
  BY <1>7 DEF Publish, Move, Return, waiter, TypeOK
<1>8. ASSUME NEW c \in Calls, ReadAck(c) PROVE Safe'
  BY <1>8 DEF ReadAck, Mine, Move, Return, waiter, TypeOK
<1>9. ASSUME NEW c \in Calls, GiveUp(c) PROVE Safe'
  BY <1>9 DEF GiveUp, Move, Return, waiter, TypeOK
<1>10. ASSUME NEW i \in Instances, DeliverHeard(i) PROVE Safe'
  <2>1. hears[i] \in Calls /\ Verdict \in Answers
    BY <1>10 DEF DeliverHeard, Verdict, Answers, TypeOK
  <2>2. \A d \in Calls : \A ack \in acks'[d] : ack \in acks[d] \/ ack = <<hears[i], Verdict>>
    BY <1>10, <2>1, AckAdds DEF DeliverHeard
  <2> QED BY <1>10, <2>1, <2>2 DEF DeliverHeard, deliver, Verdict, calls, TypeOK
<1>11. ASSUME NEW i \in Instances, NEW c \in Calls, Hear(i, c) PROVE Safe'
  <2>1. \A d \in Calls : \A ack \in acks'[d] : ack \in acks[d] \/ ack = <<c, "mismatch">>
    BY <1>11, AckAdds DEF Hear, Answers
  <2>2. UNCHANGED <<env, waiter, calls>>
    BY <1>11 DEF Hear
  <2>3. OneDecision' /\ Told'
    BY <1>11, <2>1, <2>2 DEF Hear, waiter, calls, TypeOK
  <2>4. OnePlace'
    BY <1>11, <2>2 DEF Hear, Found, waiter, calls, TypeOK
  <2>5. Cleared'
    BY <1>11, <2>2 DEF Hear, waiter, calls, TypeOK
  <2> QED BY <2>3, <2>4, <2>5
<1>12. ASSUME NEW i \in Instances, Crash(i) PROVE Safe'
  <2>1. wait' \in {wait, "dead"} /\ \A c \in Calls : pc'[c] \in {pc[c], "lost"}
    BY <1>12 DEF Crash, TypeOK
  <2>2. OneDecision' /\ Told'
    BY <1>12, <2>1 DEF Crash, TypeOK
  <2>3. OnePlace'
    BY <1>12, <2>1 DEF Crash, TypeOK
  <2>4. Cleared'
    BY <1>12, <2>1 DEF Crash, TypeOK
  <2> QED BY <2>2, <2>3, <2>4
<1>13. CASE UNCHANGED vars
  BY <1>13 DEF vars, waiter, calls, pubsub
<1> QED
  BY <1>1, <1>2, <1>3, <1>4, <1>5, <1>6, <1>7, <1>8, <1>9, <1>10, <1>11, <1>12, <1>13
  DEF Next, WaiterStep, CallStep, SubscriberStep

\* While messages arrive in time no decision and no acknowledgement gets lost.
LEMMA NoneLostStep == TypeOK /\ Safe /\ NoneLost /\ [Next]_vars => NoneLost'
<1> SUFFICES ASSUME TypeOK, Safe, NoneLost, [Next]_vars,
                    Without({"late", "loss", "redis", "crash"})
             PROVE \A c \in Calls : Followed(c)'
  BY DEF NoneLost, Without, Next, vars, WaiterStep, CallStep, SubscriberStep, Register, Emit,
     Receive, TimeOut, Unregister, Resolve, Lookup, Deliver, Publish, ReadAck, GiveUp, Hear,
     DeliverHeard, Crash
<1> SUFFICES ASSUME NEW e \in Calls PROVE Followed(e)'
  OBVIOUS
<1>0. /\ ~May("late") /\ ~May("loss") /\ ~May("redis") /\ ~May("crash")
      /\ Without({"loss", "redis"})
      /\ \A c \in Calls : Followed(c)
  BY DEF Without, May, NoneLost
<1> USE DEF Followed, Heard, Acknowledged, Undelivered
<1>1. CASE Register \/ Emit \/ Unregister
  BY <1>0, <1>1 DEF Register, Emit, Unregister, calls, pubsub
<1>2. CASE Receive
  BY <1>0, <1>2 DEF Receive, calls, pubsub, Safe, OneDecision
<1>3. ASSUME NEW d \in Outcomes, TimeOut(d) PROVE Followed(e)'
  BY <1>0, <1>3 DEF TimeOut, EndWith, deliver, calls, pubsub
<1>4. ASSUME NEW c \in Calls, NEW i \in Instances, NEW who \in Callers, Resolve(c, i, who)
      PROVE Followed(e)'
  BY <1>0, <1>4 DEF Resolve, Move, waiter, pubsub, TypeOK
<1>5. ASSUME NEW c \in Calls, Lookup(c) PROVE Followed(e)'
  BY <1>0, <1>5 DEF Lookup, Move, Return, waiter, pubsub, TypeOK, Safe, OnePlace
<1>6. ASSUME NEW c \in Calls, Deliver(c) PROVE Followed(e)'
  BY <1>0, <1>6 DEF Deliver, deliver, Verdict, Move, Return, pubsub, TypeOK
<1>7. ASSUME NEW c \in Calls, Publish(c) PROVE Followed(e)'
  BY <1>0, <1>7 DEF Publish, Move, Return, waiter, TypeOK, Safe, OnePlace
<1>8. ASSUME NEW c \in Calls, ReadAck(c) PROVE Followed(e)'
  BY <1>0, <1>8 DEF ReadAck, Mine, Move, Return, waiter, TypeOK
<1>9. ASSUME NEW c \in Calls, GiveUp(c) PROVE Followed(e)'
  BY <1>0, <1>9 DEF GiveUp, Expected, Move, Return, waiter, TypeOK
<1>10. ASSUME NEW i \in Instances, DeliverHeard(i) PROVE Followed(e)'
  <2>1. i = Owner /\ hears[i] \in Calls /\ Verdict \in Answers /\ Verdict # "not_found"
    BY <1>10 DEF DeliverHeard, Verdict, Answers, TypeOK, Safe, OnePlace
  <2>2. /\ \A d \in Calls : \A ack \in acks'[d] : ack \in acks[d] \/ ack = <<hears[i], Verdict>>
        /\ \A d \in Calls : acks[d] \subseteq acks'[d]
        /\ \A d \in Calls : pc[d] = "await" => <<hears[i], Verdict>> \in acks'[d]
    BY <1>0, <1>10, <2>1, AckAdds DEF DeliverHeard
  <2> QED BY <1>0, <1>10, <2>1, <2>2 DEF DeliverHeard, deliver, calls, TypeOK, Safe, OnePlace
<1>11. ASSUME NEW i \in Instances, NEW c \in Calls, Hear(i, c) PROVE Followed(e)'
  <2>1. CASE ~Found(i) \/ Authorized(c)
    BY <1>0, <1>11, <2>1 DEF Hear, Found, waiter, calls, TypeOK, Safe, OnePlace
  <2>2. CASE Found(i) /\ ~Authorized(c)
    <3>1. /\ \A d \in Calls : \A ack \in acks'[d] : ack \in acks[d] \/ ack = <<c, "mismatch">>
          /\ \A d \in Calls : acks[d] \subseteq acks'[d]
      BY <1>11, <2>2, AckAdds DEF Hear, Answers
    <3> QED BY <1>0, <1>11, <2>2, <3>1 DEF Hear, Found, waiter, calls, TypeOK, Safe, OnePlace
  <2> QED BY <2>1, <2>2
<1>12. CASE UNCHANGED vars
  BY <1>0, <1>12 DEF vars, waiter, calls, pubsub
<1> QED
  BY <1>0, <1>1, <1>2, <1>3, <1>4, <1>5, <1>6, <1>7, <1>8, <1>9, <1>10, <1>11, <1>12
  DEF Next, WaiterStep, CallStep, SubscriberStep, Crash

LEMMA Inductive == IInv /\ [Next]_vars => IInv'
BY TypeStep, SafeStep, NoneLostStep DEF IInv

LEMMA Invariant == Spec => []IInv
<1> QED BY InitIInv, Inductive, PTL DEF Spec

\* Whoever is told that the decision was taken over, or that another one was,
\* is told the truth, whichever instances and messages were in between: the tool
\* call gets that decision, or it fails and gets none.
THEOREM AnswersHold == Spec => [](TypeOK /\ AnswersAreTrue)
<1>1. IInv => TypeOK /\ AnswersAreTrue
  BY DEF IInv, TypeOK, Safe, Told, Truthful, OneDecision, Undelivered, AnswersAreTrue, Reaches, Aborted
<1> QED BY <1>1, Invariant, PTL

\* Nobody of another tenant decides, and nobody but the user of the session when
\* the waiter knows that user, whichever instance is asked.
THEOREM OwnerHolds == Spec => []OwnerDecides
<1>1. IInv => OwnerDecides
  BY DEF IInv, TypeOK, Safe, Cleared, Authorized, Entitled, OwnerDecides, Taken
<1> QED BY <1>1, Invariant, PTL

\* While messages arrive in time and nobody dies, a decision that its caller
\* was told is unknown has no effect.
THEOREM NotFoundHolds == Spec => []NotFoundIsTrue
<1>1. IInv => NotFoundIsTrue
  BY DEF IInv, NoneLost, Followed, Undelivered, NotFoundIsTrue, Taken, Without
<1> QED BY <1>1, Invariant, PTL
=============================================================================
