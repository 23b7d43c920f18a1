------------------------ MODULE SandboxSessionProofs ------------------------
(***************************************************************************)
(* Proofs about SandboxSession, for any calls, backends and faults: what   *)
(* the callers of a session hold is its one bound sandbox, nobody deletes  *)
(* it under them, and none is forgotten.                                   *)
(***************************************************************************)
EXTENDS SandboxSession, TLAPS

USE NoneAssumption, MaxAssumption, EnvironmentsAssumption

\* The steps at which a call relies on the binding it has read, and on the
\* sandbox it has created or picked.
SeenSteps == {"connect", "connectWinner", "destroy"} \union UnbindSteps
BoxSteps == BindSteps \union {"recheck", "duplicates", "whoWon", "cleanup"}

\* Whoever is about to drop a binding has found its sandbox gone, or uses
\* another backend.
MayDrop(c) == seen[c] \notin alive \/ back[seen[c]] # mgr[c]

CallOK(c) ==
  /\ pc[c] \in {"idle", "pin", "lock"} => seen[c] = None
  /\ pc[c] \in SeenSteps => seen[c] # None
  /\ pc[c] \in BoxSteps => box[c] # None
  /\ pc[c] \in LockedSteps /\ seen[c] # None => BoundOrGone(seen[c])
  /\ pc[c] \in UnbindSteps => MayDrop(c)
  /\ pc[c] = "return" /\ kind[c] = "execute" => box[c] # None /\ BoundOrGone(box[c])

IInv ==
  /\ TypeOK
  /\ LiveHandlesAreBound
  /\ \A c \in Calls : CallOK(c)


LEMMA InitIInv == Init => IInv
BY DEF Init, IInv, TypeOK, LiveHandlesAreBound, CallOK, PCs, LockedSteps, SeenSteps, BoxSteps,
       ReadSteps, BindSteps, UnbindSteps, DeleteSteps, Ended, Sandboxes

\* The names of the steps.
LEMMA Names ==
  /\ PCs = {"idle", "pin", "lock", "clear", "row", "read", "check", "connect", "list", "adopt",
            "winner", "connectWinner", "whoWon", "bindOwned", "bindNew", "unbind",
            "destroyUnbind", "duplicates", "cleanup", "destroy", "create", "recheck", "return",
            "fail", "done", "dead"}
  /\ LockedSteps = PCs \ {"idle", "pin", "lock", "clear", "row", "done", "dead"}
  /\ LockedSteps \subseteq PCs
BY DEF PCs, LockedSteps, ReadSteps, BindSteps, UnbindSteps, DeleteSteps, Ended

\* A creation takes the next number.
LEMMA CreatedFacts ==
  ASSUME TypeOK, NEW b \in Backends \union {None}, Created(b)
  PROVE  /\ made' = made + 1 /\ made' \in 0 .. MaxSandboxes
         /\ made + 1 \in 1 .. made' /\ made + 1 \notin 1 .. made
         /\ 1 .. made \subseteq 1 .. made'
         /\ back' \in [Sandboxes -> Backends \union {None}]
         /\ alive' \subseteq 1 .. made' /\ late' \subseteq 1 .. made'
         /\ alive' = alive \union {made + 1}
         /\ \A s \in 1 .. made : back'[s] = back[s]
<1>1. made \in Nat /\ made' = made + 1 /\ made' \in 0 .. MaxSandboxes
  BY DEF TypeOK, Created
<1>2. made + 1 \in 1 .. made' /\ made + 1 \notin 1 .. made /\ 1 .. made \subseteq 1 .. made'
  BY <1>1
<1>3. made + 1 \in Sandboxes
  BY <1>1 DEF Sandboxes
<1>4. back' = [back EXCEPT ![made + 1] = b] /\ alive' = alive \union {made + 1}
        /\ late' \subseteq late \union {made + 1}
  BY DEF Created
<1>5. back' \in [Sandboxes -> Backends \union {None}] /\ \A s \in 1 .. made : back'[s] = back[s]
  BY <1>1, <1>2, <1>3, <1>4 DEF TypeOK, Sandboxes
<1>6. alive' \subseteq 1 .. made' /\ late' \subseteq 1 .. made'
  BY <1>2, <1>4 DEF TypeOK
<1> QED BY <1>1, <1>2, <1>4, <1>5, <1>6

LEMMA TypeStep ==
  ASSUME IInv, Next
  PROVE  TypeOK'
<1> USE Names
<1> USE DEF TypeOK, Goto, At, Keep, store, cloud, calls, history, Rest, Read, UnchangedCloud,
            UnchangedBinding, Sandboxes
<1> USE DEF IInv
<1>1. ASSUME NEW c \in Calls, LockedStep(c) PROVE TypeOK'
  <2>1. CASE ReadBinding(c)
    BY <2>1 DEF ReadBinding, Teardown
  <2>2. CASE CheckSession(c)
    BY <2>2 DEF CheckSession, Teardown
  <2>3. CASE Connect(c)
    BY <2>3 DEF Connect
  <2>4. CASE Unbind(c)
    <3>1. CASE binding = seen[c]
      BY <2>4, <3>1 DEF Unbind, Drop
    <3>2. CASE binding # seen[c]
      BY <2>4, <3>2 DEF Unbind, Drop
    <3> QED BY <3>1, <3>2
  <2>5. CASE Destroy(c)
    BY <2>5 DEF Destroy, Deleted
  <2>6. CASE DestroyUnbind(c)
    BY <2>6 DEF DestroyUnbind, Drop
  <2>7. CASE List(c)
    BY <2>7 DEF List, Owned
  <2>8. CASE Adopt(c)
    <3>1. PICK s \in listed[c] : Oldest(c, s) /\ listed' = [listed EXCEPT ![c] = @ \ {s}]
            /\ IF s \in alive
                 THEN /\ box' = [box EXCEPT ![c] = s]
                      /\ Goto(c, IF listed[c] = {s} THEN "bindOwned" ELSE "duplicates")
                 ELSE /\ UNCHANGED box
                      /\ Goto(c, IF listed[c] = {s} THEN "create" ELSE "adopt")
      BY <2>8 DEF Adopt
    <3>2. s \in 1 .. made
      OBVIOUS
    <3>3. listed' \in [Calls -> SUBSET (1 .. made)]
      BY <3>1
    <3>4. box' \in [Calls -> (1 .. made) \union {None}]
      BY <3>1, <3>2
    <3>5. pc' \in [Calls -> PCs]
      BY <3>1
    <3> QED BY <2>8, <3>3, <3>4, <3>5 DEF Adopt
  <2>9. CASE Duplicates(c)
    BY <2>9 DEF Duplicates, Oldest
  <2>10. CASE BindSandbox(c)
    BY <2>10 DEF BindSandbox, Bind, BindSteps
  <2>11. CASE Winner(c)
    BY <2>11 DEF Winner
  <2>12. CASE ConnectWinner(c)
    BY <2>12 DEF ConnectWinner
  <2>13. CASE Create(c)
    <3>1. CASE made < MaxSandboxes
      <4>1. /\ made' \in 0 .. MaxSandboxes
            /\ made + 1 \in 1 .. made' /\ 1 .. made \subseteq 1 .. made'
            /\ back' \in [Sandboxes -> Backends \union {None}]
            /\ alive' \subseteq 1 .. made' /\ late' \subseteq 1 .. made'
        BY <2>13, <3>1, CreatedFacts DEF Create
      <4>2. box' = [box EXCEPT ![c] = made + 1] /\ pc' = [pc EXCEPT ![c] = "recheck"]
        BY <2>13, <3>1 DEF Create
      <4>3. (1 .. made) \union {None} \subseteq (1 .. made') \union {None}
        BY <4>1
      <4>4. box' \in [Calls -> (1 .. made') \union {None}] /\ pc' \in [Calls -> PCs]
        BY <4>1, <4>2, <4>3
      <4>5. /\ seen' \in [Calls -> (1 .. made') \union {None}]
            /\ listed' \in [Calls -> SUBSET (1 .. made')]
        <5>1. SUBSET (1 .. made) \subseteq SUBSET (1 .. made')
          BY <4>1
        <5> QED BY <2>13, <4>3, <5>1 DEF Create
      <4>6. binding' \in (1 .. made') \union {None} /\ abandoned' \subseteq 1 .. made'
              /\ given' \subseteq 1 .. made'
        BY <2>13, <4>1, <4>3 DEF Create
      <4> QED BY <2>13, <3>1, <4>1, <4>4, <4>5, <4>6 DEF Create
    <3>2. CASE ~(made < MaxSandboxes)
      BY <2>13, <3>2 DEF Create, Created
    <3> QED BY <3>1, <3>2
  <2>14. CASE Recheck(c)
    BY <2>14 DEF Recheck
  <2>15. CASE WhoWon(c)
    BY <2>15 DEF WhoWon
  <2>16. CASE Cleanup(c)
    BY <2>16 DEF Cleanup
  <2> QED BY <1>1, <2>1, <2>2, <2>3, <2>4, <2>5, <2>6, <2>7, <2>8, <2>9, <2>10, <2>11, <2>12, <2>13, <2>14, <2>15, <2>16 DEF LockedStep
<1>2. ASSUME NEW c \in Calls, OutsideStep(c) PROVE TypeOK'
  <2>1. CASE Pin(c)
    <3>1. CASE session /\ pin = None
      <4>1. pin' \in Backends \union {None}
        BY <2>1, <3>1 DEF Pin
      <4>2. mgr' \in [Calls -> Backends \union {None}]
        BY <2>1, <4>1, <3>1 DEF Pin
      <4>3. pc' \in [Calls -> PCs]
        BY <2>1, <3>1 DEF Pin
      <4> QED BY <2>1, <4>1, <4>2, <4>3 DEF Pin
    <3>2. CASE session /\ pin # None
      <4>1. pin' \in Backends \union {None}
        BY <2>1, <3>2 DEF Pin
      <4>2. mgr' \in [Calls -> Backends \union {None}]
        BY <2>1, <4>1, <3>2 DEF Pin
      <4>3. pc' \in [Calls -> PCs]
        BY <2>1, <3>2 DEF Pin
      <4> QED BY <2>1, <4>1, <4>2, <4>3 DEF Pin
    <3>3. CASE ~session
      BY <2>1, <3>3 DEF Pin
    <3> QED BY <3>1, <3>2, <3>3
  <2>2. CASE StartDeletion(c)
    <3>1. pc' \in [Calls -> PCs]
      BY <2>2 DEF StartDeletion
    <3>2. mgr' \in [Calls -> Backends \union {None}] /\ kind' \in [Calls -> {"execute", "delete"}]
      BY <2>2 DEF StartDeletion
    <3> QED BY <2>2, <3>1, <3>2 DEF StartDeletion
  <2>3. CASE Clear(c)
    BY <2>3 DEF Clear
  <2>4. CASE DeleteRow(c)
    BY <2>4 DEF DeleteRow
  <2>5. CASE Lock(c)
    BY <2>5 DEF Lock
  <2>6. CASE Return(c)
    <3>1. pc' \in [Calls -> PCs]
      BY <2>6 DEF Return, After
    <3>2. holder' \in Calls \union {None}
      BY <2>6 DEF Return, Release
    <3>3. given' \subseteq 1 .. made
      <4>1. ASSUME kind[c] = "execute" PROVE box[c] \in 1 .. made
        <5>1. CallOK(c) /\ pc[c] = "return"
          BY <2>6 DEF Return
        <5>2. box[c] # None
          BY <4>1, <5>1 DEF CallOK
        <5> QED BY <5>2
      <4>2. CASE kind[c] = "execute" /\ given' = given \union {box[c]}
        BY <4>1, <4>2
      <4>3. CASE given' = given
        BY <4>3
      <4> QED BY <2>6, <4>2, <4>3 DEF Return
    <3> QED BY <2>6, <3>1, <3>2, <3>3 DEF Return
  <2>7. CASE Fail(c)
    BY <2>7 DEF Fail, After, Release
  <2>8. ASSUME NEW b \in Backends, StartExecution(c, b) PROVE TypeOK'
    <3>1. pc' \in [Calls -> PCs]
      BY <2>8 DEF StartExecution
    <3>2. kind' \in [Calls -> {"execute", "delete"}]
      BY <2>8 DEF StartExecution
    <3>3. mgr' = [mgr EXCEPT ![c] = pin] \/ mgr' = [mgr EXCEPT ![c] = b]
      BY <2>8 DEF StartExecution
    <3>4. mgr' \in [Calls -> Backends \union {None}]
      BY <3>3
    <3> QED BY <2>8, <3>1, <3>2, <3>4 DEF StartExecution
  <2> QED BY <1>2, <2>1, <2>2, <2>3, <2>4, <2>5, <2>6, <2>7, <2>8 DEF OutsideStep
<1>3. ASSUME NEW c \in Calls, FaultStep(c) PROVE TypeOK'
  <2>1. CASE LoseLock(c)
    BY <2>1 DEF LoseLock
  <2>2. CASE NoticeLoss(c)
    BY <2>2 DEF NoticeLoss, After
  <2>3. CASE CleanupFails(c)
    BY <2>3 DEF CleanupFails, Oldest
  <2>4. CASE OutsideFails(c)
    <3>1. CASE pc[c] = "pin"
      <4>1. pin' \in {None, mgr[c], pin} /\ pc' = [pc EXCEPT ![c] = "done"]
        BY <2>4, <3>1 DEF OutsideFails
      <4> QED BY <2>4, <4>1 DEF OutsideFails
    <3>2. CASE pc[c] = "lock"
      BY <2>4, <3>2 DEF OutsideFails, After
    <3> QED BY <2>4, <3>1, <3>2 DEF OutsideFails
  <2>5. CASE Cancel(c)
    BY <2>5 DEF Cancel
  <2>6. CASE Crash(c)
    BY <2>6 DEF Crash
  <2>7. CASE DestroyFails(c)
    BY <2>7 DEF DestroyFails, Deleted
  <2>8. CASE ReadFails(c)
    BY <2>8 DEF ReadFails, ReadSteps
  <2>9. CASE UnbindFails(c)
    BY <2>9 DEF UnbindFails, Drop
  <2>10. CASE BindFails(c)
    <3>1. CASE binding' = binding /\ abandoned' = abandoned
      BY <2>10, <3>1 DEF BindFails, Bind
    <3>2. CASE binding = None /\ binding' = box[c] /\ abandoned' = abandoned \ {box[c]}
      BY <2>10, <3>2 DEF BindFails, Bind
    <3> QED BY <2>10, <3>1, <3>2 DEF BindFails, Bind
  <2>11. CASE CreateFails(c)
    <3>1. pc' \in [Calls -> PCs]
      BY <2>11 DEF CreateFails
    <3>2. CASE Created(mgr[c]) /\ UNCHANGED pending
      BY <2>11, <3>1, <3>2 DEF CreateFails, Created
    <3>3. CASE UNCHANGED <<made, back, alive, late>>
      <4>1. pending' \subseteq Backends \union {None}
        BY <2>11 DEF CreateFails
      <4> QED BY <2>11, <3>1, <3>3, <4>1 DEF CreateFails
    <3> QED BY <2>11, <3>2, <3>3 DEF CreateFails
  <2> QED BY <1>3, <2>1, <2>2, <2>3, <2>4, <2>5, <2>6, <2>7, <2>8, <2>9, <2>10, <2>11 DEF FaultStep, StepFails
<1>4. CASE ExpireLock
  BY <1>4 DEF ExpireLock
<1>5. CASE CreatedLate
  BY <1>5 DEF CreatedLate, Created
<1>6. CASE Restart
  BY <1>6 DEF Restart
<1>7. ASSUME NEW s \in Sandboxes, Kill(s) PROVE TypeOK'
  BY <1>7 DEF Kill
<1> QED BY <1>1, <1>2, <1>3, <1>4, <1>5, <1>6, <1>7 DEF Next

-----------------------------------------------------------------------------
(* What a step may do to the sandboxes that were there before it.          *)

\* No binding of a live sandbox is lost, but to another backend.
Keeps == \A s \in 1 .. made : BoundOrGone(s) => BoundOrGone(s)'

\* Nothing comes back to life, nothing changes its backend.
Ages == \A s \in 1 .. made : (s \in alive' => s \in alive) /\ back'[s] = back[s]

\* The other calls are left alone.
Alone(c) ==
  \A d \in Calls \ {c} :
    /\ pc'[d] = pc[d] /\ kind'[d] = kind[d] /\ mgr'[d] = mgr[d]
    /\ seen'[d] = seen[d] /\ box'[d] = box[d]

\* A handle is given away only if its sandbox is bound.
Gives == \A s \in given' : s \in given \/ BoundOrGone(s)'

LEMMA OthersOK ==
  ASSUME IInv, NEW c \in Calls, Keeps, Ages, Alone(c), CallOK(c)', Gives
  PROVE  LiveHandlesAreBound' /\ \A d \in Calls : CallOK(d)'
<1>1. ASSUME NEW d \in Calls, d # c PROVE CallOK(d)'
  <2>1. /\ pc'[d] = pc[d] /\ kind'[d] = kind[d] /\ mgr'[d] = mgr[d]
        /\ seen'[d] = seen[d] /\ box'[d] = box[d]
    BY <1>1 DEF Alone
  <2>2. CallOK(d)
    BY DEF IInv
  <2>3. seen[d] \in (1 .. made) \union {None} /\ box[d] \in (1 .. made) \union {None}
    BY DEF IInv, TypeOK
  <2>4. seen[d] # None => (BoundOrGone(seen[d]) => BoundOrGone(seen[d])')
    BY <2>1, <2>3 DEF Keeps, BoundOrGone
  <2>5. box[d] # None => (BoundOrGone(box[d]) => BoundOrGone(box[d])')
    BY <2>1, <2>3 DEF Keeps, BoundOrGone
  <2>6. ASSUME pc[d] \in UnbindSteps PROVE MayDrop(d)'
    <3>1. seen[d] \in 1 .. made /\ MayDrop(d)
      BY <2>2, <2>3, <2>6 DEF CallOK, SeenSteps
    <3>2. (seen[d] \in alive' => seen[d] \in alive) /\ back'[seen[d]] = back[seen[d]]
      BY <3>1 DEF Ages
    <3> QED BY <2>1, <3>1, <3>2 DEF MayDrop
  <2>7. pc[d] \in LockedSteps /\ seen[d] # None => BoundOrGone(seen[d])'
    BY <2>2, <2>4, <2>1 DEF CallOK, BoundOrGone
  <2>8. pc[d] = "return" /\ kind[d] = "execute" => box[d] # None /\ BoundOrGone(box[d])'
    BY <2>2, <2>5, <2>1 DEF CallOK, BoundOrGone
  <2> QED BY <2>1, <2>2, <2>6, <2>7, <2>8 DEF CallOK
<1>2. ASSUME NEW s \in given PROVE BoundOrGone(s)'
  BY <1>2 DEF IInv, TypeOK, LiveHandlesAreBound, Keeps
<1> QED BY <1>1, <1>2 DEF Gives, LiveHandlesAreBound, BoundOrGone

LEMMA ShrinkKeeps ==
  ASSUME TypeOK, UNCHANGED <<binding, abandoned>>, Ages
  PROVE  Keeps
BY DEF Keeps, Ages, BoundOrGone, TypeOK

LEMMA DropKeeps ==
  ASSUME IInv, NEW c \in Calls, pc[c] \in UnbindSteps, Drop(c), UNCHANGED alive
  PROVE  Keeps
<1>1. seen[c] # None /\ MayDrop(c)
  BY DEF IInv, CallOK, SeenSteps
<1> QED BY <1>1 DEF Keeps, Drop, MayDrop, BoundOrGone, UnchangedBinding

LEMMA BindKeeps ==
  ASSUME IInv, NEW c \in Calls, Bind(c), UNCHANGED alive
  PROVE  Keeps
BY DEF IInv, TypeOK, Keeps, Bind, BoundOrGone, UnchangedBinding, Sandboxes

LEMMA AgesIfSame ==
  ASSUME TypeOK, UNCHANGED back, alive' \subseteq alive
  PROVE  Ages
BY DEF Ages

LEMMA AgesIfCreated ==
  ASSUME TypeOK, NEW b \in Backends \union {None}, Created(b)
  PROVE  Ages
BY CreatedFacts DEF Ages

-----------------------------------------------------------------------------
(* Every step keeps the invariant.                                         *)

Moves(c) == Keeps /\ Ages /\ Alone(c) /\ CallOK(c)' /\ Gives

LEMMA LockedMoves ==
  ASSUME IInv, NEW c \in Calls, LockedStep(c)
  PROVE  Moves(c)
<1> USE Names
<1> USE DEF Goto, At, Keep, store, cloud, calls, history, Rest, Read, UnchangedCloud, UnchangedBinding
<1>a. TypeOK /\ CallOK(c) /\ LiveHandlesAreBound
  BY DEF IInv
<1>1. CASE ReadBinding(c)
  <2>1. Ages
    BY <1>1, <1>a, AgesIfSame, AgesIfCreated DEF ReadBinding, Teardown, TypeOK
  <2>2. Keeps
    BY <1>1, <1>a, <2>1, ShrinkKeeps, DropKeeps, BindKeeps DEF ReadBinding, Teardown
  <2>3. Alone(c)
    BY <1>1, <1>a DEF ReadBinding, Teardown, Alone, TypeOK
  <2>4. CallOK(c)'
    BY <1>1, <1>a, <2>1, <2>2 DEF ReadBinding, Teardown, SameProvider, CallOK, BoundOrGone, MayDrop, SeenSteps, BoxSteps, BindSteps, UnbindSteps, TypeOK, Keeps
  <2>5. Gives
    BY <1>1, <1>a DEF ReadBinding, Teardown, Gives
  <2> QED BY <2>1, <2>2, <2>3, <2>4, <2>5 DEF Moves
<1>2. CASE CheckSession(c)
  <2>1. Ages
    BY <1>2, <1>a, AgesIfSame, AgesIfCreated DEF CheckSession, Teardown, TypeOK
  <2>2. Keeps
    BY <1>2, <1>a, <2>1, ShrinkKeeps, DropKeeps, BindKeeps DEF CheckSession, Teardown
  <2>3. Alone(c)
    BY <1>2, <1>a DEF CheckSession, Teardown, Alone, TypeOK
  <2>4. CallOK(c)'
    BY <1>2, <1>a, <2>1, <2>2 DEF CheckSession, Teardown, SameProvider, CallOK, BoundOrGone, MayDrop, SeenSteps, BoxSteps, BindSteps, UnbindSteps, TypeOK, Keeps
  <2>5. Gives
    BY <1>2, <1>a DEF CheckSession, Teardown, Gives
  <2> QED BY <2>1, <2>2, <2>3, <2>4, <2>5 DEF Moves
<1>3. CASE Connect(c)
  <2>1. Ages
    BY <1>3, <1>a, AgesIfSame, AgesIfCreated DEF Connect, TypeOK
  <2>2. Keeps
    BY <1>3, <1>a, <2>1, ShrinkKeeps, DropKeeps, BindKeeps DEF Connect
  <2>3. Alone(c)
    BY <1>3, <1>a DEF Connect, Alone, TypeOK
  <2>4. CallOK(c)'
    BY <1>3, <1>a, <2>1, <2>2 DEF Connect, Found, Reachable, CallOK, BoundOrGone, MayDrop, SeenSteps, BoxSteps, BindSteps, UnbindSteps, TypeOK, Keeps
  <2>5. Gives
    BY <1>3, <1>a DEF Connect, Gives
  <2> QED BY <2>1, <2>2, <2>3, <2>4, <2>5 DEF Moves
<1>4. CASE Unbind(c)
  <2>1. Ages
    BY <1>4, <1>a, AgesIfSame, AgesIfCreated DEF Unbind, Drop, TypeOK
  <2>2. Keeps
    BY <1>4, <1>a, <2>1, ShrinkKeeps, DropKeeps, BindKeeps DEF UnbindSteps, Unbind, Drop
  <2>3. Alone(c)
    BY <1>4, <1>a DEF Unbind, Drop, Alone, TypeOK
  <2>4. CallOK(c)'
    BY <1>4, <1>a, <2>1, <2>2 DEF Unbind, Drop, CallOK, BoundOrGone, MayDrop, SeenSteps, BoxSteps, BindSteps, UnbindSteps, TypeOK, Keeps
  <2>5. Gives
    BY <1>4, <1>a DEF Unbind, Drop, Gives
  <2> QED BY <2>1, <2>2, <2>3, <2>4, <2>5 DEF Moves
<1>5. CASE Destroy(c)
  <2>1. Ages
    BY <1>5, <1>a, AgesIfSame, AgesIfCreated DEF Destroy, Deleted, TypeOK
  <2>2. Keeps
    BY <1>5, <1>a, <2>1, ShrinkKeeps, DropKeeps, BindKeeps DEF Destroy
  <2>3. Alone(c)
    BY <1>5, <1>a DEF Destroy, Alone, TypeOK
  <2>4. CallOK(c)'
    BY <1>5, <1>a, <2>1, <2>2 DEF Destroy, Deleted, Found, Reachable, CallOK, BoundOrGone, MayDrop, SeenSteps, BoxSteps, BindSteps, UnbindSteps, TypeOK, Keeps
  <2>5. Gives
    BY <1>5, <1>a DEF Destroy, Gives
  <2> QED BY <2>1, <2>2, <2>3, <2>4, <2>5 DEF Moves
<1>6. CASE DestroyUnbind(c)
  <2>1. Ages
    BY <1>6, <1>a, AgesIfSame, AgesIfCreated DEF DestroyUnbind, Drop, TypeOK
  <2>2. Keeps
    BY <1>6, <1>a, <2>1, ShrinkKeeps, DropKeeps, BindKeeps DEF UnbindSteps, DestroyUnbind, Drop
  <2>3. Alone(c)
    BY <1>6, <1>a DEF DestroyUnbind, Drop, Alone, TypeOK
  <2>4. CallOK(c)'
    BY <1>6, <1>a, <2>1, <2>2 DEF DestroyUnbind, Drop, CallOK, BoundOrGone, MayDrop, SeenSteps, BoxSteps, BindSteps, UnbindSteps, TypeOK, Keeps
  <2>5. Gives
    BY <1>6, <1>a DEF DestroyUnbind, Drop, Gives
  <2> QED BY <2>1, <2>2, <2>3, <2>4, <2>5 DEF Moves
<1>7. CASE List(c)
  <2>1. Ages
    BY <1>7, <1>a, AgesIfSame, AgesIfCreated DEF List, Owned, TypeOK
  <2>2. Keeps
    BY <1>7, <1>a, <2>1, ShrinkKeeps, DropKeeps, BindKeeps DEF List, Owned
  <2>3. Alone(c)
    BY <1>7, <1>a DEF List, Owned, Alone, TypeOK
  <2>4. CallOK(c)'
    BY <1>7, <1>a, <2>1, <2>2 DEF List, Owned, CallOK, BoundOrGone, MayDrop, SeenSteps, BoxSteps, BindSteps, UnbindSteps, TypeOK, Keeps
  <2>5. Gives
    BY <1>7, <1>a DEF List, Owned, Gives
  <2> QED BY <2>1, <2>2, <2>3, <2>4, <2>5 DEF Moves
<1>8. CASE Adopt(c)
  <2>1. Ages
    BY <1>8, <1>a, AgesIfSame, AgesIfCreated DEF Adopt, Oldest, TypeOK
  <2>2. Keeps
    BY <1>8, <1>a, <2>1, ShrinkKeeps, DropKeeps, BindKeeps DEF Adopt, Oldest
  <2>3. Alone(c)
    BY <1>8, <1>a DEF Adopt, Oldest, Alone, TypeOK
  <2>4. CallOK(c)'
    <3>1. PICK s \in listed[c] :
            IF s \in alive
              THEN /\ box' = [box EXCEPT ![c] = s]
                   /\ Goto(c, IF listed[c] = {s} THEN "bindOwned" ELSE "duplicates")
              ELSE /\ UNCHANGED box
                   /\ Goto(c, IF listed[c] = {s} THEN "create" ELSE "adopt")
      BY <1>8 DEF Adopt
    <3>2. s \in 1 .. made /\ s # None
      BY <1>a DEF TypeOK, Sandboxes
    <3>3. pc'[c] \in {"create", "adopt"} \/ (pc'[c] \in {"bindOwned", "duplicates"} /\ box'[c] # None)
      BY <1>a, <3>1, <3>2 DEF TypeOK
    <3>4. seen' = seen /\ pc[c] \in LockedSteps /\ seen[c] \in (1 .. made) \union {None}
      BY <1>8, <1>a DEF Adopt, TypeOK
    <3>5. seen[c] # None => BoundOrGone(seen[c])'
      BY <1>a, <2>2, <3>4 DEF CallOK, Keeps, BoundOrGone
    <3> QED BY <3>3, <3>4, <3>5 DEF CallOK, SeenSteps, BoxSteps, BindSteps, UnbindSteps
  <2>5. Gives
    BY <1>8, <1>a DEF Adopt, Oldest, Gives
  <2> QED BY <2>1, <2>2, <2>3, <2>4, <2>5 DEF Moves
<1>9. CASE Duplicates(c)
  <2>1. Ages
    BY <1>9, <1>a, AgesIfSame, AgesIfCreated DEF Duplicates, Oldest, TypeOK
  <2>2. Keeps
    BY <1>9, <1>a, <2>1, ShrinkKeeps, DropKeeps, BindKeeps DEF Duplicates, Oldest
  <2>3. Alone(c)
    BY <1>9, <1>a DEF Duplicates, Oldest, Alone, TypeOK
  <2>4. CallOK(c)'
    BY <1>9, <1>a, <2>1, <2>2 DEF Duplicates, Oldest, CallOK, BoundOrGone, MayDrop, SeenSteps, BoxSteps, BindSteps, UnbindSteps, TypeOK, Keeps
  <2>5. Gives
    BY <1>9, <1>a DEF Duplicates, Oldest, Gives
  <2> QED BY <2>1, <2>2, <2>3, <2>4, <2>5 DEF Moves
<1>10. CASE BindSandbox(c)
  <2>1. Ages
    BY <1>10, <1>a, AgesIfSame, AgesIfCreated DEF BindSandbox, Bind, TypeOK
  <2>2. Keeps
    BY <1>10, <1>a, <2>1, ShrinkKeeps, DropKeeps, BindKeeps DEF BindSandbox, Bind
  <2>3. Alone(c)
    BY <1>10, <1>a DEF BindSandbox, Bind, Alone, TypeOK
  <2>4. CallOK(c)'
    BY <1>10, <1>a, <2>1, <2>2 DEF BindSandbox, Bind, CallOK, BoundOrGone, MayDrop, SeenSteps, BoxSteps, BindSteps, UnbindSteps, TypeOK, Keeps
  <2>5. Gives
    BY <1>10, <1>a DEF BindSandbox, Bind, Gives
  <2> QED BY <2>1, <2>2, <2>3, <2>4, <2>5 DEF Moves
<1>11. CASE Winner(c)
  <2>1. Ages
    BY <1>11, <1>a, AgesIfSame, AgesIfCreated DEF Winner, TypeOK
  <2>2. Keeps
    BY <1>11, <1>a, <2>1, ShrinkKeeps, DropKeeps, BindKeeps DEF Winner
  <2>3. Alone(c)
    BY <1>11, <1>a DEF Winner, Alone, TypeOK
  <2>4. CallOK(c)'
    BY <1>11, <1>a, <2>1, <2>2 DEF Winner, CallOK, BoundOrGone, MayDrop, SeenSteps, BoxSteps, BindSteps, UnbindSteps, TypeOK, Keeps
  <2>5. Gives
    BY <1>11, <1>a DEF Winner, Gives
  <2> QED BY <2>1, <2>2, <2>3, <2>4, <2>5 DEF Moves
<1>12. CASE ConnectWinner(c)
  <2>1. Ages
    BY <1>12, <1>a, AgesIfSame, AgesIfCreated DEF ConnectWinner, TypeOK
  <2>2. Keeps
    BY <1>12, <1>a, <2>1, ShrinkKeeps, DropKeeps, BindKeeps DEF ConnectWinner
  <2>3. Alone(c)
    BY <1>12, <1>a DEF ConnectWinner, Alone, TypeOK
  <2>4. CallOK(c)'
    BY <1>12, <1>a, <2>1, <2>2 DEF ConnectWinner, CallOK, BoundOrGone, MayDrop, SeenSteps, BoxSteps, BindSteps, UnbindSteps, TypeOK, Keeps
  <2>5. Gives
    BY <1>12, <1>a DEF ConnectWinner, Gives
  <2> QED BY <2>1, <2>2, <2>3, <2>4, <2>5 DEF Moves
<1>13. CASE Create(c)
  <2>1. Ages
    BY <1>13, <1>a, AgesIfSame, AgesIfCreated DEF Create, TypeOK
  <2>2. Keeps
    BY <1>13, <1>a, <2>1, ShrinkKeeps, DropKeeps, BindKeeps DEF Create
  <2>3. Alone(c)
    BY <1>13, <1>a DEF Create, Alone, TypeOK
  <2>4. CallOK(c)'
    <3>1. pc'[c] = "fail" \/ (pc'[c] = "recheck" /\ box'[c] # None)
      <4>1. made \in Nat /\ (made < MaxSandboxes => made + 1 \in Sandboxes)
        BY <1>a DEF TypeOK, Sandboxes
      <4> QED BY <1>13, <1>a, <4>1 DEF Create, TypeOK
    <3>2. seen' = seen /\ pc[c] \in LockedSteps /\ seen[c] \in (1 .. made) \union {None}
      BY <1>13, <1>a DEF Create, TypeOK
    <3>3. seen[c] # None => BoundOrGone(seen[c])'
      BY <1>a, <2>2, <3>2 DEF CallOK, Keeps, BoundOrGone
    <3> QED BY <3>1, <3>2, <3>3 DEF CallOK, SeenSteps, BoxSteps, BindSteps, UnbindSteps
  <2>5. Gives
    BY <1>13, <1>a DEF Create, Gives
  <2> QED BY <2>1, <2>2, <2>3, <2>4, <2>5 DEF Moves
<1>14. CASE Recheck(c)
  <2>1. Ages
    BY <1>14, <1>a, AgesIfSame, AgesIfCreated DEF Recheck, TypeOK
  <2>2. Keeps
    BY <1>14, <1>a, <2>1, ShrinkKeeps, DropKeeps, BindKeeps DEF Recheck
  <2>3. Alone(c)
    BY <1>14, <1>a DEF Recheck, Alone, TypeOK
  <2>4. CallOK(c)'
    BY <1>14, <1>a, <2>1, <2>2 DEF Recheck, CallOK, BoundOrGone, MayDrop, SeenSteps, BoxSteps, BindSteps, UnbindSteps, TypeOK, Keeps
  <2>5. Gives
    BY <1>14, <1>a DEF Recheck, Gives
  <2> QED BY <2>1, <2>2, <2>3, <2>4, <2>5 DEF Moves
<1>15. CASE WhoWon(c)
  <2>1. Ages
    BY <1>15, <1>a, AgesIfSame, AgesIfCreated DEF WhoWon, TypeOK
  <2>2. Keeps
    BY <1>15, <1>a, <2>1, ShrinkKeeps, DropKeeps, BindKeeps DEF WhoWon
  <2>3. Alone(c)
    BY <1>15, <1>a DEF WhoWon, Alone, TypeOK
  <2>4. CallOK(c)'
    BY <1>15, <1>a, <2>1, <2>2 DEF WhoWon, CallOK, BoundOrGone, MayDrop, SeenSteps, BoxSteps, BindSteps, UnbindSteps, TypeOK, Keeps
  <2>5. Gives
    BY <1>15, <1>a DEF WhoWon, Gives
  <2> QED BY <2>1, <2>2, <2>3, <2>4, <2>5 DEF Moves
<1>16. CASE Cleanup(c)
  <2>1. Ages
    BY <1>16, <1>a, AgesIfSame, AgesIfCreated DEF Cleanup, TypeOK
  <2>2. Keeps
    BY <1>16, <1>a, <2>1, ShrinkKeeps, DropKeeps, BindKeeps DEF Cleanup
  <2>3. Alone(c)
    BY <1>16, <1>a DEF Cleanup, Alone, TypeOK
  <2>4. CallOK(c)'
    BY <1>16, <1>a, <2>1, <2>2 DEF Cleanup, CallOK, BoundOrGone, MayDrop, SeenSteps, BoxSteps, BindSteps, UnbindSteps, TypeOK, Keeps
  <2>5. Gives
    BY <1>16, <1>a DEF Cleanup, Gives
  <2> QED BY <2>1, <2>2, <2>3, <2>4, <2>5 DEF Moves
<1> QED BY <1>1, <1>2, <1>3, <1>4, <1>5, <1>6, <1>7, <1>8, <1>9, <1>10, <1>11, <1>12, <1>13, <1>14, <1>15, <1>16 DEF LockedStep

LEMMA OutsideMoves ==
  ASSUME IInv, NEW c \in Calls, OutsideStep(c)
  PROVE  Moves(c)
<1> USE Names
<1> USE DEF Goto, At, Keep, store, cloud, calls, history, Rest, Read, UnchangedCloud, UnchangedBinding
<1>a. TypeOK /\ CallOK(c) /\ LiveHandlesAreBound
  BY DEF IInv
<1>1. ASSUME NEW b \in Backends, StartExecution(c, b) PROVE Moves(c)
  <2>1. Ages
    BY <1>1, <1>a, AgesIfSame, AgesIfCreated DEF StartExecution, TypeOK
  <2>2. Keeps
    BY <1>1, <1>a, <2>1, ShrinkKeeps, DropKeeps, BindKeeps DEF StartExecution
  <2>3. Alone(c)
    BY <1>1, <1>a DEF StartExecution, Alone, TypeOK
  <2>4. CallOK(c)'
    BY <1>1, <1>a, <2>1, <2>2 DEF StartExecution, CallOK, BoundOrGone, MayDrop, SeenSteps, BoxSteps, BindSteps, UnbindSteps, TypeOK, Keeps
  <2>5. Gives
    BY <1>1, <1>a DEF StartExecution, Gives
  <2> QED BY <2>1, <2>2, <2>3, <2>4, <2>5 DEF Moves
<1>2. CASE Pin(c)
  <2>1. Ages
    BY <1>2, <1>a, AgesIfSame, AgesIfCreated DEF Pin, TypeOK
  <2>2. Keeps
    BY <1>2, <1>a, <2>1, ShrinkKeeps, DropKeeps, BindKeeps DEF Pin
  <2>3. Alone(c)
    BY <1>2, <1>a DEF Pin, Alone, TypeOK
  <2>4. CallOK(c)'
    BY <1>2, <1>a, <2>1, <2>2 DEF Pin, CallOK, BoundOrGone, MayDrop, SeenSteps, BoxSteps, BindSteps, UnbindSteps, TypeOK, Keeps
  <2>5. Gives
    BY <1>2, <1>a DEF Pin, Gives
  <2> QED BY <2>1, <2>2, <2>3, <2>4, <2>5 DEF Moves
<1>3. CASE StartDeletion(c)
  <2>1. Ages
    BY <1>3, <1>a, AgesIfSame, AgesIfCreated DEF StartDeletion, TypeOK
  <2>2. Keeps
    BY <1>3, <1>a, <2>1, ShrinkKeeps, DropKeeps, BindKeeps DEF StartDeletion
  <2>3. Alone(c)
    BY <1>3, <1>a DEF StartDeletion, Alone, TypeOK
  <2>4. CallOK(c)'
    BY <1>3, <1>a, <2>1, <2>2 DEF StartDeletion, CallOK, BoundOrGone, MayDrop, SeenSteps, BoxSteps, BindSteps, UnbindSteps, TypeOK, Keeps
  <2>5. Gives
    BY <1>3, <1>a DEF StartDeletion, Gives
  <2> QED BY <2>1, <2>2, <2>3, <2>4, <2>5 DEF Moves
<1>4. CASE Clear(c)
  <2>1. Ages
    BY <1>4, <1>a, AgesIfSame, AgesIfCreated DEF Clear, TypeOK
  <2>2. Keeps
    BY <1>4, <1>a, <2>1, ShrinkKeeps, DropKeeps, BindKeeps DEF Clear
  <2>3. Alone(c)
    BY <1>4, <1>a DEF Clear, Alone, TypeOK
  <2>4. CallOK(c)'
    BY <1>4, <1>a, <2>1, <2>2 DEF Clear, CallOK, BoundOrGone, MayDrop, SeenSteps, BoxSteps, BindSteps, UnbindSteps, TypeOK, Keeps
  <2>5. Gives
    BY <1>4, <1>a DEF Clear, Gives
  <2> QED BY <2>1, <2>2, <2>3, <2>4, <2>5 DEF Moves
<1>5. CASE DeleteRow(c)
  <2>1. Ages
    BY <1>5, <1>a, AgesIfSame, AgesIfCreated DEF DeleteRow, TypeOK
  <2>2. Keeps
    BY <1>5, <1>a, <2>1, ShrinkKeeps, DropKeeps, BindKeeps DEF DeleteRow
  <2>3. Alone(c)
    BY <1>5, <1>a DEF DeleteRow, Alone, TypeOK
  <2>4. CallOK(c)'
    BY <1>5, <1>a, <2>1, <2>2 DEF DeleteRow, CallOK, BoundOrGone, MayDrop, SeenSteps, BoxSteps, BindSteps, UnbindSteps, TypeOK, Keeps
  <2>5. Gives
    BY <1>5, <1>a DEF DeleteRow, Gives
  <2> QED BY <2>1, <2>2, <2>3, <2>4, <2>5 DEF Moves
<1>6. CASE Lock(c)
  <2>1. Ages
    BY <1>6, <1>a, AgesIfSame, AgesIfCreated DEF Lock, TypeOK
  <2>2. Keeps
    BY <1>6, <1>a, <2>1, ShrinkKeeps, DropKeeps, BindKeeps DEF Lock
  <2>3. Alone(c)
    BY <1>6, <1>a DEF Lock, Alone, TypeOK
  <2>4. CallOK(c)'
    BY <1>6, <1>a, <2>1, <2>2 DEF Lock, CallOK, BoundOrGone, MayDrop, SeenSteps, BoxSteps, BindSteps, UnbindSteps, TypeOK, Keeps
  <2>5. Gives
    BY <1>6, <1>a DEF Lock, Gives
  <2> QED BY <2>1, <2>2, <2>3, <2>4, <2>5 DEF Moves
<1>7. CASE Return(c)
  <2>1. Ages
    BY <1>7, <1>a, AgesIfSame, AgesIfCreated DEF Return, After, Release, TypeOK
  <2>2. Keeps
    BY <1>7, <1>a, <2>1, ShrinkKeeps, DropKeeps, BindKeeps DEF Return, After, Release
  <2>3. Alone(c)
    BY <1>7, <1>a DEF Return, After, Release, Alone, TypeOK
  <2>4. CallOK(c)'
    BY <1>7, <1>a, <2>1, <2>2 DEF Return, After, Release, CallOK, BoundOrGone, MayDrop, SeenSteps, BoxSteps, BindSteps, UnbindSteps, TypeOK, Keeps
  <2>5. Gives
    BY <1>7, <1>a DEF Return, After, Release, Gives, CallOK, BoundOrGone
  <2> QED BY <2>1, <2>2, <2>3, <2>4, <2>5 DEF Moves
<1>8. CASE Fail(c)
  <2>1. Ages
    BY <1>8, <1>a, AgesIfSame, AgesIfCreated DEF Fail, After, Release, TypeOK
  <2>2. Keeps
    BY <1>8, <1>a, <2>1, ShrinkKeeps, DropKeeps, BindKeeps DEF Fail, After, Release
  <2>3. Alone(c)
    BY <1>8, <1>a DEF Fail, After, Release, Alone, TypeOK
  <2>4. CallOK(c)'
    BY <1>8, <1>a, <2>1, <2>2 DEF Fail, After, Release, CallOK, BoundOrGone, MayDrop, SeenSteps, BoxSteps, BindSteps, UnbindSteps, TypeOK, Keeps
  <2>5. Gives
    BY <1>8, <1>a DEF Fail, After, Release, Gives
  <2> QED BY <2>1, <2>2, <2>3, <2>4, <2>5 DEF Moves
<1> QED BY <1>1, <1>2, <1>3, <1>4, <1>5, <1>6, <1>7, <1>8 DEF OutsideStep

LEMMA FaultMoves ==
  ASSUME IInv, NEW c \in Calls, FaultStep(c)
  PROVE  Moves(c)
<1> USE Names
<1> USE DEF Goto, At, Keep, store, cloud, calls, history, Rest, Read, UnchangedCloud, UnchangedBinding
<1>a. TypeOK /\ CallOK(c) /\ LiveHandlesAreBound
  BY DEF IInv
<1>1. CASE LoseLock(c)
  <2>1. Ages
    BY <1>1, <1>a, AgesIfSame, AgesIfCreated DEF LoseLock, TypeOK
  <2>2. Keeps
    BY <1>1, <1>a, <2>1, ShrinkKeeps, DropKeeps, BindKeeps DEF LoseLock
  <2>3. Alone(c)
    BY <1>1, <1>a DEF LoseLock, Alone, TypeOK
  <2>4. CallOK(c)'
    BY <1>1, <1>a, <2>1, <2>2 DEF LoseLock, CallOK, BoundOrGone, MayDrop, SeenSteps, BoxSteps, BindSteps, UnbindSteps, TypeOK, Keeps
  <2>5. Gives
    BY <1>1, <1>a DEF LoseLock, Gives
  <2> QED BY <2>1, <2>2, <2>3, <2>4, <2>5 DEF Moves
<1>2. CASE NoticeLoss(c)
  <2>1. Ages
    BY <1>2, <1>a, AgesIfSame, AgesIfCreated DEF NoticeLoss, After, TypeOK
  <2>2. Keeps
    BY <1>2, <1>a, <2>1, ShrinkKeeps, DropKeeps, BindKeeps DEF NoticeLoss, After
  <2>3. Alone(c)
    BY <1>2, <1>a DEF NoticeLoss, After, Alone, TypeOK
  <2>4. CallOK(c)'
    BY <1>2, <1>a, <2>1, <2>2 DEF NoticeLoss, After, CallOK, BoundOrGone, MayDrop, SeenSteps, BoxSteps, BindSteps, UnbindSteps, TypeOK, Keeps
  <2>5. Gives
    BY <1>2, <1>a DEF NoticeLoss, After, Gives
  <2> QED BY <2>1, <2>2, <2>3, <2>4, <2>5 DEF Moves
<1>3. CASE CleanupFails(c)
  <2>1. Ages
    BY <1>3, <1>a, AgesIfSame, AgesIfCreated DEF CleanupFails, Oldest, TypeOK
  <2>2. Keeps
    BY <1>3, <1>a, <2>1, ShrinkKeeps, DropKeeps, BindKeeps DEF CleanupFails, Oldest
  <2>3. Alone(c)
    BY <1>3, <1>a DEF CleanupFails, Oldest, Alone, TypeOK
  <2>4. CallOK(c)'
    BY <1>3, <1>a, <2>1, <2>2 DEF CleanupFails, Oldest, CallOK, BoundOrGone, MayDrop, SeenSteps, BoxSteps, BindSteps, UnbindSteps, TypeOK, Keeps
  <2>5. Gives
    BY <1>3, <1>a DEF CleanupFails, Oldest, Gives
  <2> QED BY <2>1, <2>2, <2>3, <2>4, <2>5 DEF Moves
<1>4. CASE OutsideFails(c)
  <2>1. Ages
    BY <1>4, <1>a, AgesIfSame, AgesIfCreated DEF OutsideFails, After, TypeOK
  <2>2. Keeps
    BY <1>4, <1>a, <2>1, ShrinkKeeps, DropKeeps, BindKeeps DEF OutsideFails, After
  <2>3. Alone(c)
    BY <1>4, <1>a DEF OutsideFails, After, Alone, TypeOK
  <2>4. CallOK(c)'
    BY <1>4, <1>a, <2>1, <2>2 DEF OutsideFails, After, CallOK, BoundOrGone, MayDrop, SeenSteps, BoxSteps, BindSteps, UnbindSteps, TypeOK, Keeps
  <2>5. Gives
    BY <1>4, <1>a DEF OutsideFails, After, Gives
  <2> QED BY <2>1, <2>2, <2>3, <2>4, <2>5 DEF Moves
<1>5. CASE Cancel(c)
  <2>1. Ages
    BY <1>5, <1>a, AgesIfSame, AgesIfCreated DEF Cancel, TypeOK
  <2>2. Keeps
    BY <1>5, <1>a, <2>1, ShrinkKeeps, DropKeeps, BindKeeps DEF Cancel
  <2>3. Alone(c)
    BY <1>5, <1>a DEF Cancel, Alone, TypeOK
  <2>4. CallOK(c)'
    BY <1>5, <1>a, <2>1, <2>2 DEF Cancel, CallOK, BoundOrGone, MayDrop, SeenSteps, BoxSteps, BindSteps, UnbindSteps, TypeOK, Keeps
  <2>5. Gives
    BY <1>5, <1>a DEF Cancel, Gives
  <2> QED BY <2>1, <2>2, <2>3, <2>4, <2>5 DEF Moves
<1>6. CASE Crash(c)
  <2>1. Ages
    BY <1>6, <1>a, AgesIfSame, AgesIfCreated DEF Crash, TypeOK
  <2>2. Keeps
    BY <1>6, <1>a, <2>1, ShrinkKeeps, DropKeeps, BindKeeps DEF Crash
  <2>3. Alone(c)
    BY <1>6, <1>a DEF Crash, Alone, TypeOK
  <2>4. CallOK(c)'
    BY <1>6, <1>a, <2>1, <2>2 DEF Crash, CallOK, BoundOrGone, MayDrop, SeenSteps, BoxSteps, BindSteps, UnbindSteps, TypeOK, Keeps
  <2>5. Gives
    BY <1>6, <1>a DEF Crash, Gives
  <2> QED BY <2>1, <2>2, <2>3, <2>4, <2>5 DEF Moves
<1>7. CASE DestroyFails(c)
  <2>1. Ages
    BY <1>7, <1>a, AgesIfSame, AgesIfCreated DEF DestroyFails, Deleted, TypeOK
  <2>2. Keeps
    BY <1>7, <1>a, <2>1, ShrinkKeeps, DropKeeps, BindKeeps DEF DestroyFails
  <2>3. Alone(c)
    BY <1>7, <1>a DEF DestroyFails, Alone, TypeOK
  <2>4. CallOK(c)'
    BY <1>7, <1>a, <2>1, <2>2 DEF DestroyFails, CallOK, BoundOrGone, MayDrop, SeenSteps, BoxSteps, BindSteps, UnbindSteps, TypeOK, Keeps
  <2>5. Gives
    BY <1>7, <1>a DEF DestroyFails, Gives
  <2> QED BY <2>1, <2>2, <2>3, <2>4, <2>5 DEF Moves
<1>8. CASE ReadFails(c)
  <2>1. Ages
    BY <1>8, <1>a, AgesIfSame, AgesIfCreated DEF ReadFails, TypeOK
  <2>2. Keeps
    BY <1>8, <1>a, <2>1, ShrinkKeeps, DropKeeps, BindKeeps DEF ReadFails
  <2>3. Alone(c)
    BY <1>8, <1>a DEF ReadFails, Alone, TypeOK
  <2>4. CallOK(c)'
    <3>1. /\ pc'[c] = "fail" \/ (pc'[c] = "cleanup" /\ pc[c] = "recheck")
          /\ seen' = seen /\ box' = box
      BY <1>8, <1>a DEF ReadFails, TypeOK
    <3>2. pc[c] \in LockedSteps /\ seen[c] \in (1 .. made) \union {None}
      BY <1>8, <1>a DEF ReadFails, ReadSteps, TypeOK
    <3>3. seen[c] # None => BoundOrGone(seen[c])'
      BY <1>a, <2>2, <3>1, <3>2 DEF CallOK, Keeps, BoundOrGone
    <3>4. pc'[c] = "cleanup" => box'[c] # None
      BY <1>a, <3>1 DEF CallOK, BoxSteps
    <3> QED BY <3>1, <3>2, <3>3, <3>4 DEF CallOK, SeenSteps, BoxSteps, BindSteps, UnbindSteps
  <2>5. Gives
    BY <1>8, <1>a DEF ReadFails, Gives
  <2> QED BY <2>1, <2>2, <2>3, <2>4, <2>5 DEF Moves
<1>9. CASE UnbindFails(c)
  <2>1. Ages
    BY <1>9, <1>a, AgesIfSame, AgesIfCreated DEF UnbindFails, Drop, TypeOK
  <2>2. Keeps
    BY <1>9, <1>a, <2>1, ShrinkKeeps, DropKeeps, BindKeeps DEF UnbindFails, Drop
  <2>3. Alone(c)
    BY <1>9, <1>a DEF UnbindFails, Drop, Alone, TypeOK
  <2>4. CallOK(c)'
    BY <1>9, <1>a, <2>1, <2>2 DEF UnbindFails, Drop, CallOK, BoundOrGone, MayDrop, SeenSteps, BoxSteps, BindSteps, UnbindSteps, TypeOK, Keeps
  <2>5. Gives
    BY <1>9, <1>a DEF UnbindFails, Drop, Gives
  <2> QED BY <2>1, <2>2, <2>3, <2>4, <2>5 DEF Moves
<1>10. CASE BindFails(c)
  <2>1. Ages
    BY <1>10, <1>a, AgesIfSame, AgesIfCreated DEF BindFails, Bind, TypeOK
  <2>2. Keeps
    BY <1>10, <1>a, <2>1, ShrinkKeeps, DropKeeps, BindKeeps DEF BindFails, Bind
  <2>3. Alone(c)
    BY <1>10, <1>a DEF BindFails, Bind, Alone, TypeOK
  <2>4. CallOK(c)'
    BY <1>10, <1>a, <2>1, <2>2 DEF BindFails, Bind, CallOK, BoundOrGone, MayDrop, SeenSteps, BoxSteps, BindSteps, UnbindSteps, TypeOK, Keeps
  <2>5. Gives
    BY <1>10, <1>a DEF BindFails, Bind, Gives
  <2> QED BY <2>1, <2>2, <2>3, <2>4, <2>5 DEF Moves
<1>11. CASE CreateFails(c)
  <2>1. Ages
    BY <1>11, <1>a, AgesIfSame, AgesIfCreated DEF CreateFails, TypeOK
  <2>2. Keeps
    BY <1>11, <1>a, <2>1, ShrinkKeeps, DropKeeps, BindKeeps DEF CreateFails
  <2>3. Alone(c)
    BY <1>11, <1>a DEF CreateFails, Alone, TypeOK
  <2>4. CallOK(c)'
    BY <1>11, <1>a, <2>1, <2>2 DEF CreateFails, CallOK, BoundOrGone, MayDrop, SeenSteps, BoxSteps, BindSteps, UnbindSteps, TypeOK, Keeps
  <2>5. Gives
    BY <1>11, <1>a DEF CreateFails, Gives
  <2> QED BY <2>1, <2>2, <2>3, <2>4, <2>5 DEF Moves
<1> QED BY <1>1, <1>2, <1>3, <1>4, <1>5, <1>6, <1>7, <1>8, <1>9, <1>10, <1>11 DEF FaultStep, StepFails

LEMMA RestartOK ==
  ASSUME IInv, Restart
  PROVE  LiveHandlesAreBound' /\ \A c \in Calls : CallOK(c)'
<1>1. ASSUME NEW c \in Calls PROVE CallOK(c)'
  <2>1. (pc'[c] = "idle" /\ pc[c] = "idle") \/ pc'[c] = "dead"
    BY DEF Restart
  <2>2. seen' = seen /\ CallOK(c)
    BY DEF IInv, Restart
  <2> QED BY Names, <2>1, <2>2 DEF CallOK, SeenSteps, BoxSteps, BindSteps, UnbindSteps
<1>2. given' = {}
  BY DEF Restart
<1> QED BY <1>1, <1>2 DEF LiveHandlesAreBound

\* The rest of the world: the lock, the provider, the passing of time.
LEMMA WorldOK ==
  ASSUME IInv, ExpireLock \/ CreatedLate \/ (\E s \in Sandboxes : Kill(s))
  PROVE  LiveHandlesAreBound' /\ \A c \in Calls : CallOK(c)'
<1> USE DEF store, cloud, calls, history, Rest, UnchangedBinding
<1>1. Ages
  BY AgesIfSame, AgesIfCreated DEF ExpireLock, CreatedLate, Kill, IInv, TypeOK
<1>2. Keeps
  BY <1>1, ShrinkKeeps DEF ExpireLock, CreatedLate, Kill, IInv
<1>3. UNCHANGED <<pc, kind, mgr, seen, box, given>>
  BY DEF ExpireLock, CreatedLate, Kill
<1>4. Gives
  BY <1>3 DEF Gives
<1>5. ASSUME NEW c \in Calls PROVE CallOK(c)'
  <2>1. CallOK(c) /\ seen[c] \in (1 .. made) \union {None} /\ box[c] \in (1 .. made) \union {None}
    BY DEF IInv, TypeOK
  <2>2. (seen[c] # None => (BoundOrGone(seen[c]) => BoundOrGone(seen[c])'))
          /\ (box[c] # None => (BoundOrGone(box[c]) => BoundOrGone(box[c])'))
    BY <1>2, <1>3, <2>1 DEF Keeps, BoundOrGone
  <2>3. pc[c] \in UnbindSteps => MayDrop(c)'
    BY <1>1, <1>3, <2>1 DEF CallOK, Ages, MayDrop, SeenSteps
  <2> QED BY <1>3, <2>1, <2>2, <2>3 DEF CallOK
<1>6. ASSUME NEW s \in given PROVE BoundOrGone(s)'
  BY <1>2, <1>6 DEF IInv, TypeOK, LiveHandlesAreBound, Keeps
<1> QED BY <1>3, <1>5, <1>6 DEF LiveHandlesAreBound, BoundOrGone

LEMMA StepIInv == IInv /\ [Next]_vars => IInv'
<1> SUFFICES ASSUME IInv, [Next]_vars PROVE IInv'
  OBVIOUS
<1>1. CASE Next
  <2>1. TypeOK'
    BY <1>1, TypeStep
  <2>2. ASSUME NEW c \in Calls, LockedStep(c) \/ OutsideStep(c) \/ FaultStep(c)
        PROVE  IInv'
    <3>1. Moves(c)
      BY <2>2, LockedMoves, OutsideMoves, FaultMoves
    <3> QED BY <2>1, <3>1, OthersOK DEF Moves, IInv
  <2> QED BY <1>1, <2>1, <2>2, RestartOK, WorldOK DEF Next, IInv
<1>2. CASE UNCHANGED vars
  BY <1>2 DEF IInv, TypeOK, CallOK, LiveHandlesAreBound, BoundOrGone, MayDrop, vars, store, cloud,
              calls, history
<1> QED BY <1>1, <1>2

\* The model keeps to its types: no step makes a sandbox, a pin or a lock
\* holder out of nothing.
THEOREM TypeHolds == Spec => []TypeOK
<1>1. IInv => TypeOK
  BY DEF IInv
<1> QED BY <1>1, InitIInv, StepIInv, PTL DEF Spec

\* Two callers of a session never work in two live sandboxes, whatever
\* stalls, fails, comes late or dies: a sandbox that was given to a caller
\* and lives is the one Redis has bound to the session.
THEOREM HandlesHold == Spec => []LiveHandlesAreBound
<1>1. IInv => LiveHandlesAreBound
  BY DEF IInv
<1> QED BY <1>1, InitIInv, StepIInv, PTL DEF Spec

-----------------------------------------------------------------------------
(* A deleted session.                                                      *)

\* The steps an execution reaches only when it has found the row, directly or
\* through the steps before them.
FoundSteps == {"connect", "unbind", "list", "adopt", "duplicates", "bindOwned", "bindNew", "create",
               "recheck", "winner", "connectWinner", "whoWon", "cleanup", "return"}

EntryOK(c) ==
  /\ kind[c] = "execute" /\ pc[c] \in FoundSteps => c \in entered
  /\ pc[c] \in LockedSteps /\ c \notin entered => ~session

EntryInv == \A c \in Calls : EntryOK(c)

\* A call moves, and takes nobody else along.
MovesAlone(c) ==
  /\ \A d \in Calls \ {c} : pc'[d] = pc[d] /\ kind'[d] = kind[d]
  /\ session' => session
  /\ entered \subseteq entered'

LEMMA EntryStep ==
  ASSUME TypeOK, EntryInv, NEW c \in Calls, LockedStep(c) \/ OutsideStep(c) \/ FaultStep(c)
  PROVE  EntryInv'
<1> USE Names
<1> USE DEF Goto, At, Keep, store, cloud, calls, history, Rest, Read, UnchangedCloud, UnchangedBinding
<1>a. EntryOK(c) /\ pc \in [Calls -> PCs] /\ kind \in [Calls -> {"execute", "delete"}]
  BY DEF EntryInv, TypeOK
<1>b. SUFFICES MovesAlone(c) /\ EntryOK(c)'
  BY DEF EntryInv, EntryOK, MovesAlone
<1>1. CASE LockedStep(c)
  <2>1. MovesAlone(c) /\ entered' = entered /\ session' = session /\ kind' = kind
    BY <1>1, <1>a DEF MovesAlone, LockedStep, ReadBinding, CheckSession, Connect, Unbind, Destroy,
       DestroyUnbind, List, Adopt, Duplicates, BindSandbox, Winner, ConnectWinner, Create, Recheck,
       WhoWon, Cleanup
  <2>2. /\ pc[c] \in LockedSteps
        /\ kind[c] = "execute" /\ pc'[c] \in FoundSteps => session \/ pc[c] \in FoundSteps
    BY <1>1, <1>a DEF FoundSteps, LockedStep, ReadBinding, CheckSession, Connect, Unbind, Destroy,
       DestroyUnbind, List, Adopt, Duplicates, BindSandbox, Winner, ConnectWinner, Create, Recheck,
       WhoWon, Cleanup, Teardown, BindSteps
  <2> QED BY <1>a, <2>1, <2>2 DEF EntryOK
<1>2. CASE OutsideStep(c)
  <2>1. CASE Lock(c)
    BY <1>a, <2>1 DEF Lock, MovesAlone, EntryOK, FoundSteps
  <2>2. CASE OutsideStep(c) /\ ~Lock(c)
    <3>1. MovesAlone(c) /\ pc'[c] \notin LockedSteps
      BY <1>a, <2>2 DEF OutsideStep, StartExecution, Pin, StartDeletion, Clear, DeleteRow, Return,
         Fail, After, MovesAlone
    <3> QED BY <3>1 DEF EntryOK, FoundSteps
  <2> QED BY <1>2, <2>1, <2>2
<1>3. CASE FaultStep(c)
  <2>1. MovesAlone(c) /\ entered' = entered /\ session' = session /\ kind' = kind
    <3>1. CASE StepFails(c)
      BY <3>1, <1>a DEF MovesAlone, StepFails, DestroyFails, ReadFails, UnbindFails, BindFails,
         CreateFails
    <3>2. CASE CleanupFails(c)
      BY <3>2, <1>a DEF MovesAlone, CleanupFails
    <3>3. CASE OutsideFails(c)
      BY <3>3, <1>a DEF MovesAlone, OutsideFails
    <3>4. CASE NoticeLoss(c)
      BY <3>4, <1>a DEF MovesAlone, NoticeLoss
    <3>5. CASE Crash(c)
      BY <3>5, <1>a DEF MovesAlone, Crash
    <3>6. CASE LoseLock(c) \/ Cancel(c)
      BY <3>6 DEF MovesAlone, LoseLock, Cancel
    <3> QED BY <1>3, <3>1, <3>2, <3>3, <3>4, <3>5, <3>6 DEF FaultStep
  <2>2. \/ pc'[c] \notin LockedSteps \/ pc'[c] = pc[c]
        \/ pc[c] \in LockedSteps /\ pc'[c] = "fail"
        \/ pc[c] \in FoundSteps /\ pc'[c] = "cleanup"
    BY <1>3, <1>a DEF FoundSteps, FaultStep, LoseLock, NoticeLoss, StepFails, DestroyFails, ReadFails,
       UnbindFails, BindFails, CreateFails, CleanupFails, OutsideFails, Cancel, Crash, After,
       ReadSteps, UnbindSteps, BindSteps
  <2> QED BY <1>a, <2>1, <2>2 DEF EntryOK, FoundSteps
<1> QED BY <1>1, <1>2, <1>3

\* An execution that takes the lifecycle lock after the row was deleted is given
\* no sandbox, whatever it had been told before: it finds the row gone.
THEOREM DeletedGetNothing == Spec => []DeletedSessionsGetNothing
<1>1. Init => EntryInv
  BY DEF Init, EntryInv, EntryOK, FoundSteps, LockedSteps, ReadSteps, BindSteps, UnbindSteps,
         DeleteSteps
<1>2. IInv /\ EntryInv /\ [Next]_vars => EntryInv'
  <2> SUFFICES ASSUME IInv, EntryInv, [Next]_vars PROVE EntryInv'
    OBVIOUS
  <2>1. CASE Restart
    BY <2>1, Names DEF Restart, EntryInv, EntryOK, FoundSteps, calls
  <2>2. CASE ExpireLock \/ CreatedLate \/ \E s \in Sandboxes : Kill(s)
    BY <2>2 DEF ExpireLock, CreatedLate, Kill, EntryInv, EntryOK, Rest, calls, store, cloud, history
  <2>3. CASE UNCHANGED vars
    BY <2>3 DEF vars, EntryInv, EntryOK, calls, store, cloud, history
  <2> QED BY <2>1, <2>2, <2>3, EntryStep DEF Next, IInv
<1>3. EntryInv => DeletedSessionsGetNothing
  BY DEF EntryInv, EntryOK, FoundSteps, DeletedSessionsGetNothing
<1> QED BY <1>1, <1>2, <1>3, InitIInv, StepIInv, PTL DEF Spec

-----------------------------------------------------------------------------
(***************************************************************************)
(* What a call is, and which backend its sandboxes are of.                 *)
(***************************************************************************)
\* The steps of a deletion before its teardown is over.
CallSteps == {"lock", "read", "destroy", "destroyUnbind"}
Together == \A c \in Calls : kind[c] = "delete" => pc[c] \in CallSteps

KindOK(c) ==
  /\ pc[c] = "idle" => kind[c] = "execute"
  /\ kind[c] = "delete" => pc[c] \in CallSteps \union {"return", "fail", "clear", "row"} \union Ended
  /\ pc[c] \in {"clear", "row"} => kind[c] = "delete"
  /\ pc[c] \in {"destroy", "destroyUnbind"} => kind[c] = "delete" \/ ~session
  /\ pc[c] \in BoxSteps => back[box[c]] = mgr[c]
  /\ pc[c] \in {"adopt", "duplicates"} => \A s \in listed[c] : back[s] = mgr[c]
KindInv == (\A c \in Calls : KindOK(c)) /\ (Together => session)

Step(c) == LockedStep(c) \/ OutsideStep(c) \/ FaultStep(c)

\* Where a step leads a call, and what becomes of the row.
Path(c) ==
  /\ pc[c] # "idle" => kind'[c] = kind[c]
  /\ pc'[c] = "idle" => pc[c] = "idle" /\ kind'[c] = kind[c]
  /\ kind'[c] = "delete" => pc'[c] \in CallSteps \union {"return", "fail", "clear", "row"} \union Ended
  /\ kind[c] = "delete" /\ pc[c] \notin CallSteps => pc'[c] \notin CallSteps
  /\ pc'[c] \in {"clear", "row"} => kind'[c] = "delete"
  /\ pc'[c] \in {"destroy", "destroyUnbind"} => kind'[c] = "delete" \/ ~session'
  /\ session' \/ ~session \/ (kind'[c] = "delete" /\ pc'[c] = "done")
  /\ session' => session
  /\ \A d \in Calls \ {c} : listed'[d] = listed[d]

LEMMA StepPath ==
  ASSUME TypeOK, NEW c \in Calls, KindOK(c), Step(c)
  PROVE  Path(c)
<1> USE Names
<1> USE DEF Goto, At, Keep, store, cloud, calls, history, Rest, Read, UnchangedCloud, UnchangedBinding,
            KindOK, Path, CallSteps, Ended
<1>a. /\ pc \in [Calls -> PCs] /\ kind \in [Calls -> {"execute", "delete"}]
      /\ listed \in [Calls -> SUBSET (1 .. made)]
  BY DEF TypeOK
<1>1. CASE LockedStep(c)
  BY <1>1, <1>a DEF LockedStep, ReadBinding, CheckSession, Connect, Unbind, Destroy,
     DestroyUnbind, List, Adopt, Duplicates, BindSandbox, Winner, ConnectWinner, Create, Recheck,
     WhoWon, Cleanup, Teardown, BindSteps
<1>2. CASE OutsideStep(c)
  BY <1>2, <1>a DEF OutsideStep, StartExecution, Pin, StartDeletion, Clear, DeleteRow, Lock, Return,
     Fail, After
<1>3. CASE FaultStep(c)
  <2>1. CASE StepFails(c)
    BY <2>1, <1>a DEF StepFails, DestroyFails, ReadFails, UnbindFails, BindFails, CreateFails,
       ReadSteps, UnbindSteps, BindSteps
  <2>2. CASE CleanupFails(c) \/ OutsideFails(c) \/ NoticeLoss(c) \/ Crash(c)
    BY <2>2, <1>a DEF CleanupFails, OutsideFails, NoticeLoss, Crash, After
  <2>3. CASE LoseLock(c) \/ Cancel(c)
    BY <2>3, <1>a DEF LoseLock, Cancel
  <2> QED BY <1>3, <2>1, <2>2, <2>3 DEF FaultStep
<1> QED BY <1>1, <1>2, <1>3 DEF Step

\* What a call has created, picked or listed is of its own backend.
BoxesOK(c) ==
  /\ pc[c] \in BoxSteps => back[box[c]] = mgr[c]
  /\ pc[c] \in {"adopt", "duplicates"} => \A s \in listed[c] : back[s] = mgr[c]

LEMMA StepBoxes ==
  ASSUME IInv, NEW c \in Calls, BoxesOK(c), Ages, Step(c)
  PROVE  BoxesOK(c)'
<1> USE Names
<1> USE DEF Goto, At, Keep, store, cloud, calls, history, Rest, Read, UnchangedCloud, UnchangedBinding
<1>a. /\ pc \in [Calls -> PCs] /\ mgr \in [Calls -> Backends \union {None}]
      /\ listed \in [Calls -> SUBSET (1 .. made)] /\ box \in [Calls -> (1 .. made) \union {None}]
      /\ back \in [Sandboxes -> Backends \union {None}] /\ made \in Nat
      /\ pc[c] \in BoxSteps => box[c] # None
      /\ alive \subseteq 1 .. made
  BY DEF IInv, TypeOK, CallOK
<1>b. \A s \in 1 .. made : back'[s] = back[s]
  BY DEF Ages
<1>1. ASSUME mgr' = mgr, box' = box, listed' = listed, pc'[c] \notin {"adopt", "duplicates"} \/ pc'[c] = pc[c],
             pc'[c] \in BoxSteps => pc[c] \in BoxSteps
      PROVE  BoxesOK(c)'
  BY <1>1, <1>a, <1>b DEF BoxesOK
<1>2. CASE LockedStep(c)
  <2>1. CASE List(c)
    BY <2>1, <1>a, <1>b DEF List, Owned, BoxesOK, BoxSteps, BindSteps
  <2>2. CASE Adopt(c)
    <3>1. PICK s \in listed[c] :
            /\ listed' = [listed EXCEPT ![c] = @ \ {s}]
            /\ IF s \in alive THEN box' = [box EXCEPT ![c] = s]
                              ELSE /\ UNCHANGED box
                                   /\ Goto(c, IF listed[c] = {s} THEN "create" ELSE "adopt")
      BY <2>2 DEF Adopt
    <3>2. s \in 1 .. made /\ back[s] = mgr[c] /\ \A u \in listed[c] : back[u] = mgr[c]
      BY <2>2, <3>1, <1>a DEF Adopt, BoxesOK
    <3>3. mgr' = mgr
      BY <2>2 DEF Adopt
    <3>4. \A u \in listed'[c] : u \in 1 .. made /\ back'[u] = mgr'[c]
      BY <3>1, <3>2, <3>3, <1>a, <1>b
    <3>5. s \in alive => box'[c] = s
      BY <3>1, <1>a
    <3>6. s \notin alive => pc'[c] \in {"create", "adopt"}
      BY <3>1, <1>a
    <3> QED BY <3>2, <3>3, <3>4, <3>5, <3>6, <1>b DEF BoxesOK, BoxSteps, BindSteps
  <2>3. CASE Duplicates(c)
    BY <2>3, <1>a, <1>b DEF Duplicates, BoxesOK, BoxSteps, BindSteps
  <2>4. CASE BindSandbox(c) \/ Recheck(c) \/ WhoWon(c)
    BY <1>1, <2>4, <1>a DEF BindSandbox, Recheck, WhoWon, BoxSteps, BindSteps
  <2>5. CASE Create(c)
    <3>1. CASE made < MaxSandboxes
      <4>1. back' = [back EXCEPT ![made + 1] = mgr[c]] /\ box' = [box EXCEPT ![c] = made + 1] /\ mgr' = mgr
            /\ pc'[c] = "recheck"
        BY <2>5, <3>1, <1>a DEF Create, Created
      <4>2. made + 1 \in Sandboxes
        BY <3>1, <1>a DEF Sandboxes
      <4> QED BY <4>1, <4>2, <1>a DEF BoxesOK
    <3>2. CASE ~(made < MaxSandboxes)
      BY <2>5, <3>2, <1>a DEF Create, BoxesOK, BoxSteps, BindSteps
    <3> QED BY <3>1, <3>2
  <2>6. CASE ReadBinding(c) \/ CheckSession(c) \/ Connect(c) \/ Unbind(c) \/ Destroy(c) \/ DestroyUnbind(c)
               \/ Winner(c) \/ ConnectWinner(c) \/ Cleanup(c)
    <3>1. pc'[c] \notin BoxSteps \union {"adopt"}
      BY <2>6, <1>a DEF BoxSteps, BindSteps, ReadBinding, CheckSession, Connect, Unbind, Destroy,
         DestroyUnbind, Winner, ConnectWinner, Cleanup, Teardown
    <3> QED BY <3>1 DEF BoxesOK, BoxSteps
  <2> QED BY <1>2, <2>1, <2>2, <2>3, <2>4, <2>5, <2>6 DEF LockedStep
<1>3. CASE OutsideStep(c)
  <2>1. pc'[c] \notin BoxSteps \union {"adopt"}
    BY <1>3, <1>a DEF OutsideStep, StartExecution, Pin, StartDeletion, Clear, DeleteRow, Lock, Return,
       Fail, After, BoxSteps, BindSteps
  <2> QED BY <2>1 DEF BoxesOK, BoxSteps
<1>4. CASE FaultStep(c)
  <2>1. CASE LoseLock(c) \/ Cancel(c)
    BY <1>1, <2>1 DEF LoseLock, Cancel
  <2>2. CASE ReadFails(c) \/ BindFails(c)
    BY <1>1, <2>2, <1>a DEF ReadFails, BindFails, BoxSteps, BindSteps
  <2>3. CASE NoticeLoss(c) \/ CleanupFails(c) \/ OutsideFails(c) \/ Crash(c)
               \/ DestroyFails(c) \/ UnbindFails(c) \/ CreateFails(c)
    <3>1. pc'[c] \notin BoxSteps \union {"adopt"}
      BY <2>3, <1>a DEF NoticeLoss, CleanupFails, OutsideFails, Crash, DestroyFails, UnbindFails,
         CreateFails, After, BoxSteps, BindSteps
    <3> QED BY <3>1 DEF BoxesOK, BoxSteps
  <2> QED BY <1>4, <2>1, <2>2, <2>3 DEF FaultStep, StepFails
<1> QED BY <1>2, <1>3, <1>4 DEF Step

LEMMA StepMoves ==
  ASSUME IInv, NEW c \in Calls, Step(c)
  PROVE  Moves(c)
BY LockedMoves, OutsideMoves, FaultMoves DEF Step

LEMMA StepKind ==
  ASSUME IInv, KindInv, NEW c \in Calls, Step(c)
  PROVE  KindInv' /\ (~Together => ~Together')
<1>1. Moves(c) /\ Path(c) /\ BoxesOK(c)' /\ Ages /\ Alone(c)
  <2>1. TypeOK /\ KindOK(c) /\ BoxesOK(c)
    BY DEF IInv, KindInv, KindOK, BoxesOK
  <2>2. Moves(c) /\ Path(c)
    BY <2>1, StepMoves, StepPath
  <2> QED BY <2>1, <2>2, StepBoxes DEF Moves
<1>2. KindOK(c) /\ KindOK(c)'
  BY <1>1 DEF KindInv, KindOK, Path, BoxesOK
<1>3. ASSUME NEW d \in Calls, d # c PROVE KindOK(d)'
  <2>1. /\ pc'[d] = pc[d] /\ kind'[d] = kind[d] /\ mgr'[d] = mgr[d] /\ box'[d] = box[d]
        /\ listed'[d] = listed[d] /\ (session' => session)
    BY <1>1, <1>3 DEF Alone, Path
  <2>2. KindOK(d) /\ listed[d] \subseteq 1 .. made /\ (pc[d] \in BoxSteps => box[d] \in 1 .. made)
    BY DEF IInv, TypeOK, CallOK, KindInv
  <2>3. \A s \in 1 .. made : back'[s] = back[s]
    BY <1>1 DEF Ages
  <2> QED BY <2>1, <2>2, <2>3 DEF KindOK
<1>4. ~Together => ~Together'
  BY <1>1, <1>2 DEF Together, KindOK, CallSteps, Path, Alone
<1>5. Together' => session'
  BY <1>1, <1>4 DEF KindInv, Path, Together, CallSteps
<1> QED BY <1>2, <1>3, <1>4, <1>5 DEF KindInv

\* The steps of the world leave every call where it is, or end it.
LEMMA WorldKind ==
  ASSUME IInv, KindInv, ExpireLock \/ CreatedLate \/ Restart \/ (\E s \in Sandboxes : Kill(s)) \/ UNCHANGED vars
  PROVE  KindInv' /\ (~Together => ~Together')
<1> USE DEF store, cloud, calls, history, Rest, UnchangedBinding
<1>1. /\ UNCHANGED <<session, kind, mgr, box, listed>>
      /\ \A s \in 1 .. made : back'[s] = back[s]
  <2>1. CASE CreatedLate
    BY <2>1, AgesIfCreated DEF CreatedLate, IInv, TypeOK, Ages
  <2> QED BY <2>1 DEF ExpireLock, Restart, Kill, vars
<1>2. \A c \in Calls : pc'[c] = pc[c] \/ (pc[c] # "idle" /\ pc'[c] = "dead")
  BY DEF ExpireLock, CreatedLate, Restart, Kill, vars
<1>3. ASSUME NEW c \in Calls PROVE KindOK(c)'
  <2>1. KindOK(c) /\ listed[c] \subseteq 1 .. made /\ (pc[c] \in BoxSteps => box[c] \in 1 .. made)
    BY DEF IInv, TypeOK, CallOK, KindInv
  <2> QED BY <1>1, <1>2, <2>1 DEF KindOK, BoxSteps, BindSteps, Ended
<1>4. ~Together => ~Together'
  BY <1>1, <1>2 DEF Together, CallSteps
<1> QED BY <1>1, <1>3, <1>4 DEF KindInv

LEMMA InitKind == Init => KindInv
BY DEF Init, KindInv, KindOK, Together, BoxSteps, BindSteps

-----------------------------------------------------------------------------
(***************************************************************************)
(* The pin.  As long as no deletion has gone past its teardown, whoever    *)
(* asks for the lock or has it uses the pinned backend.                    *)
(***************************************************************************)
Held == {"lock"} \union LockedSteps

PinOK ==
  /\ \A c \in Calls : /\ pc[c] \in Held => mgr[c] = pin /\ pin # None
                      /\ pc[c] = "pin" => mgr[c] # None
  /\ binding # None => back[binding] = pin
  /\ abandoned = {}
  /\ pin = None => made = 0 /\ pending = {}

PinInv == Together => PinOK

\* What a step does to the pin, to the binding and to the sandboxes.
PinPath(c) ==
  /\ \/ pin' = pin /\ (pc'[c] \in Held => \/ pc[c] \in Held /\ mgr'[c] = mgr[c]
                                          \/ pin # None /\ mgr'[c] = pin)
     \/ pc[c] = "clear"
     \/ /\ pc[c] = "pin" /\ pin = None /\ pin' \in {None, mgr[c]}
        /\ pc'[c] \in Held => pin' = mgr[c] /\ mgr'[c] = mgr[c]
  /\ pc'[c] = "pin" => mgr'[c] # None
  /\ binding' \in {binding, None} \/ (pc[c] \in BindSteps /\ binding' = box[c])
  /\ abandoned' \subseteq abandoned \/ (pc[c] \in UnbindSteps /\ Drop(c))
  /\ (made' = made /\ pending' = pending) \/ pc[c] = "create"

LEMMA StepPinPath ==
  ASSUME TypeOK, NEW c \in Calls, pc[c] = "pin" => mgr[c] # None, Step(c)
  PROVE  PinPath(c)
<1> USE Names
<1> USE DEF Goto, At, Keep, store, cloud, calls, history, Rest, Read, UnchangedCloud, UnchangedBinding,
            Held, PinPath
<1>a. /\ pc \in [Calls -> PCs] /\ mgr \in [Calls -> Backends \union {None}]
  BY DEF TypeOK
<1>1. CASE LockedStep(c)
  <2>1. CASE BindSandbox(c)
    BY <2>1, <1>a DEF BindSandbox, Bind, BindSteps
  <2>2. CASE Unbind(c) \/ DestroyUnbind(c)
    BY <2>2, <1>a DEF Unbind, DestroyUnbind, Drop, UnbindSteps
  <2>3. CASE Create(c)
    BY <2>3, <1>a DEF Create
  <2>4. CASE ReadBinding(c) \/ CheckSession(c) \/ Connect(c) \/ Destroy(c) \/ List(c) \/ Adopt(c)
               \/ Duplicates(c) \/ Winner(c) \/ ConnectWinner(c) \/ Recheck(c) \/ WhoWon(c) \/ Cleanup(c)
    BY <2>4, <1>a DEF ReadBinding, CheckSession, Connect, Destroy, List, Adopt, Duplicates, Winner,
       ConnectWinner, Recheck, WhoWon, Cleanup, Teardown
  <2> QED BY <1>1, <2>1, <2>2, <2>3, <2>4 DEF LockedStep
<1>2. CASE OutsideStep(c)
  <2>1. CASE \E b \in Backends : StartExecution(c, b)
    BY <2>1, <1>a DEF StartExecution
  <2>2. CASE Pin(c)
    BY <2>2, <1>a DEF Pin
  <2>3. CASE StartDeletion(c)
    BY <2>3, <1>a DEF StartDeletion
  <2>4. CASE Clear(c) \/ DeleteRow(c) \/ Lock(c) \/ Return(c) \/ Fail(c)
    BY <2>4, <1>a DEF Clear, DeleteRow, Lock, Return, Fail, After
  <2> QED BY <1>2, <2>1, <2>2, <2>3, <2>4 DEF OutsideStep
<1>3. CASE FaultStep(c)
  <2>1. CASE BindFails(c)
    BY <2>1, <1>a DEF BindFails, Bind, BindSteps
  <2>2. CASE UnbindFails(c)
    BY <2>2, <1>a DEF UnbindFails, Drop, UnbindSteps
  <2>3. CASE CreateFails(c)
    BY <2>3, <1>a DEF CreateFails
  <2>4. CASE OutsideFails(c)
    BY <2>4, <1>a DEF OutsideFails, After
  <2>5. CASE DestroyFails(c) \/ ReadFails(c) \/ CleanupFails(c) \/ NoticeLoss(c) \/ Crash(c)
    BY <2>5, <1>a DEF DestroyFails, ReadFails, ReadSteps, CleanupFails, NoticeLoss, Crash, After
  <2>6. CASE LoseLock(c) \/ Cancel(c)
    BY <2>6, <1>a DEF LoseLock, Cancel
  <2> QED BY <1>3, <2>1, <2>2, <2>3, <2>4, <2>5, <2>6 DEF FaultStep, StepFails
<1> QED BY <1>1, <1>2, <1>3 DEF Step

LEMMA StepPin ==
  ASSUME IInv, KindInv, PinInv, NEW c \in Calls, Step(c)
  PROVE  PinInv'
<1>1. SUFFICES ASSUME Together' PROVE PinOK'
  BY DEF PinInv
<1>2. Together /\ KindOK(c)
  BY <1>1, StepKind DEF KindInv
<1>3. PinOK /\ pc[c] # "clear"
  BY <1>2 DEF PinInv, Together, KindOK, CallSteps
<1>4. PinPath(c) /\ Moves(c)
  BY <1>3, StepPinPath, StepMoves DEF PinOK, IInv
<1>5. /\ \A d \in Calls \ {c} : pc'[d] = pc[d] /\ mgr'[d] = mgr[d]
      /\ \A s \in 1 .. made : back'[s] = back[s]
  BY <1>4 DEF Moves, Alone, Ages
<1>6. /\ binding \in (1 .. made) \union {None} /\ made \in Nat /\ abandoned \subseteq 1 .. made
      /\ box[c] \in (1 .. made) \union {None}
      /\ pc[c] \in BindSteps => back[box[c]] = mgr[c]
  BY <1>2 DEF IInv, TypeOK, KindOK, BoxSteps
<1>7. pin' = pin \/ (pin = None /\ pc[c] = "pin")
  BY <1>3, <1>4 DEF PinPath
<1>8. \A d \in Calls : /\ pc'[d] \in Held => mgr'[d] = pin' /\ pin' # None
                       /\ pc'[d] = "pin" => mgr'[d] # None
  <2>1. /\ pc'[c] \in Held => mgr'[c] = pin' /\ pin' # None
        /\ pc'[c] = "pin" => mgr'[c] # None
    BY <1>3, <1>4 DEF PinPath, PinOK
  <2>2. ASSUME NEW d \in Calls, d # c
        PROVE  /\ pc'[d] \in Held => mgr'[d] = pin' /\ pin' # None
               /\ pc'[d] = "pin" => mgr'[d] # None
    BY <2>2, <1>3, <1>5, <1>7 DEF PinOK
  <2> QED BY <2>1, <2>2
<1>9. binding' # None => back'[binding'] = pin'
  <2>1. CASE pin = None
    <3>1. made = 0 /\ pc[c] \notin BindSteps /\ binding = None
      BY <1>3, <1>6, <2>1 DEF PinOK, Held, LockedSteps
    <3> QED BY <3>1, <1>4 DEF PinPath
  <2>2. CASE pin # None
    <3>1. pin' = pin
      BY <2>2, <1>7
    <3>2. CASE pc[c] \in BindSteps /\ binding' = box[c]
      BY <3>1, <3>2, <1>3, <1>5, <1>6 DEF PinOK, Held, LockedSteps
    <3>3. CASE binding' \in {binding, None}
      BY <3>1, <3>3, <1>3, <1>5, <1>6 DEF PinOK
    <3> QED BY <3>2, <3>3, <1>4 DEF PinPath
  <2> QED BY <2>1, <2>2
<1>10. abandoned' = {}
  <2>1. CASE abandoned' \subseteq abandoned
    BY <2>1, <1>3 DEF PinOK
  <2>2. CASE pc[c] \in UnbindSteps /\ Drop(c)
    <3>1. mgr[c] = pin /\ seen[c] # None
      BY <2>2, <1>3 DEF PinOK, Held, LockedSteps, IInv, CallOK, SeenSteps
    <3> QED BY <2>2, <3>1, <1>3 DEF Drop, PinOK, UnchangedBinding
  <2> QED BY <2>1, <2>2, <1>4 DEF PinPath
<1>11. pin' = None => made' = 0 /\ pending' = {}
  BY <1>3, <1>4, <1>7 DEF PinPath, PinOK, Held, LockedSteps
<1> QED BY <1>8, <1>9, <1>10, <1>11 DEF PinOK, Held

LEMMA WorldPin ==
  ASSUME IInv, KindInv, PinInv,
         ExpireLock \/ CreatedLate \/ Restart \/ (\E s \in Sandboxes : Kill(s)) \/ UNCHANGED vars
  PROVE  PinInv'
<1> USE DEF store, cloud, calls, history, Rest, UnchangedBinding
<1>1. SUFFICES ASSUME Together, PinOK PROVE PinOK'
  BY WorldKind DEF PinInv
<1>2. CASE CreatedLate
  <2>1. /\ \A s \in 1 .. made : back'[s] = back[s]
        /\ pin # None /\ UNCHANGED <<binding, abandoned, pin, pc, mgr>>
    BY <1>1, <1>2, AgesIfCreated DEF CreatedLate, IInv, TypeOK, Ages, PinOK
  <2>2. binding \in (1 .. made) \union {None}
    BY DEF IInv, TypeOK
  <2> QED BY <1>1, <2>1, <2>2 DEF PinOK
<1>3. CASE Restart
  BY <1>1, <1>3, Names DEF Restart, PinOK, Held
<1>4. CASE ExpireLock \/ (\E s \in Sandboxes : Kill(s)) \/ UNCHANGED vars
  BY <1>1, <1>4 DEF ExpireLock, Kill, vars, PinOK
<1> QED BY <1>2, <1>3, <1>4

\* Until a deletion begins the pin names the backend of the bound sandbox, and
\* no binding of a live sandbox is dropped, whatever fails or dies: executions
\* of agents with other configs keep to the backend that was pinned first.
THEOREM PinHolds == Spec => []PinNamesTheBackend
<1>1. Init => PinInv
  BY Names DEF Init, PinInv, PinOK, Held
<1>2. IInv /\ KindInv /\ PinInv /\ [Next]_vars => KindInv' /\ PinInv'
  BY StepKind, WorldKind, StepPin, WorldPin DEF Next, Step
<1>3. KindInv /\ PinInv => PinNamesTheBackend
  BY DEF KindInv, PinInv, PinOK, PinNamesTheBackend, Together
<1> QED BY <1>1, <1>2, <1>3, InitIInv, InitKind, StepIInv, PTL DEF Spec

-----------------------------------------------------------------------------
(***************************************************************************)
(* The lock.  While no lease runs out, whoever is at a step of the         *)
(* callback holds the lock, and what it has read of the binding is true.   *)
(***************************************************************************)
\* Steps at which a call knows the binding, knows that there is none, or has
\* a sandbox that it has created and not bound.
BoundSteps == {"check", "connect", "unbind", "destroy", "destroyUnbind"}
UnboundSteps == {"list", "adopt", "duplicates", "bindOwned", "create", "recheck", "bindNew"}
NewSteps == {"recheck", "bindNew", "cleanup"}

\* Nobody wins a race for the binding: there is none.
HoldOK(c) ==
  pc[c] \in LockedSteps =>
    /\ holder = c
    /\ pc[c] \notin {"winner", "connectWinner", "whoWon"}
    /\ pc[c] \in BoundSteps => seen[c] = binding
    /\ pc[c] \in UnboundSteps => binding = None /\ seen[c] = None
    /\ pc[c] = "cleanup" => seen[c] = None
    /\ pc[c] \in NewSteps => box[c] \notin given

HoldInv == "stall" \notin faults => \A c \in Calls : HoldOK(c)

\* A step outside the callback takes at most a free lock.
LEMMA OutsideHold ==
  ASSUME TypeOK, NEW c \in Calls, Step(c), pc[c] \notin LockedSteps
  PROVE  /\ UNCHANGED <<binding, given, seen, box>>
         /\ \/ holder' = holder /\ pc'[c] \notin LockedSteps
            \/ holder = None /\ holder' = c /\ pc'[c] \in {"read"}
<1> USE Names
<1> USE DEF Goto, At, Keep, store, cloud, calls, history
<1>a. pc \in [Calls -> PCs]
  BY DEF TypeOK
<1>1. CASE LockedStep(c)
  BY <1>1 DEF LockedStep, ReadBinding, CheckSession, Connect, Unbind, Destroy, DestroyUnbind, List,
     Adopt, Duplicates, BindSandbox, Winner, ConnectWinner, Create, Recheck, WhoWon, Cleanup, BindSteps
<1>2. CASE OutsideStep(c)
  BY <1>2, <1>a DEF OutsideStep, StartExecution, Pin, StartDeletion, Clear, DeleteRow, Lock, Return, Fail
<1>3. CASE FaultStep(c)
  BY <1>3, <1>a DEF FaultStep, LoseLock, NoticeLoss, StepFails, DestroyFails, ReadFails, UnbindFails,
     BindFails, CreateFails, CleanupFails, OutsideFails, Cancel, Crash, After, ReadSteps, UnbindSteps,
     BindSteps
<1> QED BY <1>1, <1>2, <1>3 DEF Step

\* A step of the callback.
LEMMA InsideHold ==
  ASSUME IInv, NEW c \in Calls, Step(c), pc[c] \in LockedSteps, HoldOK(c), "stall" \notin faults
  PROVE  HoldOK(c)'
<1> USE Names
<1> USE DEF Goto, At, Keep, store, cloud, calls, history, Rest, Read, UnchangedCloud, UnchangedBinding
<1>a. /\ pc \in [Calls -> PCs] /\ seen \in [Calls -> (1 .. made) \union {None}]
      /\ box \in [Calls -> (1 .. made) \union {None}] /\ made \in Nat /\ given \subseteq 1 .. made
      /\ binding \in (1 .. made) \union {None}
  BY DEF IInv, TypeOK
<1>1. CASE LockedStep(c)
  <2>1. CASE ReadBinding(c) \/ CheckSession(c) \/ Connect(c)
    BY <2>1, <1>a DEF ReadBinding, CheckSession, Connect, Teardown, HoldOK, BoundSteps, UnboundSteps, NewSteps
  <2>2. CASE Unbind(c) \/ Destroy(c) \/ DestroyUnbind(c)
    BY <2>2, <1>a DEF Unbind, Destroy, DestroyUnbind, Drop, HoldOK, BoundSteps, UnboundSteps, NewSteps
  <2>3. CASE List(c) \/ Duplicates(c)
    BY <2>3, <1>a DEF List, Duplicates, HoldOK, BoundSteps, UnboundSteps, NewSteps
  <2>4. CASE Adopt(c)
    <3>1. pc'[c] \in {"bindOwned", "duplicates", "create", "adopt"} /\ UNCHANGED <<holder, binding, seen, given>>
      BY <2>4, <1>a DEF Adopt
    <3> QED BY <2>4, <3>1 DEF Adopt, HoldOK, BoundSteps, UnboundSteps, NewSteps
  <2>5. CASE BindSandbox(c)
    BY <2>5, <1>a DEF BindSandbox, Bind, BindSteps, HoldOK, BoundSteps, UnboundSteps, NewSteps
  <2>6. CASE Create(c)
    <3>1. made + 1 \notin given
      BY <1>a
    <3> QED BY <2>6, <3>1, <1>a DEF Create, HoldOK, BoundSteps, UnboundSteps, NewSteps
  <2>7. CASE Winner(c) \/ ConnectWinner(c) \/ Recheck(c) \/ WhoWon(c) \/ Cleanup(c)
    BY <2>7, <1>a DEF Winner, ConnectWinner, Recheck, WhoWon, Cleanup, HoldOK, BoundSteps, UnboundSteps,
       NewSteps
  <2> QED BY <1>1, <2>1, <2>2, <2>3, <2>4, <2>5, <2>6, <2>7 DEF LockedStep
<1>2. CASE OutsideStep(c)
  <2>1. pc'[c] \notin LockedSteps
    BY <1>2, <1>a DEF OutsideStep, StartExecution, Pin, StartDeletion, Clear, DeleteRow, Lock, Return,
       Fail, After
  <2> QED BY <2>1 DEF HoldOK
<1>3. CASE FaultStep(c)
  <2>1. CASE DestroyFails(c) \/ UnbindFails(c) \/ CreateFails(c) \/ CleanupFails(c)
    <3>1. pc'[c] = "fail" /\ holder' = holder
      BY <2>1, <1>a DEF DestroyFails, UnbindFails, CreateFails, CleanupFails
    <3> QED BY <3>1 DEF HoldOK, BoundSteps, UnboundSteps, NewSteps
  <2>2. CASE ReadFails(c)
    BY <2>2, <1>a DEF ReadFails, ReadSteps, HoldOK, BoundSteps, UnboundSteps, NewSteps
  <2>3. CASE BindFails(c)
    <3>1. /\ pc'[c] = IF pc[c] = "bindNew" THEN "cleanup" ELSE "fail"
          /\ UNCHANGED <<holder, seen, box, given>>
      BY <2>3, <1>a DEF BindFails
    <3> QED BY <3>1, <1>a DEF HoldOK, BoundSteps, UnboundSteps, NewSteps
  <2>4. CASE LoseLock(c) \/ NoticeLoss(c) \/ OutsideFails(c)
    BY <2>4 DEF LoseLock, NoticeLoss, OutsideFails, HoldOK
  <2>5. CASE Cancel(c)
    BY <2>5 DEF Cancel, HoldOK
  <2>6. CASE Crash(c)
    BY <2>6, <1>a DEF Crash, HoldOK
  <2> QED BY <1>3, <2>1, <2>2, <2>3, <2>4, <2>5, <2>6 DEF FaultStep, StepFails
<1> QED BY <1>1, <1>2, <1>3 DEF Step

LEMMA FaultsStay ==
  ASSUME Next \/ UNCHANGED vars
  PROVE  faults' = faults
<1>1. ASSUME NEW c \in Calls, LockedStep(c) PROVE faults' = faults
  BY <1>1 DEF Rest, Read, LockedStep, ReadBinding, CheckSession, Connect, Unbind, Destroy, DestroyUnbind,
     List, Adopt, Duplicates, BindSandbox, Winner, ConnectWinner, Create, Recheck, WhoWon, Cleanup
<1>2. ASSUME NEW c \in Calls, OutsideStep(c) PROVE faults' = faults
  BY <1>2 DEF OutsideStep, StartExecution, Pin, StartDeletion, Clear, DeleteRow, Lock, Return, Fail
<1>3. ASSUME NEW c \in Calls, FaultStep(c) PROVE faults' = faults
  BY <1>3 DEF Rest, Read, FaultStep, LoseLock, NoticeLoss, StepFails, DestroyFails, ReadFails, UnbindFails,
     BindFails, CreateFails, CleanupFails, OutsideFails, Cancel, Crash
<1> QED BY <1>1, <1>2, <1>3 DEF Next, ExpireLock, CreatedLate, Restart, Kill, vars, Rest

LEMMA StepHold ==
  ASSUME IInv, HoldInv, NEW c \in Calls, Step(c)
  PROVE  HoldInv'
<1>1. SUFFICES ASSUME "stall" \notin faults PROVE \A d \in Calls : HoldOK(d)'
  BY FaultsStay DEF HoldInv, Next, Step
<1>2. \A d \in Calls : HoldOK(d)
  BY <1>1 DEF HoldInv
<1>3. ASSUME NEW d \in Calls, d # c PROVE pc'[d] = pc[d] /\ seen'[d] = seen[d] /\ box'[d] = box[d]
  BY <1>3, StepMoves DEF Moves, Alone
<1>4. CASE pc[c] \in LockedSteps
  <2>1. ASSUME NEW d \in Calls, d # c PROVE HoldOK(d)'
    <3>1. pc[d] \notin LockedSteps
      BY <1>2, <1>4, <2>1 DEF HoldOK
    <3> QED BY <3>1, <1>3, <2>1 DEF HoldOK
  <2> QED BY <1>1, <1>2, <1>4, <2>1, InsideHold
<1>5. CASE pc[c] \notin LockedSteps
  <2>1. /\ UNCHANGED <<binding, given, seen, box>>
        /\ \/ holder' = holder /\ pc'[c] \notin LockedSteps
           \/ holder = None /\ holder' = c /\ pc'[c] \in {"read"}
    BY <1>5, OutsideHold DEF IInv
  <2>2. HoldOK(c)'
    BY <2>1 DEF HoldOK, BoundSteps, UnboundSteps, NewSteps
  <2>3. ASSUME NEW d \in Calls, d # c PROVE HoldOK(d)'
    BY <1>2, <1>3, <2>1, <2>3 DEF HoldOK
  <2> QED BY <2>2, <2>3
<1> QED BY <1>4, <1>5

LEMMA WorldHold ==
  ASSUME IInv, HoldInv,
         ExpireLock \/ CreatedLate \/ Restart \/ (\E s \in Sandboxes : Kill(s)) \/ UNCHANGED vars
  PROVE  HoldInv'
<1> USE DEF store, cloud, calls, history, Rest, UnchangedBinding
<1>1. SUFFICES ASSUME \A d \in Calls : HoldOK(d) PROVE \A d \in Calls : HoldOK(d)'
  BY FaultsStay DEF HoldInv, Next
<1>2. CASE ExpireLock
  BY <1>1, <1>2 DEF ExpireLock, HoldOK
<1>3. CASE Restart
  BY <1>3, Names DEF Restart, HoldOK
<1>4. CASE CreatedLate \/ (\E s \in Sandboxes : Kill(s)) \/ UNCHANGED vars
  BY <1>1, <1>4 DEF CreatedLate, Kill, vars, HoldOK
<1> QED BY <1>2, <1>3, <1>4

LEMMA InitHold == Init => HoldInv
BY Names DEF Init, HoldInv, HoldOK

\* Who deletes sandboxes: a teardown the one it has read, a clean-up its own,
\* an adoption the others of the session.
LEMMA Deletes ==
  ASSUME TypeOK, NEW c \in Calls, Step(c), NEW s \in alive, s \notin alive'
  PROVE  \/ pc[c] = "destroy" /\ s = seen[c]
         \/ pc[c] = "cleanup" /\ s = box[c]
         \/ pc[c] = "duplicates"
<1> USE DEF store, cloud, calls, history, Rest, Read, UnchangedCloud
<1>1. CASE LockedStep(c)
  <2>1. CASE Destroy(c) \/ Duplicates(c) \/ Cleanup(c)
    BY <2>1 DEF Destroy, Deleted, Duplicates, Cleanup, At
  <2>2. CASE Create(c)
    BY <2>2 DEF Create, Created
  <2>3. CASE ReadBinding(c) \/ CheckSession(c) \/ Connect(c) \/ Unbind(c) \/ DestroyUnbind(c) \/ List(c)
               \/ Adopt(c) \/ BindSandbox(c) \/ Winner(c) \/ ConnectWinner(c) \/ Recheck(c) \/ WhoWon(c)
    BY <2>3 DEF ReadBinding, CheckSession, Connect, Unbind, DestroyUnbind, List, Adopt, BindSandbox,
       Winner, ConnectWinner, Recheck, WhoWon
  <2> QED BY <1>1, <2>1, <2>2, <2>3 DEF LockedStep
<1>2. CASE OutsideStep(c)
  BY <1>2 DEF OutsideStep, StartExecution, Pin, StartDeletion, Clear, DeleteRow, Lock, Return, Fail
<1>3. CASE FaultStep(c)
  BY <1>3 DEF FaultStep, LoseLock, NoticeLoss, StepFails, DestroyFails, Deleted, ReadFails, UnbindFails,
     BindFails, CreateFails, Created, CleanupFails, OutsideFails, Cancel, Crash
<1> QED BY <1>1, <1>2, <1>3 DEF Step

\* While no lease runs out under a working call, a sandbox whose handle was
\* given away is deleted only by the teardown of the session, or by the
\* provider itself: adoptions and clean-ups of other calls leave it alone.
THEOREM UsedSurvive == Spec => UsedSandboxesSurvive
<1> DEFINE Ok == IInv /\ KindInv /\ HoldInv
           Survives == \A s \in given \ abandoned :
                         ("stall" \notin faults /\ s \in alive /\ s \notin alive') =>
                           \/ "kill" \in faults
                           \/ \E c \in Calls : /\ pc[c] = "destroy" /\ seen[c] = s
                                               /\ kind[c] = "delete" \/ ~session
<1>1. Init => Ok
  BY InitIInv, InitKind, InitHold
<1>2. Ok /\ [Next]_vars => Ok'
  BY StepIInv, StepKind, WorldKind, StepHold, WorldHold DEF Next, Step
<1>3. Ok /\ [Next]_vars => [Survives]_vars
  <2> SUFFICES ASSUME Ok, Next, NEW s \in given \ abandoned, "stall" \notin faults, s \in alive,
                      s \notin alive', "kill" \notin faults
               PROVE  \E c \in Calls : /\ pc[c] = "destroy" /\ seen[c] = s
                                       /\ kind[c] = "delete" \/ ~session
    OBVIOUS
  <2>1. binding = s /\ s # None
    BY DEF IInv, LiveHandlesAreBound, BoundOrGone, TypeOK, Sandboxes
  <2>2. PICK c \in Calls : Step(c)
    BY DEF Next, Step, ExpireLock, CreatedLate, Created, Restart, Kill, store, cloud
  <2>3. HoldOK(c) /\ KindOK(c)
    BY DEF HoldInv, KindInv
  <2>4. pc[c] # "duplicates" /\ (pc[c] = "cleanup" => box[c] # s)
    BY <2>1, <2>3, Names DEF HoldOK, UnboundSteps, NewSteps
  <2> QED BY <2>2, <2>3, <2>4, Deletes DEF IInv, KindOK
<1> QED BY <1>1, <1>2, <1>3, PTL DEF Spec, UsedSandboxesSurvive

-----------------------------------------------------------------------------
(***************************************************************************)
(* One sandbox per backend.  Whoever is about to create one has listed the *)
(* session's sandboxes under the lock and found none that lives.           *)
(***************************************************************************)
OneOK ==
  /\ AtMostOnePerBackend
  /\ pending = {}
  /\ \A c \in Calls : /\ pc[c] = "create" => Owned(c) = {}
                      /\ pc[c] = "adopt" => Owned(c) \subseteq listed[c]

OneInv == {"stall", "slow"} \intersect faults = {} => OneOK

\* Only a call at its creation adds a sandbox, one of its own backend.
LEMMA Creates ==
  ASSUME TypeOK, NEW c \in Calls, Step(c)
  PROVE  /\ \/ alive' \subseteq alive
            \/ pc[c] = "create" /\ Created(mgr[c])
         /\ pending' = pending \/ "slow" \in faults
<1> USE DEF store, cloud, calls, history, Rest, Read, UnchangedCloud
<1>1. CASE LockedStep(c)
  <2>1. CASE Destroy(c) \/ Duplicates(c) \/ Cleanup(c)
    BY <2>1 DEF Destroy, Deleted, Duplicates, Cleanup
  <2>2. CASE Create(c)
    BY <2>2 DEF Create, At
  <2>3. CASE ReadBinding(c) \/ CheckSession(c) \/ Connect(c) \/ Unbind(c) \/ DestroyUnbind(c) \/ List(c)
               \/ Adopt(c) \/ BindSandbox(c) \/ Winner(c) \/ ConnectWinner(c) \/ Recheck(c) \/ WhoWon(c)
    BY <2>3 DEF ReadBinding, CheckSession, Connect, Unbind, DestroyUnbind, List, Adopt, BindSandbox,
       Winner, ConnectWinner, Recheck, WhoWon
  <2> QED BY <1>1, <2>1, <2>2, <2>3 DEF LockedStep
<1>2. CASE OutsideStep(c)
  BY <1>2 DEF OutsideStep, StartExecution, Pin, StartDeletion, Clear, DeleteRow, Lock, Return, Fail
<1>3. CASE FaultStep(c)
  BY <1>3 DEF FaultStep, LoseLock, NoticeLoss, StepFails, DestroyFails, Deleted, ReadFails, UnbindFails,
     BindFails, CreateFails, CleanupFails, OutsideFails, Cancel, Crash
<1> QED BY <1>1, <1>2, <1>3 DEF Step

\* What leads to a creation.
LEMMA Searches ==
  ASSUME TypeOK, NEW c \in Calls, Step(c), pc'[c] \in {"create", "adopt"}
  PROVE  /\ UNCHANGED <<alive, back, mgr>>
         /\ \/ pc'[c] = pc[c] /\ listed'[c] = listed[c]
            \/ List(c) \/ Adopt(c)
<1> USE Names
<1> USE DEF Goto, At, Keep, store, cloud, calls, history, Rest, Read, UnchangedCloud
<1>a. pc \in [Calls -> PCs]
  BY DEF TypeOK
<1>1. CASE LockedStep(c)
  <2>1. CASE List(c) \/ Adopt(c)
    BY <2>1 DEF List, Adopt
  <2>2. CASE ReadBinding(c) \/ CheckSession(c) \/ Connect(c) \/ Unbind(c) \/ Destroy(c) \/ DestroyUnbind(c)
               \/ Duplicates(c) \/ BindSandbox(c) \/ Winner(c) \/ ConnectWinner(c) \/ Create(c) \/ Recheck(c)
               \/ WhoWon(c) \/ Cleanup(c)
    <3>1. pc'[c] \notin {"create", "adopt"}
      BY <2>2, <1>a DEF ReadBinding, CheckSession, Connect, Unbind, Destroy, DestroyUnbind, Teardown,
         Duplicates, BindSandbox, Winner, ConnectWinner, Create, Recheck, WhoWon, Cleanup
    <3> QED BY <3>1
  <2> QED BY <1>1, <2>1, <2>2 DEF LockedStep
<1>2. CASE OutsideStep(c)
  <2>1. pc'[c] \notin {"create", "adopt"}
    BY <1>2, <1>a DEF OutsideStep, StartExecution, Pin, StartDeletion, Clear, DeleteRow, Lock, Return,
       Fail, After
  <2> QED BY <2>1
<1>3. CASE FaultStep(c)
  <2>1. CASE LoseLock(c) \/ Cancel(c)
    BY <2>1 DEF LoseLock, Cancel
  <2>2. CASE NoticeLoss(c) \/ StepFails(c) \/ CleanupFails(c) \/ OutsideFails(c) \/ Crash(c)
    <3>1. pc'[c] \notin {"create", "adopt"}
      BY <2>2, <1>a DEF NoticeLoss, StepFails, DestroyFails, ReadFails, UnbindFails, BindFails,
         CreateFails, CleanupFails, OutsideFails, Crash, After
    <3> QED BY <3>1
  <2> QED BY <1>3, <2>1, <2>2 DEF FaultStep
<1> QED BY <1>1, <1>2, <1>3 DEF Step

LEMMA StepOne ==
  ASSUME IInv, KindInv, HoldInv, OneInv, NEW c \in Calls, Step(c)
  PROVE  OneInv'
<1>1. SUFFICES ASSUME {"stall", "slow"} \intersect faults = {} PROVE OneOK'
  BY FaultsStay DEF OneInv, Next, Step
<1>2. OneOK /\ \A d \in Calls : HoldOK(d)
  BY <1>1 DEF OneInv, HoldInv
<1>3. \A s, t \in alive : back[s] = back[t] => s = t
  BY <1>1, <1>2 DEF OneOK, AtMostOnePerBackend
<1>4. /\ pending' = {}
      /\ alive' \subseteq alive \/ (pc[c] = "create" /\ Created(mgr[c]))
  BY <1>1, <1>2, Creates DEF OneOK, IInv
<1>5. /\ \A s \in 1 .. made : back'[s] = back[s]
      /\ \A d \in Calls \ {c} : pc'[d] = pc[d] /\ mgr'[d] = mgr[d] /\ listed'[d] = listed[d]
  BY StepMoves, StepPath DEF Moves, Ages, Alone, IInv, KindInv, Path
<1>6. alive \subseteq 1 .. made /\ mgr[c] \in Backends \union {None} /\ made \in Nat
  BY DEF IInv, TypeOK
<1>7. AtMostOnePerBackend'
  <2>1. CASE alive' \subseteq alive
    BY <2>1, <1>3, <1>5, <1>6 DEF AtMostOnePerBackend
  <2>2. CASE pc[c] = "create" /\ Created(mgr[c])
    <3>1. \A s \in alive : back[s] # mgr[c]
      BY <1>2, <2>2 DEF OneOK, Owned
    <3>2. alive' = alive \union {made + 1} /\ back'[made + 1] = mgr[c]
      <4>1. made + 1 \in Sandboxes
        BY <2>2, <1>6 DEF Created, Sandboxes
      <4> QED BY <2>2, <4>1 DEF Created, IInv, TypeOK
    <3> QED BY <3>1, <3>2, <1>3, <1>5, <1>6 DEF AtMostOnePerBackend
  <2> QED BY <1>4, <2>1, <2>2
<1>8. ASSUME NEW d \in Calls, d # c
      PROVE  /\ pc'[d] = "create" => Owned(d)' = {}
             /\ pc'[d] = "adopt" => Owned(d)' \subseteq listed'[d]
  <2>1. ASSUME pc[d] \in {"create", "adopt"} PROVE Owned(d)' \subseteq Owned(d)
    <3>1. pc[c] # "create"
      BY <1>2, <1>8, <2>1, Names DEF HoldOK
    <3>2. alive' \subseteq alive
      BY <3>1, <1>4
    <3> QED BY <3>2, <1>5, <1>6, <1>8 DEF Owned
  <2> QED BY <2>1, <1>2, <1>5, <1>8 DEF OneOK
<1>9. /\ pc'[c] = "create" => Owned(c)' = {}
      /\ pc'[c] = "adopt" => Owned(c)' \subseteq listed'[c]
  <2>1. SUFFICES ASSUME pc'[c] \in {"create", "adopt"}
                 PROVE  /\ pc'[c] = "create" => Owned(c) = {}
                        /\ pc'[c] = "adopt" => Owned(c) \subseteq listed'[c]
    BY Searches DEF Owned, IInv
  <2>2. CASE pc'[c] = pc[c] /\ listed'[c] = listed[c]
    BY <2>2, <1>2 DEF OneOK
  <2>3. CASE List(c)
    BY <2>3 DEF List, Goto, IInv, TypeOK
  <2>4. CASE Adopt(c)
    <3>1. PICK s \in listed[c] :
            /\ listed' = [listed EXCEPT ![c] = @ \ {s}]
            /\ s \in alive => Goto(c, IF listed[c] = {s} THEN "bindOwned" ELSE "duplicates")
            /\ s \notin alive => Goto(c, IF listed[c] = {s} THEN "create" ELSE "adopt")
      BY <2>4 DEF Adopt
    <3>2. s \notin alive /\ (pc'[c] = "create" => listed[c] = {s})
      BY <3>1, <2>1 DEF Goto, IInv, TypeOK
    <3>3. Owned(c) \subseteq listed[c] \ {s}
      BY <3>2, <2>4, <1>2 DEF OneOK, Adopt, At, Owned
    <3>4. listed'[c] = listed[c] \ {s}
      BY <3>1 DEF IInv, TypeOK
    <3> QED BY <3>2, <3>3, <3>4
  <2> QED BY <2>1, <2>2, <2>3, <2>4, Searches DEF IInv
<1>10. \A d \in Calls : /\ pc'[d] = "create" => Owned(d)' = {}
                        /\ pc'[d] = "adopt" => Owned(d)' \subseteq listed'[d]
  BY <1>8, <1>9
<1> QED BY <1>4, <1>7, <1>10 DEF OneOK, Owned

LEMMA WorldOne ==
  ASSUME IInv, OneInv,
         ExpireLock \/ CreatedLate \/ Restart \/ (\E s \in Sandboxes : Kill(s)) \/ UNCHANGED vars
  PROVE  OneInv'
<1> USE DEF store, cloud, calls, history, Rest, UnchangedBinding
<1>1. SUFFICES ASSUME {"stall", "slow"} \intersect faults = {}, OneOK PROVE OneOK'
  BY FaultsStay DEF OneInv, Next
<1>2. ~CreatedLate
  BY <1>1 DEF OneOK, CreatedLate
<1>3. /\ alive' \subseteq alive /\ UNCHANGED <<back, mgr, listed, pending, faults>>
  BY <1>2 DEF ExpireLock, Restart, Kill, vars
<1>4. \A c \in Calls : pc'[c] = pc[c] \/ pc'[c] \in {"idle", "dead"}
  BY <1>2 DEF ExpireLock, Restart, Kill, vars
<1> QED BY <1>1, <1>3, <1>4 DEF OneOK, AtMostOnePerBackend, Owned

\* If the lock holds and no creation that was given up is carried out later, a
\* backend never has two live sandboxes of the session, whatever fails, dies or
\* restarts: a call creates one only after it has found none.
THEOREM OneHolds == Spec => []AtMostOnePerBackend
<1>1. Init => OneInv
  BY DEF Init, OneInv, OneOK, AtMostOnePerBackend
<1>2. IInv /\ KindInv /\ HoldInv /\ OneInv /\ [Next]_vars => KindInv' /\ HoldInv' /\ OneInv'
  BY StepKind, WorldKind, StepHold, WorldHold, StepOne, WorldOne DEF Next, Step
<1>3. OneInv => AtMostOnePerBackend
  BY DEF OneInv, OneOK, AtMostOnePerBackend
<1> QED BY <1>1, <1>2, <1>3, InitIInv, InitKind, InitHold, StepIInv, PTL DEF Spec

-----------------------------------------------------------------------------
(***************************************************************************)
(* Nothing left behind.  Without failures a live sandbox is bound, was let *)
(* go by another backend, or is in the hands of the call that created it;  *)
(* once a deletion has gone past its teardown, whatever lives was created  *)
(* later, and its creator is about to find that the session is gone.       *)
(***************************************************************************)
Faultless == faults \subseteq {"kill", "refuse"}

Kept(s) == s = binding \/ s \in abandoned \/ \E c \in Calls : pc[c] \in NewSteps /\ s = box[c]

KeptOK ==
  /\ cut = {} /\ pending = {}
  /\ \A c \in Calls : pc[c] # "dead" /\ (kind[c] = "delete" => pc[c] # "fail")
  /\ \A s \in alive : Kept(s)

KeptInv == Faultless => KeptOK

Torn(s) == s \in late \/ \E c \in Calls : pc[c] \in {"recheck", "cleanup"} /\ ~session /\ s = box[c]

TornOK ==
  /\ \A s \in alive : Torn(s)
  /\ Deleting = {} => ~session

TornInv == Faultless /\ "refuse" \notin faults /\ ~Together => TornOK

\* Without failures a call takes the steps of the code's normal course.
LEMMA CalmSteps ==
  ASSUME IInv, Faultless, KeptOK, NEW c \in Calls, HoldOK(c), Step(c)
  PROVE  LockedStep(c) \/ OutsideStep(c)
BY DEF Faultless, KeptOK, HoldOK, Step, FaultStep, LoseLock, NoticeLoss, StepFails, CanFail, CleanupFails,
       OutsideFails, Cancel, Crash

LEMMA OutsideCalm ==
  ASSUME TypeOK, NEW c \in Calls, OutsideStep(c)
  PROVE  /\ UNCHANGED <<alive, binding, abandoned, late, box, cut>>
         /\ pc[c] \in {"idle", "pin", "clear", "row", "lock", "return", "fail"}
         /\ pc'[c] \in {"pin", "lock", "done", "row", "clear", "read"}
<1> USE DEF Goto, At, Keep, store, cloud, calls, history
<1>a. pc \in [Calls -> PCs]
  BY DEF TypeOK
<1> QED BY <1>a DEF OutsideStep, StartExecution, Pin, StartDeletion, Clear, DeleteRow, Lock, Return, Fail, After

LEMMA LockedCalm ==
  ASSUME TypeOK, NEW c \in Calls, LockedStep(c), KindOK(c), HoldOK(c)
  PROVE  /\ cut' = cut
         /\ pc'[c] # "dead"
         /\ kind'[c] = "delete" => pc'[c] # "fail"
<1> USE Names
<1> USE DEF Goto, At, calls, Rest, Read
<1>a. pc \in [Calls -> PCs] /\ kind \in [Calls -> {"execute", "delete"}]
  BY DEF TypeOK
<1>1. CASE DestroyUnbind(c)
  BY <1>1, <1>a DEF DestroyUnbind, HoldOK, BoundSteps
<1>2. CASE ReadBinding(c) \/ Destroy(c)
  BY <1>2, <1>a DEF ReadBinding, Destroy, Teardown
<1>3. CASE CheckSession(c) \/ Connect(c) \/ Unbind(c) \/ List(c) \/ Adopt(c) \/ Duplicates(c) \/ BindSandbox(c)
             \/ Winner(c) \/ ConnectWinner(c) \/ Create(c) \/ Recheck(c) \/ WhoWon(c) \/ Cleanup(c)
  <2>1. cut' = cut /\ kind' = kind /\ pc'[c] # "dead"
    BY <1>3, <1>a DEF CheckSession, Connect, Unbind, List, Adopt, Duplicates, BindSandbox, Winner,
       ConnectWinner, Create, Recheck, WhoWon, Cleanup, Teardown
  <2>2. kind[c] # "delete"
    BY <1>3, <1>a DEF CheckSession, Connect, Unbind, List, Adopt, Duplicates, BindSandbox, Winner,
       ConnectWinner, Create, Recheck, WhoWon, Cleanup, BindSteps, KindOK, CallSteps, Ended
  <2> QED BY <2>1, <2>2
<1> QED BY <1>1, <1>2, <1>3 DEF LockedStep

\* What lives stays in somebody's hands.
LEMMA LockedKept ==
  ASSUME IInv, NEW c \in Calls, HoldOK(c), KeptOK, LockedStep(c), Alone(c),
         \A d \in Calls \ {c} : pc[d] \notin LockedSteps, NEW s \in alive'
  PROVE  Kept(s)'
<1> USE Names
<1> USE DEF Goto, At, Keep, store, cloud, calls, history, Rest, Read, UnchangedCloud, UnchangedBinding
<1>a. /\ pc \in [Calls -> PCs] /\ box \in [Calls -> (1 .. made) \union {None}]
      /\ alive \subseteq 1 .. made /\ made \in Nat
      /\ MayDrop(c) \/ pc[c] \notin UnbindSteps
  BY DEF IInv, TypeOK, CallOK
<1>b. s \in alive => s = binding \/ s \in abandoned \/ (pc[c] \in NewSteps /\ s = box[c])
  BY DEF KeptOK, Kept, NewSteps
<1>1. CASE ReadBinding(c) \/ CheckSession(c) \/ Connect(c) \/ List(c) \/ Adopt(c) \/ Destroy(c) \/ Duplicates(c)
             \/ Winner(c) \/ ConnectWinner(c) \/ WhoWon(c)
  <2>1. UNCHANGED <<binding, abandoned>> /\ alive' \subseteq alive /\ pc[c] \notin NewSteps
    BY <1>1 DEF ReadBinding, CheckSession, Connect, List, Adopt, Destroy, Deleted, Duplicates, Winner, ConnectWinner,
       WhoWon, NewSteps
  <2> QED BY <1>b, <2>1 DEF Kept
<1>2. CASE Unbind(c) \/ DestroyUnbind(c)
  <2>1. alive' = alive /\ Drop(c) /\ pc[c] \in UnbindSteps /\ pc[c] \notin NewSteps
    BY <1>2 DEF Unbind, DestroyUnbind, NewSteps, UnbindSteps
  <2> QED BY <1>a, <1>b, <2>1 DEF Drop, MayDrop, Kept
<1>3. CASE BindSandbox(c)
  <2>1. binding = None /\ alive' = alive /\ Bind(c) /\ s # None
    BY <1>3, <1>a DEF BindSandbox, BindSteps, HoldOK, UnboundSteps, Sandboxes, IInv, TypeOK
  <2> QED BY <1>b, <2>1 DEF Bind, Kept
<1>4. CASE Create(c)
  <2>1. CASE made < MaxSandboxes
    <3>1. /\ alive' = alive \union {made + 1} /\ box'[c] = made + 1 /\ pc'[c] \in NewSteps
          /\ pc[c] \notin NewSteps /\ UNCHANGED <<binding, abandoned>>
      BY <1>4, <2>1, <1>a DEF Create, Created, NewSteps
    <3> QED BY <1>b, <3>1 DEF Kept
  <2>2. CASE ~(made < MaxSandboxes)
    BY <1>4, <2>2, <1>b DEF Create, Kept, NewSteps
  <2> QED BY <2>1, <2>2
<1>5. CASE Recheck(c)
  <2>1. pc'[c] \in NewSteps /\ box' = box /\ UNCHANGED <<alive, binding, abandoned>>
    BY <1>5, <1>a DEF Recheck, NewSteps
  <2> QED BY <1>b, <2>1 DEF Kept
<1>6. CASE Cleanup(c)
  BY <1>6, <1>b DEF Cleanup, Kept
<1> QED BY <1>1, <1>2, <1>3, <1>4, <1>5, <1>6 DEF LockedStep

LEMMA StepKept ==
  ASSUME IInv, KindInv, HoldInv, KeptInv, NEW c \in Calls, Step(c)
  PROVE  KeptInv'
<1>1. SUFFICES ASSUME Faultless PROVE KeptOK'
  BY FaultsStay DEF KeptInv, Faultless, Next, Step
<1>2. /\ KeptOK /\ KindOK(c) /\ \A d \in Calls : HoldOK(d)
      /\ pending' = pending /\ Alone(c)
  BY <1>1, Creates, StepMoves DEF KeptInv, KindInv, HoldInv, Faultless, Moves, IInv
<1>3. LockedStep(c) \/ OutsideStep(c)
  BY <1>1, <1>2, CalmSteps
<1>4. cut' = {} /\ pc'[c] # "dead" /\ (kind'[c] = "delete" => pc'[c] # "fail")
  BY <1>2, <1>3, LockedCalm, OutsideCalm DEF KeptOK, IInv
<1>5. ASSUME NEW s \in alive' PROVE Kept(s)'
  <2>1. CASE LockedStep(c)
    <3>1. pc[c] \in LockedSteps
      BY <2>1, Names DEF LockedStep, ReadBinding, CheckSession, Connect, Unbind, Destroy, DestroyUnbind,
         List, Adopt, Duplicates, BindSandbox, Winner, ConnectWinner, Create, Recheck, WhoWon, Cleanup,
         At, BindSteps
    <3>2. \A d \in Calls \ {c} : pc[d] \notin LockedSteps
      BY <3>1, <1>2 DEF HoldOK
    <3> QED BY <2>1, <3>2, <1>2, <1>5, LockedKept
  <2>2. CASE OutsideStep(c)
    <3>1. /\ UNCHANGED <<alive, binding, abandoned, box>> /\ pc[c] \notin NewSteps
      BY <2>2, OutsideCalm DEF NewSteps, IInv
    <3> QED BY <3>1, <1>2, <1>5 DEF KeptOK, Kept, Alone
  <2> QED BY <1>3, <2>1, <2>2
<1> QED BY <1>2, <1>4, <1>5 DEF KeptOK, Alone

LEMMA WorldKept ==
  ASSUME IInv, KeptInv,
         ExpireLock \/ CreatedLate \/ Restart \/ (\E s \in Sandboxes : Kill(s)) \/ UNCHANGED vars
  PROVE  KeptInv'
<1> USE DEF store, cloud, calls, history, Rest, UnchangedBinding
<1>1. SUFFICES ASSUME Faultless, KeptOK PROVE KeptOK'
  BY FaultsStay DEF KeptInv, Faultless, Next
<1>2. ~CreatedLate /\ ~Restart
  BY <1>1 DEF KeptOK, CreatedLate, Restart, Faultless
<1>3. alive' \subseteq alive /\ UNCHANGED <<binding, abandoned, box, pc, kind, cut, pending>>
  BY <1>2 DEF ExpireLock, Kill, vars
<1> QED BY <1>1, <1>3 DEF KeptOK, Kept

\* The teardown of a deletion leaves nothing.
LEMMA TearDown ==
  ASSUME IInv, KindInv, PinInv, HoldInv, KeptInv, NEW c \in Calls, Step(c),
         Faultless, "refuse" \notin faults, Together, ~Together'
  PROVE  alive' = {} /\ Deleting' # {}
<1> USE Names
<1> USE DEF Goto, At, Keep, store, cloud, calls, history, Rest, Read, UnchangedCloud, UnchangedBinding
<1>a. /\ pc \in [Calls -> PCs] /\ kind \in [Calls -> {"execute", "delete"}]
      /\ alive \subseteq 1 .. made /\ made \in Nat
      /\ MayDrop(c) \/ pc[c] \notin UnbindSteps
  BY DEF IInv, TypeOK, CallOK
<1>b. /\ KeptOK /\ PinOK /\ KindOK(c) /\ session /\ \A d \in Calls : HoldOK(d)
  BY DEF KeptInv, PinInv, KindInv, HoldInv, Faultless
<1>c. Path(c) /\ Alone(c) /\ (LockedStep(c) \/ OutsideStep(c))
  BY <1>b, StepPath, StepMoves, CalmSteps DEF IInv, Moves
<1>d. kind'[c] = "delete" /\ pc'[c] \notin CallSteps
  <2>1. ASSUME NEW d \in Calls \ {c}, kind'[d] = "delete" PROVE pc'[d] \in CallSteps
    BY <2>1, <1>c DEF Together, Alone
  <2> QED BY <2>1 DEF Together
<1>e. kind[c] = "delete" => pc[c] \in CallSteps
  BY DEF Together
<1>1. CASE LockedStep(c)
  <2>1. pc[c] \in LockedSteps /\ kind' = kind
    BY <1>1 DEF LockedStep, ReadBinding, CheckSession, Connect, Unbind, Destroy, DestroyUnbind,
       List, Adopt, Duplicates, BindSandbox, Winner, ConnectWinner, Create, Recheck, WhoWon, Cleanup,
       BindSteps
  <2>2. pc[c] \in {"read", "destroy", "destroyUnbind"}
    BY <2>1, <1>d, <1>e DEF CallSteps
  <2>3. \A s \in alive : s = binding
    BY <2>1, <2>2, <1>b DEF KeptOK, Kept, PinOK, HoldOK, NewSteps
  <2>4. pc'[c] = "return" /\ alive' = {}
    <3>1. CASE ReadBinding(c)
      <4>1. alive' = alive /\ binding = None /\ pc'[c] = "return"
        BY <3>1, <1>a, <1>d, <2>1 DEF ReadBinding, Teardown, CallSteps
      <4> QED BY <4>1, <2>3, <1>a DEF Sandboxes, IInv, TypeOK
    <3>2. CASE DestroyUnbind(c)
      <4>1. alive' = alive /\ binding = seen[c] /\ pc'[c] = "return"
        BY <3>2, <1>a, <1>b, <1>d, <2>1 DEF DestroyUnbind, HoldOK, BoundSteps
      <4>2. ASSUME NEW s \in alive PROVE FALSE
        <5>1. s = seen[c] /\ s = binding /\ s # None
          BY <4>1, <4>2, <2>3, <1>a DEF Sandboxes, IInv, TypeOK
        <5>2. back[seen[c]] = mgr[c]
          BY <5>1, <3>2, <1>b DEF DestroyUnbind, PinOK, Held
        <5> QED BY <5>1, <5>2, <3>2, <1>a DEF DestroyUnbind, MayDrop, UnbindSteps
      <4> QED BY <4>1, <4>2
    <3>3. CASE Destroy(c)
      BY <3>3, <1>a, <1>d DEF Destroy, CallSteps
    <3> QED BY <1>1, <2>2, <3>1, <3>2, <3>3 DEF LockedStep, CheckSession, Connect, Unbind, List, Adopt,
               Duplicates, BindSandbox, Winner, ConnectWinner, Create, Recheck, WhoWon, Cleanup, BindSteps
  <2> QED BY <2>4, <1>d DEF Deleting
<1>2. CASE OutsideStep(c)
  <2>1. pc[c] \in {"idle", "pin", "lock"} /\ UNCHANGED alive
    <3>1. alive' = alive /\ pc[c] \in {"idle", "pin", "clear", "row", "lock", "return", "fail"}
      BY <1>2, OutsideCalm DEF IInv
    <3>2. pc[c] # "idle" => kind[c] = "delete"
      BY <1>c, <1>d DEF Path
    <3> QED BY <3>1, <3>2, <1>e DEF CallSteps
  <2>2. StartDeletion(c)
    BY <1>2, <2>1, <1>a, <1>d, <1>e DEF OutsideStep, StartExecution, Pin, Clear, DeleteRow, Lock, Return,
       Fail, CallSteps
  <2>3. pin = None /\ pc'[c] = "row"
    BY <2>2, <1>a, <1>d DEF StartDeletion, CallSteps, Faultless
  <2>4. alive = {}
    BY <2>3, <1>a, <1>b DEF PinOK
  <2> QED BY <2>1, <2>3, <2>4, <1>d DEF Deleting
<1> QED BY <1>1, <1>2, <1>c

\* A deletion under way is over when the row is gone.
LEMMA RowGoes ==
  ASSUME TypeOK, NEW c \in Calls, LockedStep(c) \/ OutsideStep(c), cut = {}, "net" \notin faults,
         c \in Deleting, kind'[c] # "delete" \/ pc'[c] \notin {"clear", "row", "return", "fail"}
  PROVE  ~session'
<1> USE DEF Goto, At, Keep, store, cloud, calls, history, Rest, Read
<1>a. pc \in [Calls -> PCs] /\ kind[c] = "delete" /\ pc[c] \in {"clear", "row", "return", "fail"}
  BY DEF TypeOK, Deleting
<1>1. ~LockedStep(c)
  BY <1>a DEF LockedStep, ReadBinding, CheckSession, Connect, Unbind, Destroy, DestroyUnbind,
     List, Adopt, Duplicates, BindSandbox, Winner, ConnectWinner, Create, Recheck, WhoWon, Cleanup,
     BindSteps
<1>2. CASE OutsideStep(c)
  BY <1>2, <1>a DEF OutsideStep, StartExecution, Pin, StartDeletion, Clear, DeleteRow, Lock, Return,
     Fail, After
<1> QED BY <1>1, <1>2

LEMMA StepTorn ==
  ASSUME IInv, KindInv, PinInv, HoldInv, KeptInv, TornInv, NEW c \in Calls, Step(c)
  PROVE  TornInv'
<1>1. SUFFICES ASSUME Faultless, "refuse" \notin faults, ~Together' PROVE TornOK'
  BY FaultsStay DEF TornInv, Faultless, Next, Step
<1>a. /\ KeptOK /\ KindOK(c) /\ HoldOK(c) /\ Path(c) /\ Alone(c) /\ TypeOK
      /\ LockedStep(c) \/ OutsideStep(c)
  <2>1. KeptOK /\ KindOK(c) /\ HoldOK(c) /\ TypeOK
    BY <1>1 DEF KeptInv, KindInv, HoldInv, Faultless, IInv
  <2> QED BY <1>1, <2>1, StepPath, StepMoves, CalmSteps DEF Moves
<1>2. CASE Together
  <2>1. alive' = {} /\ Deleting' # {}
    BY <1>1, <1>2, TearDown
  <2> QED BY <2>1 DEF TornOK
<1>3. CASE ~Together
  <2>1. TornOK
    BY <1>1, <1>3 DEF TornInv
  <2>2. Deleting' = {} => ~session'
    <3>1. SUFFICES ASSUME Deleting' = {} PROVE ~session'
      OBVIOUS
    <3>2. CASE Deleting = {}
      BY <3>2, <2>1, <1>a DEF TornOK, Path
    <3>3. CASE Deleting # {}
      <4>1. PICK d \in Calls : d \in Deleting
        BY <3>3 DEF Deleting
      <4>2. d = c
        BY <4>1, <3>1, <1>a DEF Deleting, Alone
      <4>3. kind'[c] # "delete" \/ pc'[c] \notin {"clear", "row", "return", "fail"}
        BY <3>1 DEF Deleting
      <4> QED BY <4>1, <4>2, <4>3, <1>1, <1>a, RowGoes DEF KeptOK, Faultless
    <3> QED BY <3>2, <3>3
  <2>3. ASSUME NEW s \in alive' PROVE Torn(s)'
    <3>1. (\A d \in Calls \ {c} : pc'[d] = pc[d] /\ box'[d] = box[d]) /\ (~session => ~session')
      BY <1>a DEF Alone, Path
    <3>2. CASE Create(c) /\ s \notin alive
      <4>1. /\ box'[c] = s /\ pc'[c] = "recheck"
            /\ s \in late' \/ Deleting = {}
        BY <3>2, <2>3, <1>a DEF Create, Created, UnchangedCloud, cloud, TypeOK, Goto
      <4> QED BY <4>1, <2>1, <3>1 DEF TornOK, Torn
    <3>3. CASE s \in alive
      <4>1. late \subseteq late'
        BY <1>a, OutsideCalm DEF LockedStep, ReadBinding, CheckSession, Connect, Unbind, Destroy, DestroyUnbind,
           List, Adopt, Duplicates, BindSandbox, Winner, ConnectWinner, Create, Created, Recheck, WhoWon, Cleanup,
           Read, UnchangedCloud
      <4>2. ASSUME pc[c] \in {"recheck", "cleanup"}, ~session, s = box[c]
            PROVE  pc'[c] = "cleanup" /\ box'[c] = box[c]
        <5>1. LockedStep(c)
          BY <4>2, <1>a, OutsideCalm
        <5>2. Recheck(c) \/ Cleanup(c)
          BY <5>1, <4>2 DEF LockedStep, ReadBinding, CheckSession, Connect, Unbind, Destroy, DestroyUnbind,
             List, Adopt, Duplicates, BindSandbox, Winner, ConnectWinner, Create, WhoWon, At, BindSteps
        <5>3. ~Cleanup(c)
          BY <4>2, <2>3 DEF Cleanup
        <5> QED BY <5>2, <5>3, <4>2, <1>a DEF Recheck, Goto, TypeOK
      <4>3. Torn(s)
        BY <3>3, <2>1 DEF TornOK
      <4> QED BY <4>1, <4>2, <4>3, <3>1 DEF Torn
    <3>4. s \in alive \/ Create(c)
      BY <2>3, <1>a, OutsideCalm DEF Deleted, LockedStep, ReadBinding, CheckSession, Connect, Unbind, Destroy, DestroyUnbind,
         List, Adopt, Duplicates, BindSandbox, Winner, ConnectWinner, Recheck, WhoWon, Cleanup, Read,
         UnchangedCloud, cloud
    <3> QED BY <3>2, <3>3, <3>4
  <2> QED BY <2>2, <2>3 DEF TornOK
<1> QED BY <1>2, <1>3

LEMMA WorldTorn ==
  ASSUME IInv, KindInv, KeptInv, TornInv,
         ExpireLock \/ CreatedLate \/ Restart \/ (\E s \in Sandboxes : Kill(s)) \/ UNCHANGED vars
  PROVE  TornInv'
<1> USE DEF store, cloud, calls, history, Rest, UnchangedBinding
<1>1. SUFFICES ASSUME Faultless, "refuse" \notin faults, ~Together', KeptOK PROVE TornOK'
  BY FaultsStay DEF TornInv, KeptInv, Faultless, Next
<1>2. ~CreatedLate /\ ~Restart
  BY <1>1 DEF KeptOK, CreatedLate, Restart, Faultless
<1>3. alive' \subseteq alive /\ UNCHANGED <<session, box, pc, kind, late>>
  BY <1>2 DEF ExpireLock, Kill, vars
<1>4. TornOK
  BY <1>1, <1>3 DEF TornInv, Together
<1> QED BY <1>3, <1>4 DEF TornOK, Torn, Deleting

\* Without failures, when nobody works a live sandbox is the bound one or one
\* that another backend let go, and a deleted session leaves only sandboxes
\* that were created after its teardown.
THEOREM NothingLeft == Spec => []NothingLeftBehind
<1> DEFINE Ok == IInv /\ KindInv /\ PinInv /\ HoldInv /\ KeptInv /\ TornInv
<1>1. Init => Ok
  <2>1. Init => PinInv
    BY Names DEF Init, PinInv, PinOK, Held
  <2>2. Init => KeptInv /\ TornInv
    BY DEF Init, KeptInv, KeptOK, TornInv, Together
  <2> QED BY <2>1, <2>2, InitIInv, InitKind, InitHold
<1>2. Ok /\ [Next]_vars => Ok'
  BY StepIInv, StepKind, WorldKind, StepPin, WorldPin, StepHold, WorldHold, StepKept, WorldKept, StepTorn,
     WorldTorn DEF Next, Step
<1>3. Ok => NothingLeftBehind
  <2> SUFFICES ASSUME Ok, Faultless, \A c \in Calls : pc[c] \in {"idle", "done"}
               PROVE  /\ alive \subseteq {binding} \union abandoned
                      /\ (~session /\ "refuse" \notin faults) => alive \subseteq late \union abandoned
    BY DEF NothingLeftBehind, Faultless
  <2>1. alive \subseteq {binding} \union abandoned
    BY DEF KeptInv, KeptOK, Kept, NewSteps
  <2>2. (~session /\ "refuse" \notin faults) => alive \subseteq late
    BY DEF KindInv, TornInv, TornOK, Torn
  <2> QED BY <2>1, <2>2
<1> QED BY <1>1, <1>2, <1>3, PTL DEF Spec

=============================================================================
