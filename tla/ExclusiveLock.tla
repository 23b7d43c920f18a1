--------------------------- MODULE ExclusiveLock ---------------------------
(***************************************************************************)
(* What WithRenewableLock promises those who do their work under it: the   *)
(* callback of a call runs while the call holds the lock, and a call that  *)
(* returns no error held the lock from its beginning to its end.  Only a   *)
(* stall takes the lock from a call at work, which then cannot win.        *)
(*                                                                         *)
(* RedisLock implements this; SandboxSession relies on it.                 *)
(***************************************************************************)
CONSTANTS Calls, Nobody

VARIABLES faults,   \* what may go wrong, as in RedisLock
          holder,   \* the call at work that owns the lock, or Nobody
          phase,    \* where each call is; a call told of its loss is over
          freed     \* calls at work that have given the lock back themselves
lockVars == <<faults, holder, phase, freed>>

Init ==
  /\ holder = Nobody
  /\ phase = [c \in Calls |-> "out"]
  /\ freed = {}

Moves(c, from, to) == phase[c] = from /\ phase' = [phase EXCEPT ![c] = to]

\* A call starts its work with the lock.  When something stalls, the lock it
\* was given may be gone.
Enter(c) ==
  /\ Moves(c, "out", "in")
  /\ \/ holder = Nobody /\ holder' = c
     \/ "stall" \in faults /\ UNCHANGED holder
  /\ UNCHANGED <<faults, freed>>

GiveUp(c) ==
  /\ Moves(c, "out", "over")
  /\ UNCHANGED <<faults, holder, freed>>

Depose(c) ==
  /\ "stall" \in faults
  /\ holder = c /\ holder' = Nobody
  /\ UNCHANGED <<faults, phase, freed>>

Free(c) ==
  /\ phase[c] = "in" /\ holder = c
  /\ holder' = Nobody
  /\ freed' = freed \union {c}
  /\ UNCHANGED <<faults, phase>>

\* The answer to the release is lost.
Doubt(c) ==
  /\ "retry" \in faults
  /\ c \in freed /\ freed' = freed \ {c}
  /\ UNCHANGED <<faults, holder, phase>>

\* No error: the lock was its own until it gave it back.
Win(c) ==
  /\ Moves(c, "in", "won")
  /\ c \in freed /\ freed' = freed \ {c}
  /\ UNCHANGED <<faults, holder>>

\* An error, the news that the lock is lost, or death.
Fail(c) ==
  /\ Moves(c, "in", "over")
  /\ holder' = IF holder = c THEN Nobody ELSE holder
  /\ freed' = freed \ {c}
  /\ UNCHANGED faults

Next == \E c \in Calls :
  Enter(c) \/ GiveUp(c) \/ Depose(c) \/ Free(c) \/ Doubt(c) \/ Win(c) \/ Fail(c)

Spec == Init /\ [][Next]_lockVars
=============================================================================
