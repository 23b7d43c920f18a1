------------------------- MODULE ModelLimiterProofs -------------------------
(***************************************************************************)
(* The limiter over Redis admits within the limit, for any calls, limits,  *)
(* leases, heartbeats and clock differences that satisfy SlackAssumption.  *)
(***************************************************************************)
EXTENDS ModelLimiter, FiniteSetTheorems, TLAPS

USE DEF set

SmoothRun == {"stall", "net"} \intersect faults = {}

\* Scripts on their way belong to calls that wait for them or gave them up.
WireOK(c) ==
  /\ c \in wire => (pc[c] = "ask" /\ reply[c] = "none") \/ c \in open \/ pc[c] = "crashed"
  /\ c \in open => pc[c] \in {"call", "freed", "crashed"}
  /\ reply[c] # "none" => pc[c] = "ask"
  /\ beater[c] # "off" => pc[c] \in {"call", "free", "freed"} /\ clock[c] < Beat

WiresOK == IsFiniteSet(zset) /\ \A c \in Calls : WireOK(c)

\* How much older than its ticker's phase a holder's score may be, and the
\* last PEXPIRE of the set.
LeaseAge(c) ==
  IF beater[c] = "pexpire" THEN 0
  ELSE IF beater[c] = "zadd" \/ c \in ticked THEN Beat + Slack
  ELSE Slack
KeyAge(c) == IF beater[c] \in {"zadd", "pexpire"} \/ c \in ticked THEN Beat + Slack ELSE Slack

Timely(c) ==
  /\ Due(c) => clock[c] <= Slack
  /\ pc[c] = "ask" /\ reply[c] = "yes" =>
       c \in zset /\ lease[c] + clock[c] >= TTL /\ keyLeft + clock[c] >= 2 * TTL
  /\ pc[c] = "call" /\ c \notin open =>
       /\ c \in zset /\ beater[c] # "off"
       /\ lease[c] + clock[c] + LeaseAge(c) >= TTL
       /\ keyLeft + clock[c] + KeyAge(c) >= 2 * TTL

TimelyOK == SmoothRun => \A c \in Calls : Timely(c)

IInv == TypeOK /\ WiresOK /\ TimelyOK

LEMMA InitIInv == Init => IInv
<1> SUFFICES ASSUME Init PROVE IInv
  OBVIOUS
<1>1. IsFiniteSet(zset)
  BY FS_EmptySet DEF Init
<1> QED
  BY <1>1, LimiterAssumption DEF Init, IInv, TypeOK, WiresOK, WireOK, TimelyOK, Timely, Due

-----------------------------------------------------------------------------
(* Types and wires *)

LEMMA TypeStep == TypeOK /\ WiresOK /\ [Next]_vars => TypeOK'
<1> SUFFICES ASSUME TypeOK, WiresOK, [Next]_vars PROVE TypeOK'
  OBVIOUS
<1> USE LimiterAssumption DEF TypeOK, Go
<1>1. ASSUME NEW n \in 0 .. MaxLimit, SetGlobalLimit(n) PROVE TypeOK'
  BY <1>1 DEF SetGlobalLimit
<1>2. ASSUME NEW c \in Calls, GateNamedN(c) PROVE TypeOK'
  BY <1>2 DEF GateNamedN
<1>3. ASSUME NEW c \in Calls, acquireScript(c) PROVE TypeOK'
  BY <1>3 DEF acquireScript, Answer, Live
<1>4. ASSUME NEW c \in Calls, Acquire(c) PROVE TypeOK'
  BY <1>4 DEF Acquire, hold, Full, PollAgain, ReadReply
<1>5. ASSUME NEW c \in Calls, FailOpen(c) PROVE TypeOK'
  BY <1>5 DEF FailOpen
<1>6. ASSUME NEW c \in Calls, Heartbeat(c) PROVE TypeOK'
  BY <1>6 DEF Heartbeat, StartBeat, BeatLease, BeatKey, StopBeat, Heart, ZAdd, PExpire
<1>7. ASSUME NEW c \in Calls, release(c) \/ Drop(c) PROVE TypeOK'
  BY <1>7 DEF release, Drop, ZRem
<1>8. ASSUME NEW c \in Calls, Rerun(c) \/ Crash(c) PROVE TypeOK'
  BY <1>8 DEF Rerun, Crash, Heart
<1>9. CASE Tick
  <2>1. ASSUME NEW c \in Calls PROVE clock'[c] \in 0 .. Beat
    <3>1. clock[c] \in 0 .. Beat /\ 0 \in 0 .. Beat
      OBVIOUS
    <3>2. Counts(c) => clock[c] < Beat
      BY DEF Counts, WiresOK, WireOK
    <3>3. Counts(c) => clock[c] + 1 \in 0 .. Beat
      BY <3>1, <3>2
    <3>4. clock'[c] = IF Fires(c) THEN 0 ELSE IF Counts(c) THEN clock[c] + 1 ELSE clock[c]
      BY <1>9 DEF Tick
    <3> QED
      BY <3>1, <3>3, <3>4, Zenon
  <2>2. clock' \in [Calls -> 0 .. Beat]
    BY <1>9, <2>1 DEF Tick
  <2> QED
    BY <1>9, <2>2 DEF Tick
<1>10. CASE UNCHANGED vars
  BY <1>10 DEF vars
<1> QED
  BY <1>1, <1>2, <1>3, <1>4, <1>5, <1>6, <1>7, <1>8, <1>9, <1>10 DEF Next

LEMMA FiniteStep == TypeOK /\ WiresOK /\ [Next]_vars => IsFiniteSet(zset')
<1> SUFFICES ASSUME TypeOK, WiresOK, [Next]_vars PROVE IsFiniteSet(zset')
  OBVIOUS
<1>1. zset' \subseteq zset \/ \E c \in Calls : zset' \subseteq zset \union {c}
  <2>1. ASSUME NEW c \in Calls, acquireScript(c) PROVE zset' \subseteq zset \union {c}
    BY <2>1 DEF acquireScript, Live
  <2>2. ASSUME NEW c \in Calls, Heartbeat(c) PROVE zset' \subseteq zset \union {c}
    BY <2>2 DEF Heartbeat, StartBeat, BeatLease, BeatKey, StopBeat, ZAdd, PExpire
  <2>3. ASSUME NEW c \in Calls,
               GateNamedN(c) \/ Acquire(c) \/ FailOpen(c) \/ release(c) \/ Drop(c) \/ Rerun(c) \/ Crash(c)
        PROVE  zset' \subseteq zset
    BY <2>3 DEF GateNamedN, Acquire, hold, Full, PollAgain, ReadReply, FailOpen, release, Drop,
      ZRem, Rerun, Crash
  <2>4. Tick \/ UNCHANGED vars \/ (\E n \in 0 .. MaxLimit : SetGlobalLimit(n)) => zset' \subseteq zset
    BY DEF Tick, vars, SetGlobalLimit
  <2> QED
    BY <2>1, <2>2, <2>3, <2>4 DEF Next
<1>2. \A c \in Calls : IsFiniteSet(zset \union {c})
  BY FS_AddElement DEF WiresOK
<1> QED
  BY <1>1, <1>2, FS_Subset DEF WiresOK

LEMMA WiresStep == TypeOK /\ WiresOK /\ [Next]_vars => WiresOK'
<1> SUFFICES ASSUME TypeOK, WiresOK, [Next]_vars, NEW d \in Calls PROVE WireOK(d)'
  BY FiniteStep DEF WiresOK
<1> WireOK(d)
  BY DEF WiresOK
<1> USE LimiterAssumption DEF TypeOK, WireOK, Go
<1>1. ASSUME NEW n \in 0 .. MaxLimit, SetGlobalLimit(n) PROVE WireOK(d)'
  BY <1>1 DEF SetGlobalLimit
<1>2. ASSUME NEW c \in Calls, GateNamedN(c) PROVE WireOK(d)'
  BY <1>2 DEF GateNamedN
<1>3. ASSUME NEW c \in Calls, acquireScript(c) PROVE WireOK(d)'
  BY <1>3 DEF acquireScript, Answer
<1>4. ASSUME NEW c \in Calls, Acquire(c) PROVE WireOK(d)'
  BY <1>4 DEF Acquire, hold, Full, PollAgain, ReadReply
<1>5. ASSUME NEW c \in Calls, FailOpen(c) PROVE WireOK(d)'
  BY <1>5 DEF FailOpen
<1>6. ASSUME NEW c \in Calls, Heartbeat(c) PROVE WireOK(d)'
  BY <1>6 DEF Heartbeat, StartBeat, BeatLease, BeatKey, StopBeat, Heart
<1>7. ASSUME NEW c \in Calls, release(c) \/ Drop(c) PROVE WireOK(d)'
  BY <1>7 DEF release, Drop
<1>8. ASSUME NEW c \in Calls, Rerun(c) \/ Crash(c) PROVE WireOK(d)'
  BY <1>8 DEF Rerun, Crash, Heart
<1>9. CASE Tick
  <2>1. clock'[d] = IF Fires(d) THEN 0 ELSE IF Counts(d) THEN clock[d] + 1 ELSE clock[d]
    BY <1>9 DEF Tick
  <2>2. beater[d] # "off" => clock'[d] < Beat
    BY <2>1 DEF Fires, Counts
  <2> QED
    BY <1>9, <2>2 DEF Tick
<1>10. CASE UNCHANGED vars
  BY <1>10 DEF vars
<1> QED
  BY <1>1, <1>2, <1>3, <1>4, <1>5, <1>6, <1>7, <1>8, <1>9, <1>10 DEF Next

-----------------------------------------------------------------------------
(* Leases *)

\* While nothing stalls or fails, every holder has more of its lease left
\* than two clocks can differ by.
LEMMA HoldersLive ==
  ASSUME TypeOK, WiresOK, SmoothRun, NEW c \in Calls, Timely(c), c \in Holders
  PROVE  c \in zset /\ lease[c] > Skew /\ keyLeft > 1
<1>1. /\ TTL \in Nat /\ Beat \in Nat /\ Slack \in Nat /\ Skew \in Nat
      /\ lease[c] \in Nat /\ clock[c] \in Nat /\ keyLeft \in Nat
  BY LimiterAssumption DEF TypeOK
<1>2. Slack < Beat /\ Beat + 2 * Slack + Skew < TTL
  BY SlackAssumption DEF SmoothRun, TypeOK
<1>3. CASE pc[c] = "ask" /\ reply[c] = "yes"
  <2>1. clock[c] <= Slack
    BY <1>3 DEF Timely, Due
  <2> QED
    BY <2>1, <1>1, <1>2, <1>3 DEF Timely
<1>4. CASE pc[c] = "call" /\ c \notin open
  <2>1. c \in zset /\ beater[c] # "off"
        /\ lease[c] + clock[c] + LeaseAge(c) >= TTL /\ keyLeft + clock[c] + KeyAge(c) >= 2 * TTL
    BY <1>4 DEF Timely
  <2>2. clock[c] < Beat
    BY <2>1 DEF WiresOK, WireOK
  <2>3. CASE Due(c)
    <3>1. clock[c] <= Slack
      BY <2>3 DEF Timely
    <3>2. LeaseAge(c) <= Beat + Slack /\ KeyAge(c) <= Beat + Slack /\ LeaseAge(c) \in Nat /\ KeyAge(c) \in Nat
      BY <1>1 DEF LeaseAge, KeyAge
    <3> QED
      BY <2>1, <3>1, <3>2, <1>1, <1>2
  <2>4. CASE ~ Due(c)
    <3>1. LeaseAge(c) = Slack /\ KeyAge(c) = Slack
      BY <2>4 DEF Due, LeaseAge, KeyAge
    <3> QED
      BY <2>1, <2>2, <3>1, <1>1, <1>2
  <2> QED
    BY <2>3, <2>4
<1> QED
  BY <1>3, <1>4 DEF Holders

LEMMA TimelyScript ==
  ASSUME TypeOK, WiresOK, SmoothRun, NEW c \in Calls, Timely(c),
         NEW d \in Calls, acquireScript(d)
  PROVE  Timely(c)'
<1> USE LimiterAssumption DEF TypeOK, Timely, Due, LeaseAge, KeyAge
<1>1. UNCHANGED <<pc, open, beater, clock, ticked>>
  BY DEF acquireScript
<1>2. CASE c \in Holders /\ c # d
  <2>1. c \in zset /\ lease[c] > Skew
    BY <1>2, HoldersLive
  <2>2. PICK age \in 0 .. Skew : c \in Live(age)
    BY <2>1 DEF Live
  <2>3. c \in zset' /\ lease'[c] = lease[c] /\ reply'[c] = reply[c] /\ keyLeft' \in {keyLeft, 2 * TTL}
    BY <1>2, <2>1 DEF acquireScript, Answer, Live
  <2>4. UNCHANGED <<LeaseAge(c), KeyAge(c)>> /\ LeaseAge(c) \in Nat /\ KeyAge(c) \in Nat
    BY <1>1
  <2>5. TTL \in Nat /\ clock[c] \in Nat /\ keyLeft \in Nat
    OBVIOUS
  <2>6. keyLeft' \in Nat /\ (keyLeft' = keyLeft \/ keyLeft' = 2 * TTL)
    BY <2>3, <2>5
  <2> HIDE DEF LeaseAge, KeyAge, TypeOK
  <2>7. keyLeft + clock[c] >= 2 * TTL => keyLeft' + clock[c] >= 2 * TTL
    BY <2>6, <2>5
  <2>8. keyLeft + clock[c] + KeyAge(c) >= 2 * TTL => keyLeft' + clock[c] + KeyAge(c) >= 2 * TTL
    BY <2>4, <2>5, <2>6
  <2> QED
    BY <1>1, <2>3, <2>4, <2>7, <2>8
<1>3. CASE c \notin Holders /\ c # d
  <2>1. reply'[c] = reply[c]
    BY <1>3 DEF acquireScript, Answer
  <2> QED
    BY <1>1, <1>3, <2>1 DEF Holders
<1>4. CASE c = d
  <2>1. (pc[c] = "ask" /\ reply[c] = "none") \/ c \in open \/ pc[c] = "crashed"
    BY <1>4 DEF acquireScript, WiresOK, WireOK
  <2>2. c \in open => pc[c] \in {"call", "freed", "crashed"}
    BY DEF WiresOK, WireOK
  <2>3. reply'[c] = "yes" /\ pc[c] = "ask" => c \in zset' /\ lease'[c] = TTL /\ keyLeft' = 2 * TTL
    BY <1>4, <2>1, <2>2 DEF acquireScript, Answer
  <2> QED
    BY <1>1, <2>1, <2>2, <2>3
<1> QED
  BY <1>2, <1>3, <1>4

LEMMA TimelyCall ==
  ASSUME TypeOK, WiresOK, SmoothRun, NEW c \in Calls, Timely(c), NEW d \in Calls,
         \/ GateNamedN(d) \/ Acquire(d) \/ FailOpen(d)
         \/ Heartbeat(d) \/ release(d) \/ Drop(d) \/ Rerun(d) \/ Crash(d)
  PROVE  Timely(c)'
<1> USE LimiterAssumption DEF TypeOK, Timely, Due, LeaseAge, KeyAge, Go, Heart
<1> WireOK(c)
  BY DEF WiresOK
<1>1. CASE GateNamedN(d)
  BY <1>1 DEF GateNamedN, WireOK
<1>2. CASE hold(d)
  BY <1>2 DEF hold, ReadReply, WireOK
<1>3. CASE Full(d)
  BY <1>3 DEF Full, ReadReply
<1>4. CASE PollAgain(d)
  BY <1>4 DEF PollAgain, WireOK
<1>5. CASE FailOpen(d)
  BY <1>5 DEF FailOpen, WireOK
<1>6. CASE StartBeat(d)
  BY <1>6 DEF StartBeat
<1>7. CASE BeatLease(d)
  BY <1>7 DEF BeatLease, ZAdd, SmoothRun, WireOK
<1>8. CASE BeatKey(d)
  BY <1>8 DEF BeatKey, PExpire, SmoothRun, WireOK
<1>9. CASE StopBeat(d)
  BY <1>9 DEF StopBeat
<1>10. CASE release(d)
  BY <1>10 DEF release
<1>11. CASE Drop(d)
  BY <1>11 DEF Drop, ZRem, SmoothRun
<1>12. CASE Rerun(d)
  BY <1>12 DEF Rerun
<1>13. CASE Crash(d)
  BY <1>13 DEF Crash
<1> QED
  BY <1>1, <1>2, <1>3, <1>4, <1>5, <1>6, <1>7, <1>8, <1>9, <1>10, <1>11, <1>12, <1>13
  DEF Acquire, Heartbeat

LEMMA TimelyTick ==
  ASSUME TypeOK, WiresOK, SmoothRun, Tick, NEW c \in Calls, Timely(c)
  PROVE  Timely(c)'
<1>1. /\ TTL \in Nat /\ Beat \in Nat /\ Slack \in Nat
      /\ lease[c] \in Nat /\ clock[c] \in Nat /\ keyLeft \in Nat
  BY LimiterAssumption DEF TypeOK
<1>2. Slack < Beat /\ Beat > 0
  BY SlackAssumption, LimiterAssumption DEF SmoothRun, TypeOK
<1>3. Due(c) => clock[c] < Slack
  BY DEF Tick, InTime, SmoothRun
<1>4. UNCHANGED <<pc, reply, open, beater>>
  BY DEF Tick
<1>5. clock'[c] = IF Fires(c) THEN 0 ELSE IF Counts(c) THEN clock[c] + 1 ELSE clock[c]
  BY DEF Tick
<1>6. c \in ticked' <=> c \in ticked \/ Fires(c)
  BY DEF Tick, TypeOK
<1>7. c \in Holders => c \in zset' /\ lease'[c] = lease[c] - 1 /\ keyLeft' = keyLeft - 1
  <2> SUFFICES ASSUME c \in Holders
               PROVE  c \in zset' /\ lease'[c] = lease[c] - 1 /\ keyLeft' = keyLeft - 1
    OBVIOUS
  <2>1. c \in zset /\ lease[c] > Skew /\ keyLeft > 1 /\ Skew \in Nat
    BY HoldersLive, LimiterAssumption
  <2> QED
    BY <2>1, <1>1 DEF Tick
<1>8. Fires(c) => beater[c] # "off" /\ clock[c] + 1 = Beat
  BY DEF Fires
<1>9. Due(c)' => clock'[c] <= Slack
  <2>1. CASE Fires(c)
    BY <2>1, <1>1, <1>5
  <2>2. CASE ~ Fires(c)
    <3>1. Due(c)' => Due(c)
      BY <2>2, <1>4, <1>6 DEF Due
    <3>2. clock'[c] = clock[c] \/ clock'[c] = clock[c] + 1
      BY <2>2, <1>5
    <3> QED
      BY <3>1, <3>2, <1>1, <1>3
  <2> QED
    BY <2>1, <2>2
<1>10. ASSUME pc'[c] = "ask", reply'[c] = "yes"
       PROVE  c \in zset' /\ lease'[c] + clock'[c] >= TTL /\ keyLeft' + clock'[c] >= 2 * TTL
  <2>1. c \in Holders /\ lease[c] + clock[c] >= TTL /\ keyLeft + clock[c] >= 2 * TTL
    BY <1>10, <1>4 DEF Timely, Holders
  <2>2. clock[c] < Beat /\ ~ Fires(c)
    <3>1. clock[c] < Slack
      BY <1>10, <1>3, <1>4 DEF Due
    <3> QED
      BY <3>1, <1>1, <1>2, <1>8, LimiterAssumption
  <2>3. Counts(c)
    BY <2>2, <1>10, <1>4 DEF Counts
  <2> QED
    BY <2>1, <2>2, <2>3, <1>1, <1>5, <1>7
<1>11. ASSUME pc'[c] = "call", c \notin open'
       PROVE  /\ c \in zset' /\ beater'[c] # "off"
              /\ lease'[c] + clock'[c] + LeaseAge(c)' >= TTL
              /\ keyLeft' + clock'[c] + KeyAge(c)' >= 2 * TTL
  <2>1. /\ c \in Holders /\ beater[c] # "off"
        /\ lease[c] + clock[c] + LeaseAge(c) >= TTL /\ keyLeft + clock[c] + KeyAge(c) >= 2 * TTL
    BY <1>11, <1>4 DEF Timely, Holders
  <2>2. LeaseAge(c) \in Nat /\ KeyAge(c) \in Nat
    BY <1>1 DEF LeaseAge, KeyAge
  <2>3. Counts(c)
    BY <2>1 DEF Counts
  <2>4. CASE ~ Fires(c)
    <3>1. clock'[c] = clock[c] + 1
      BY <2>3, <2>4, <1>5
    <3>2. LeaseAge(c)' = LeaseAge(c) /\ KeyAge(c)' = KeyAge(c)
      BY <2>4, <1>4, <1>6 DEF LeaseAge, KeyAge
    <3> QED
      BY <2>1, <2>2, <3>1, <3>2, <1>1, <1>4, <1>7
  <2>5. CASE Fires(c)
    <3>1. ~ Due(c)
      BY <2>5, <1>1, <1>2, <1>3, <1>8
    <3>2. beater[c] \notin {"zadd", "pexpire"} /\ LeaseAge(c) = Slack /\ KeyAge(c) = Slack
      BY <3>1 DEF Due, LeaseAge, KeyAge
    <3>3. LeaseAge(c)' = Beat + Slack /\ KeyAge(c)' = Beat + Slack
      BY <2>5, <3>2, <1>4, <1>6 DEF LeaseAge, KeyAge
    <3>4. clock'[c] = 0 /\ clock[c] + 1 = Beat
      BY <2>5, <1>5, <1>8
    <3> QED
      BY <2>1, <3>2, <3>3, <3>4, <1>1, <1>4, <1>7
  <2> QED
    BY <2>4, <2>5
<1> QED
  BY <1>9, <1>10, <1>11 DEF Timely

\* What may go wrong is fixed at the start.
LEMMA FaultsFixed == [Next]_vars => faults' = faults
BY DEF Next, SetGlobalLimit, GateNamedN, acquireScript, Acquire, hold, Full, PollAgain, ReadReply,
  FailOpen, Heartbeat, StartBeat, BeatLease, BeatKey, StopBeat, release, Drop, Rerun, Crash, Tick, vars

LEMMA Inductive == IInv /\ [Next]_vars => IInv'
<1> SUFFICES ASSUME IInv, [Next]_vars PROVE TimelyOK'
  BY TypeStep, WiresStep DEF IInv
<1> SUFFICES ASSUME SmoothRun, NEW c \in Calls, Timely(c) PROVE Timely(c)'
  BY FaultsFixed DEF IInv, TimelyOK, SmoothRun
<1> USE DEF IInv
<1>1. CASE UNCHANGED vars
  BY <1>1 DEF vars, Timely, Due, LeaseAge, KeyAge
<1>2. CASE Tick
  BY <1>2, TimelyTick
<1>3. ASSUME NEW d \in Calls, acquireScript(d) PROVE Timely(c)'
  BY <1>3, TimelyScript
<1>4. ASSUME NEW d \in Calls,
             \/ GateNamedN(d) \/ Acquire(d) \/ FailOpen(d)
             \/ Heartbeat(d) \/ release(d) \/ Drop(d) \/ Rerun(d) \/ Crash(d)
      PROVE  Timely(c)'
  BY <1>4, TimelyCall
<1>5. ASSUME NEW n \in 0 .. MaxLimit, SetGlobalLimit(n) PROVE Timely(c)'
  BY <1>5 DEF SetGlobalLimit, Timely, Due, LeaseAge, KeyAge
<1> QED
  BY <1>1, <1>2, <1>3, <1>4, <1>5 DEF Next

-----------------------------------------------------------------------------
(* Theorems *)

THEOREM Invariant == Spec => []IInv
<1> QED
  BY InitIInv, Inductive, PTL DEF Spec

\* A live holder keeps its slot whatever the skew of the clocks allows.
THEOREM LimiterSafe == Spec => [](TypeOK /\ HoldersKeepSlots)
<1>1. IInv => TypeOK /\ HoldersKeepSlots
  <2> SUFFICES ASSUME IInv, SmoothRun, NEW c \in Holders PROVE c \in Live(Skew)
    BY DEF IInv, HoldersKeepSlots, SmoothRun
  <2>1. c \in Calls
    BY DEF Holders
  <2> QED
    BY <2>1, HoldersLive DEF IInv, TimelyOK, Live
<1> QED
  BY <1>1, Invariant, PTL

\* No admission exceeds the limit the admitted call was gated with.
THEOREM AdmissionSafe == Spec => AdmitsWithinLimit
<1>1. ASSUME IInv, SmoothRun, [Next]_vars, NEW c \in Calls, c \notin Holders, c \in Holders'
      PROVE  Cardinality(Holders') <= lim[c]
  <2> TypeOK /\ WiresOK /\ TimelyOK
    BY <1>1 DEF IInv
  <2>1. WireOK(c)
    BY DEF WiresOK
  <2>2. acquireScript(c)
    <3> USE <1>1, <2>1 DEF Holders, WireOK, TypeOK, Go
    <3>1. CASE Tick \/ UNCHANGED vars \/ \E n \in 0 .. MaxLimit : SetGlobalLimit(n)
      BY <3>1 DEF Tick, vars, SetGlobalLimit
    <3>2. ASSUME NEW d \in Calls, acquireScript(d), c # d PROVE FALSE
      BY <3>2 DEF acquireScript, Answer
    <3>3. ASSUME NEW d \in Calls, GateNamedN(d) PROVE FALSE
      BY <3>3 DEF GateNamedN
    <3>4. ASSUME NEW d \in Calls, Acquire(d) PROVE FALSE
      BY <3>4 DEF Acquire, hold, Full, PollAgain, ReadReply
    <3>5. ASSUME NEW d \in Calls, FailOpen(d) PROVE FALSE
      BY <3>5 DEF FailOpen
    <3>6. ASSUME NEW d \in Calls, Heartbeat(d) PROVE FALSE
      BY <3>6 DEF Heartbeat, StartBeat, BeatLease, BeatKey, StopBeat
    <3>7. ASSUME NEW d \in Calls, release(d) \/ Drop(d) \/ Rerun(d) \/ Crash(d) PROVE FALSE
      BY <3>7 DEF release, Drop, Rerun, Crash
    <3> QED
      BY <3>1, <3>2, <3>3, <3>4, <3>5, <3>6, <3>7 DEF Next
  <2>3. PICK age \in 0 .. Skew : Admit(c, Live(age))
    BY <1>1, <2>2 DEF acquireScript, Answer, Holders, TypeOK
  <2>4. Holders \subseteq Live(age)
    <3> SUFFICES ASSUME NEW d \in Holders PROVE d \in Live(age)
      OBVIOUS
    <3>1. d \in Calls
      BY DEF Holders
    <3>2. d \in zset /\ lease[d] > Skew
      BY <1>1, <3>1, HoldersLive DEF TimelyOK
    <3>3. lease[d] \in Nat /\ Skew \in Nat
      BY <3>1, LimiterAssumption DEF TypeOK
    <3> QED
      BY <3>2, <3>3 DEF Live
  <2>5. IsFiniteSet(Live(age))
    BY FS_Subset DEF WiresOK, Live
  <2>6. /\ IsFiniteSet(Holders) /\ Cardinality(Holders) <= Cardinality(Live(age))
        /\ Cardinality(Holders) \in Nat /\ Cardinality(Live(age)) \in Nat
    BY <2>4, <2>5, FS_Subset, FS_CardinalityType
  <2>7. Holders' = Holders \union {c}
    BY <1>1, <2>2 DEF acquireScript, Answer, Holders, TypeOK
  <2>8. Cardinality(Holders') = Cardinality(Holders) + 1
    BY <1>1, <2>6, <2>7, FS_AddElement
  <2>9. Cardinality(Live(age)) < lim[c] /\ lim[c] \in Nat
    BY <2>3, LimiterAssumption DEF Admit, TypeOK
  <2> QED
    BY <2>6, <2>8, <2>9
<1>2. IInv /\ [Next]_vars => [{"stall", "net"} \intersect faults = {} =>
         \A c \in Calls : (c \notin Holders /\ c \in Holders') => Cardinality(Holders') <= lim[c]]_vars
  BY <1>1 DEF SmoothRun
<1> QED
  BY <1>2, Invariant, PTL DEF AdmitsWithinLimit, Spec

=============================================================================
