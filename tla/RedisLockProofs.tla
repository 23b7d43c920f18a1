-------------------------- MODULE RedisLockProofs --------------------------
(***************************************************************************)
(* What holds of the Redis lock for any set of calls, any lease and renewal *)
(* interval the code accepts, and any faults.                              *)
(***************************************************************************)
EXTENDS RedisLock, TLAPS

\* Where the commands still on their way come from, and that a key is alive.
WiresOK ==
  /\ key # Nobody => left > 0
  /\ \A c \in Calls :
       /\ <<"set", c>> \in wire =>
            pc[c] \in {"done", "crashed"} \/ (pc[c] = "acquire" /\ reply[c] = "none")
       /\ <<"release", c>> \in wire => pc[c] \in {"release", "done", "crashed"}
       /\ renewer[c] # "off" => pc[c] \in {"run", "stop"}
       /\ pc[c] = "run" => clock[c] < RenewInterval

\* A call that cannot return without an error: its key is gone for good.
Doomed(c) ==
  \/ pc[c] \in {"run", "stop"} /\ key # c
  \/ pc[c] = "release" /\ key # c /\ reply[c] # "yes"
  \/ pc[c] = "done" /\ errs[c] \intersect {"lost", "net"} # {}
  \/ pc[c] = "crashed"

MeetingsOK == \A pair \in met : \E c \in pair : Doomed(c)

\* How old the lease of c may be: the lease of a fresh answer is as old as the
\* command, that of a callback as old as its ticker's phase and what was late.
LateBy(c) ==
  IF renewer[c] = "sent" /\ reply[c] = "yes" THEN 0
  ELSE IF renewer[c] = "sent" \/ c \in ticked THEN RenewInterval + Slack
  ELSE Slack

Timely(c) ==
  /\ Due(c) => clock[c] <= Slack
  /\ pc[c] = "acquire" /\ reply[c] = "yes" => key = c /\ left + clock[c] >= Lease
  /\ pc[c] = "run" /\ c \notin lost =>
       key = c /\ renewer[c] # "off" /\ left + clock[c] + LateBy(c) >= Lease

TimelyOK == "stall" \notin faults => \A c \in Calls : Timely(c)

IInv == TypeOK /\ WiresOK /\ MeetingsOK /\ TimelyOK

USE DEF server, results

LEMMA InitIInv == Init => IInv
BY TimesAssumption, NobodyAssumption
DEF Init, IInv, TypeOK, WiresOK, MeetingsOK, TimelyOK, Timely, Due, Waiting, PCs

\* Every step keeps the types.
LEMMA TypeStep == TypeOK /\ WiresOK /\ [Next]_vars => TypeOK'
<1> SUFFICES ASSUME TypeOK, WiresOK, [Next]_vars PROVE TypeOK'
  OBVIOUS
<1> USE TimesAssumption DEF TypeOK, PCs, Commands
<1>1. ASSUME NEW c \in Calls, Serve(c) PROVE TypeOK'
  BY <1>1 DEF Serve, SetNX, renewScript, releaseScript, Answer
<1>2. ASSUME NEW c \in Calls, CallStep(c) PROVE TypeOK'
  <2>1. CASE TryAcquire(c)
    BY <2>1 DEF TryAcquire, Send
  <2>2. CASE Busy(c)
    BY <2>2 DEF Busy, ReadReply
  <2>3. CASE Acquired(c)
    BY <2>3 DEF Acquired, ReadReply, Running
  <2>4. CASE CancelWait(c)
    BY <2>4 DEF CancelWait, GiveUp, Fails
  <2>5. CASE Release(c)
    BY <2>5 DEF Release, Send
  <2>6. CASE Released(c)
    BY <2>6 DEF Released, ReadReply, Fails, ReleaseOutcome, Outcome
  <2> QED
    BY <1>2, <2>1, <2>2, <2>3, <2>4, <2>5, <2>6 DEF CallStep
<1>3. ASSUME NEW c \in Calls, FnReturns(c) PROVE TypeOK'
  BY <1>3 DEF FnReturns
<1>4. ASSUME NEW c \in Calls, RenewStep(c) PROVE TypeOK'
  BY <1>4 DEF RenewStep, RenewTick, Renewed, NotRenewed, StopRenewal, Send, ReadReply, GiveUp, StopTicker
<1>5. ASSUME NEW c \in Calls, FaultStep(c) PROVE TypeOK'
  <2>1. CASE AcquireError(c)
    BY <2>1 DEF AcquireError, GiveUp, Fails
  <2>2. CASE ReleaseError(c)
    BY <2>2 DEF ReleaseError, GiveUp, Fails, Outcome
  <2>3. CASE RenewError(c)
    BY <2>3 DEF RenewError, GiveUp, StopTicker
  <2>4. CASE Cancel(c)
    BY <2>4 DEF Cancel
  <2>5. CASE Crash(c)
    BY <2>5 DEF Crash, StopTicker
  <2>6. CASE \E command \in Commands : Resend(c, command)
    BY <2>6 DEF Resend, Send
  <2> QED
    BY <1>5, <2>1, <2>2, <2>3, <2>4, <2>5, <2>6 DEF FaultStep
<1>6. CASE Tick
  <2>1. ASSUME NEW c \in Calls PROVE clock'[c] \in 0 .. RenewInterval
    <3>1. clock[c] \in 0 .. RenewInterval /\ 0 \in 0 .. RenewInterval
      OBVIOUS
    <3>2. Counts(c) => clock[c] < RenewInterval
      BY DEF Counts, Running, Waiting, WiresOK
    <3>3. Counts(c) => clock[c] + 1 \in 0 .. RenewInterval
      BY <3>1, <3>2
    <3>4. clock'[c] = IF Fires(c) THEN 0 ELSE IF Counts(c) THEN clock[c] + 1 ELSE clock[c]
      BY <1>6 DEF Tick
    <3> QED
      BY <3>1, <3>3, <3>4, Zenon
  <2>2. clock' \in [Calls -> 0 .. RenewInterval]
    BY <1>6, <2>1 DEF Tick
  <2> QED
    BY <1>6, <2>2 DEF Tick, KeyLeft
<1>7. CASE UNCHANGED vars
  BY <1>7 DEF vars
<1> QED
  BY <1>1, <1>2, <1>3, <1>4, <1>5, <1>6, <1>7 DEF Next

-----------------------------------------------------------------------------
(* Commands on their way *)

LEMMA WiresStep == TypeOK /\ WiresOK /\ [Next]_vars => WiresOK'
<1> SUFFICES ASSUME TypeOK, WiresOK, [Next]_vars PROVE WiresOK'
  OBVIOUS
<1> USE TimesAssumption, NobodyAssumption DEF TypeOK, PCs, Commands, WiresOK
<1>1. ASSUME NEW c \in Calls, Serve(c) PROVE WiresOK'
  BY <1>1 DEF Serve, SetNX, renewScript, releaseScript, Answer, Awaits
<1>2. ASSUME NEW c \in Calls, CallStep(c) PROVE WiresOK'
  <2>1. CASE TryAcquire(c)
    BY <2>1 DEF TryAcquire, Send
  <2>2. CASE Busy(c)
    BY <2>2 DEF Busy, ReadReply
  <2>3. CASE Acquired(c)
    BY <2>3 DEF Acquired, ReadReply, Running
  <2>4. CASE CancelWait(c)
    BY <2>4 DEF CancelWait, GiveUp
  <2>5. CASE Release(c)
    BY <2>5 DEF Release, Send
  <2>6. CASE Released(c)
    BY <2>6 DEF Released, ReadReply
  <2> QED
    BY <1>2, <2>1, <2>2, <2>3, <2>4, <2>5, <2>6 DEF CallStep
<1>3. ASSUME NEW c \in Calls, FnReturns(c) PROVE WiresOK'
  BY <1>3 DEF FnReturns
<1>4. ASSUME NEW c \in Calls, RenewStep(c) PROVE WiresOK'
  BY <1>4 DEF RenewStep, RenewTick, Renewed, NotRenewed, StopRenewal, Send, ReadReply, GiveUp, StopTicker
<1>5. ASSUME NEW c \in Calls, FaultStep(c) PROVE WiresOK'
  <2>1. CASE AcquireError(c)
    BY <2>1 DEF AcquireError, GiveUp
  <2>2. CASE ReleaseError(c)
    BY <2>2 DEF ReleaseError, GiveUp
  <2>3. CASE RenewError(c)
    BY <2>3 DEF RenewError, GiveUp, StopTicker
  <2>4. CASE Cancel(c)
    BY <2>4 DEF Cancel
  <2>5. CASE Crash(c)
    BY <2>5 DEF Crash, StopTicker
  <2>6. CASE \E command \in Commands : Resend(c, command)
    <3>1. PICK command \in Commands : Resend(c, command)
      BY <2>6
    <3>2. command = "set" => pc[c] = "acquire"
      BY <3>1 DEF Resend, Awaits
    <3>3. command = "release" => pc[c] = "release"
      BY <3>1 DEF Resend, Awaits
    <3> QED
      BY <3>1, <3>2, <3>3 DEF Resend, Send
  <2> QED
    BY <1>5, <2>1, <2>2, <2>3, <2>4, <2>5, <2>6 DEF FaultStep
<1>6. CASE Tick
  <2>1. key' # Nobody => left' > 0
    BY <1>6 DEF Tick, KeyLeft
  <2>2. ASSUME NEW c \in Calls, pc'[c] = "run" PROVE clock'[c] < RenewInterval
    <3>1. clock[c] \in 0 .. RenewInterval /\ clock[c] < RenewInterval
      BY <1>6, <2>2 DEF Tick
    <3>2. Counts(c) /\ ~ Fires(c) => clock[c] + 1 < RenewInterval
      BY <1>6, <2>2, <3>1 DEF Tick, Counts, Fires, Running, Waiting
    <3>3. clock'[c] = IF Fires(c) THEN 0 ELSE IF Counts(c) THEN clock[c] + 1 ELSE clock[c]
      BY <1>6 DEF Tick
    <3>4. 0 < RenewInterval
      OBVIOUS
    <3> QED
      BY <3>1, <3>2, <3>3, <3>4, Zenon
  <2> QED
    BY <1>6, <2>1, <2>2 DEF Tick
<1>7. CASE UNCHANGED vars
  BY <1>7 DEF vars
<1> QED
  BY <1>1, <1>2, <1>3, <1>4, <1>5, <1>6, <1>7 DEF Next

-----------------------------------------------------------------------------
(* A lost lock stays lost *)

LEMMA DoomedStays ==
  ASSUME TypeOK, WiresOK, [Next]_vars, NEW c \in Calls, Doomed(c)
  PROVE  Doomed(c)'
<1> USE NobodyAssumption DEF TypeOK, PCs, Commands, Doomed
<1>1. ASSUME NEW d \in Calls, Serve(d) PROVE Doomed(c)'
  <2>1. CASE SetNX(d)
    BY <1>1, <2>1 DEF Serve, SetNX, Answer, Awaits, WiresOK
  <2>2. CASE renewScript(d)
    BY <1>1, <2>2 DEF Serve, renewScript, Answer, Awaits, WiresOK
  <2>3. CASE releaseScript(d)
    BY <1>1, <2>3 DEF Serve, releaseScript, Answer, Awaits, WiresOK
  <2> QED
    BY <1>1, <2>1, <2>2, <2>3 DEF Serve
<1>2. ASSUME NEW d \in Calls, CallStep(d) PROVE Doomed(c)'
  <2>1. CASE TryAcquire(d)
    BY <2>1 DEF TryAcquire, Send
  <2>2. CASE Busy(d)
    BY <2>2 DEF Busy, ReadReply
  <2>3. CASE Acquired(d)
    BY <2>3 DEF Acquired, ReadReply, Running
  <2>4. CASE CancelWait(d)
    BY <2>4 DEF CancelWait, GiveUp, Fails
  <2>5. CASE Release(d)
    BY <2>5 DEF Release, Send
  <2>6. CASE Released(d)
    BY <2>6 DEF Released, ReadReply, Fails, ReleaseOutcome, Outcome
  <2> QED
    BY <1>2, <2>1, <2>2, <2>3, <2>4, <2>5, <2>6 DEF CallStep
<1>3. ASSUME NEW d \in Calls, FnReturns(d) PROVE Doomed(c)'
  BY <1>3 DEF FnReturns
<1>4. ASSUME NEW d \in Calls, RenewStep(d) PROVE Doomed(c)'
  BY <1>4 DEF RenewStep, RenewTick, Renewed, NotRenewed, StopRenewal, Send, ReadReply, GiveUp, StopTicker
<1>5. ASSUME NEW d \in Calls, FaultStep(d) PROVE Doomed(c)'
  <2>1. CASE AcquireError(d)
    BY <2>1 DEF AcquireError, GiveUp, Fails
  <2>2. CASE ReleaseError(d)
    BY <2>2 DEF ReleaseError, GiveUp, Fails
  <2>3. CASE RenewError(d)
    BY <2>3 DEF RenewError, GiveUp, StopTicker
  <2>4. CASE Cancel(d)
    BY <2>4 DEF Cancel
  <2>5. CASE Crash(d)
    BY <2>5 DEF Crash, StopTicker
  <2>6. CASE \E command \in Commands : Resend(d, command)
    BY <2>6 DEF Resend, Send
  <2> QED
    BY <1>5, <2>1, <2>2, <2>3, <2>4, <2>5, <2>6 DEF FaultStep
<1>6. CASE Tick
  BY <1>6 DEF Tick, KeyLeft
<1>7. CASE UNCHANGED vars
  BY <1>7 DEF vars
<1> QED
  BY <1>1, <1>2, <1>3, <1>4, <1>5, <1>6, <1>7 DEF Next

\* Two callbacks meet only if the key of one of them is gone: the key is one.
LEMMA NewMeeting ==
  ASSUME TypeOK, NEW c \in Calls, Acquired(c), NEW d \in Running
  PROVE  \E e \in {c, d} : Doomed(e)'
<1>1. d \in Calls /\ pc[d] = "run" /\ c # d
  BY DEF Acquired, Running
<1>2. pc'[c] = "run" /\ pc'[d] = "run" /\ key' = key
  BY <1>1 DEF Acquired, ReadReply, TypeOK
<1>3. key' # c \/ key' # d
  BY <1>1
<1> QED
  BY <1>2, <1>3 DEF Doomed

LEMMA MeetingsStep == TypeOK /\ WiresOK /\ MeetingsOK /\ [Next]_vars => MeetingsOK'
<1> SUFFICES ASSUME TypeOK, WiresOK, MeetingsOK, [Next]_vars, NEW pair \in met'
             PROVE  \E c \in pair : Doomed(c)'
  BY DEF MeetingsOK
<1>1. CASE pair \in met
  <2>1. PICK c \in pair : Doomed(c)
    BY <1>1 DEF MeetingsOK
  <2>2. c \in Calls
    BY <1>1 DEF TypeOK
  <2> QED
    BY <2>1, <2>2, DoomedStays
<1>2. CASE pair \notin met
  <2>1. PICK c \in Calls : Acquired(c)
    BY <1>2 DEF Next, vars, Serve, CallStep, RenewStep, FaultStep, TryAcquire, Busy, CancelWait,
      FnReturns, Release, Released, RenewTick, Renewed, NotRenewed, StopRenewal, AcquireError,
      ReleaseError, RenewError, Cancel, Crash, Resend, Tick
  <2>2. PICK d \in Running : pair = {c, d}
    BY <1>2, <2>1 DEF Acquired
  <2> QED
    BY <2>1, <2>2, NewMeeting
<1> QED
  BY <1>1, <1>2

-----------------------------------------------------------------------------
(* When nothing stalls, a callback keeps its lease *)

\* Redis serves a command of any call d.
LEMMA TimelyServe ==
  ASSUME TypeOK, WiresOK, NEW c \in Calls, Timely(c), NEW d \in Calls, Serve(d)
  PROVE  Timely(c)'
<1> USE TimesAssumption, NobodyAssumption DEF TypeOK, Timely, Due, Waiting, LateBy
<1>1. CASE SetNX(d)
  BY <1>1 DEF Serve, SetNX, Answer, Awaits, WiresOK
<1>2. CASE renewScript(d)
  BY <1>2 DEF Serve, renewScript, Answer, Awaits, WiresOK
<1>3. CASE releaseScript(d)
  BY <1>3 DEF Serve, releaseScript, Answer, Awaits, WiresOK
<1> QED
  BY <1>1, <1>2, <1>3 DEF Serve

\* A call d, its renewal goroutine or a fault moves.
LEMMA TimelyCall ==
  ASSUME TypeOK, WiresOK, NEW c \in Calls, Timely(c), NEW d \in Calls,
         CallStep(d) \/ FnReturns(d) \/ RenewStep(d) \/ FaultStep(d)
  PROVE  Timely(c)'
<1> USE TimesAssumption, NobodyAssumption DEF TypeOK, PCs, Commands, Timely, Due, Waiting, LateBy
<1>1. CASE TryAcquire(d)
  BY <1>1 DEF TryAcquire, Send, WiresOK
<1>2. CASE Busy(d)
  BY <1>2 DEF Busy, ReadReply
<1>3. CASE Acquired(d)
  BY <1>3 DEF Acquired, ReadReply
<1>4. CASE CancelWait(d)
  BY <1>4 DEF CancelWait, GiveUp
<1>5. CASE Release(d)
  BY <1>5 DEF Release, Send
<1>6. CASE Released(d)
  BY <1>6 DEF Released, ReadReply
<1>7. CASE FnReturns(d)
  BY <1>7 DEF FnReturns
<1>8. CASE RenewTick(d)
  BY <1>8 DEF RenewTick, Send
<1>9. CASE Renewed(d)
  BY <1>9 DEF Renewed, ReadReply
<1>10. CASE NotRenewed(d)
  BY <1>10 DEF NotRenewed, ReadReply, StopTicker
<1>11. CASE StopRenewal(d)
  BY <1>11 DEF StopRenewal, GiveUp, StopTicker
<1>12. CASE AcquireError(d)
  BY <1>12 DEF AcquireError, GiveUp
<1>13. CASE ReleaseError(d)
  BY <1>13 DEF ReleaseError, GiveUp
<1>14. CASE RenewError(d)
  BY <1>14 DEF RenewError, GiveUp, StopTicker
<1>15. CASE Cancel(d)
  BY <1>15 DEF Cancel
<1>16. CASE Crash(d)
  BY <1>16 DEF Crash, StopTicker, WiresOK
<1>17. CASE \E command \in Commands : Resend(d, command)
  BY <1>17 DEF Resend, Send
<1> QED
  BY <1>1, <1>2, <1>3, <1>4, <1>5, <1>6, <1>7, <1>8, <1>9, <1>10, <1>11, <1>12, <1>13, <1>14,
     <1>15, <1>16, <1>17 DEF CallStep, RenewStep, FaultStep

\* A tick passes: a lease that is relied on has at least two ticks left.
LEMMA TimelyTick ==
  ASSUME TypeOK, WiresOK, "stall" \notin faults, Tick, NEW c \in Calls, Timely(c)
  PROVE  Timely(c)'
<1> USE DEF TypeOK
<1>1. Lease \in Nat /\ RenewInterval \in Nat /\ Slack \in Nat /\ left \in Nat /\ clock[c] \in Nat
  BY TimesAssumption
<1>2. Slack < RenewInterval /\ RenewInterval + 3 * Slack < Lease
  BY SlackAssumption DEF TypeOK
<1>3. Due(c) => clock[c] < Slack
  BY DEF Tick, InTime
<1>4. UNCHANGED <<pc, reply, renewer, lost>>
  BY DEF Tick
<1>5. clock'[c] = IF Fires(c) THEN 0 ELSE IF Counts(c) THEN clock[c] + 1 ELSE clock[c]
  BY DEF Tick
<1>6. c \in ticked' <=> c \in ticked \/ Fires(c)
  BY DEF Tick
<1>7. left' = (IF left = 0 THEN 0 ELSE left - 1) /\ key' = KeyLeft(left')
  BY DEF Tick
<1>8. Fires(c) => pc[c] = "run" /\ renewer[c] # "off" /\ clock[c] + 1 = RenewInterval
  BY DEF Fires, Running
<1>9. Due(c)' => clock'[c] <= Slack
  <2>1. CASE Fires(c)
    BY <2>1, <1>1, <1>5
  <2>2. CASE ~ Fires(c)
    <3>1. Due(c)' => Due(c)
      BY <2>2, <1>4, <1>6 DEF Due, Waiting
    <3>2. clock'[c] = clock[c] \/ clock'[c] = clock[c] + 1
      BY <2>2, <1>5
    <3> QED
      BY <3>1, <3>2, <1>1, <1>3
  <2> QED
    BY <2>1, <2>2
<1>10. ASSUME pc'[c] = "acquire", reply'[c] = "yes"
       PROVE  key' = c /\ left' + clock'[c] >= Lease
  <2>1. pc[c] = "acquire" /\ reply[c] = "yes" /\ key = c /\ left + clock[c] >= Lease
    BY <1>10, <1>4 DEF Timely
  <2>2. clock[c] < Slack
    BY <2>1, <1>3 DEF Due, Waiting
  <2>3. Counts(c) /\ ~ Fires(c)
    BY <2>1, <2>2, <1>1, <1>2, <1>8 DEF Counts, Waiting
  <2>4. left > 1 /\ clock'[c] = clock[c] + 1
    BY <2>1, <2>2, <2>3, <1>1, <1>2, <1>5
  <2> QED
    BY <2>1, <2>4, <1>1, <1>7 DEF KeyLeft
<1>11. ASSUME pc'[c] = "run", c \notin lost'
       PROVE  key' = c /\ renewer'[c] # "off" /\ left' + clock'[c] + LateBy(c)' >= Lease
  <2>1. pc[c] = "run" /\ key = c /\ renewer[c] # "off" /\ left + clock[c] + LateBy(c) >= Lease
    BY <1>11, <1>4 DEF Timely
  <2>2. clock[c] < RenewInterval
    BY <2>1 DEF WiresOK
  <2>3. Counts(c)
    BY <2>1 DEF Counts, Running
  <2>4. CASE Due(c)
    <3>1. ~ Fires(c) /\ clock'[c] = clock[c] + 1
      BY <2>3, <2>4, <1>1, <1>2, <1>3, <1>5, <1>8
    <3>2. LateBy(c)' = LateBy(c)
      BY <3>1, <1>4, <1>6 DEF LateBy
    <3>3. LateBy(c) \in {0, RenewInterval + Slack, Slack}
      BY DEF LateBy
    <3>4. left > 1
      BY <2>1, <2>4, <3>3, <1>1, <1>2, <1>3
    <3> QED
      BY <2>1, <3>1, <3>2, <3>3, <3>4, <1>1, <1>4, <1>7 DEF KeyLeft
  <2>5. CASE ~ Due(c)
    <3>1. renewer[c] # "sent" /\ c \notin ticked /\ LateBy(c) = Slack
      BY <2>5 DEF Due, LateBy
    <3>2. left > 1
      BY <2>1, <2>2, <3>1, <1>1, <1>2
    <3>3. CASE Fires(c)
      <4>1. LateBy(c)' = RenewInterval + Slack /\ clock'[c] = 0
        BY <3>1, <3>3, <1>4, <1>5, <1>6 DEF LateBy
      <4> QED
        BY <2>1, <3>1, <3>2, <3>3, <4>1, <1>1, <1>4, <1>7, <1>8 DEF KeyLeft
    <3>4. CASE ~ Fires(c)
      <4>1. LateBy(c)' = Slack /\ clock'[c] = clock[c] + 1
        BY <2>3, <3>1, <3>4, <1>4, <1>5, <1>6 DEF LateBy
      <4> QED
        BY <2>1, <3>1, <3>2, <4>1, <1>1, <1>4, <1>7 DEF KeyLeft
    <3> QED
      BY <3>3, <3>4
  <2> QED
    BY <2>4, <2>5
<1> QED
  BY <1>9, <1>10, <1>11 DEF Timely

\* What may go wrong is fixed at the start.
LEMMA FaultsFixed == [Next]_vars => faults' = faults
BY DEF Next, Tick, Serve, CallStep, FnReturns, RenewStep, FaultStep, TryAcquire, Busy, Acquired,
  CancelWait, Release, Released, RenewTick, Renewed, NotRenewed, StopRenewal, AcquireError,
  ReleaseError, RenewError, Cancel, Crash, Resend, vars

LEMMA TimelyStep == TypeOK /\ WiresOK /\ TimelyOK /\ [Next]_vars => TimelyOK'
<1> SUFFICES ASSUME TypeOK, WiresOK, "stall" \notin faults, [Next]_vars,
                    NEW c \in Calls, Timely(c)
             PROVE  Timely(c)'
  BY FaultsFixed DEF TimelyOK
<1>1. CASE UNCHANGED vars
  BY <1>1 DEF vars, Timely, Due, Waiting, LateBy
<1>2. CASE Tick
  BY <1>2, TimelyTick
<1>3. ASSUME NEW d \in Calls,
             Serve(d) \/ CallStep(d) \/ FnReturns(d) \/ RenewStep(d) \/ FaultStep(d)
      PROVE  Timely(c)'
  BY <1>3, TimelyServe, TimelyCall
<1> QED
  BY <1>1, <1>2, <1>3 DEF Next

-----------------------------------------------------------------------------
(* Theorems *)

LEMMA Inductive == IInv /\ [Next]_vars => IInv'
BY TypeStep, WiresStep, MeetingsStep, TimelyStep DEF IInv

THEOREM Invariant == Spec => []IInv
<1> QED
  BY InitIInv, Inductive, PTL DEF Spec

\* The renewing, comparing lock excludes whenever nothing stalls, for every
\* lease that outlasts a late renewal.
THEOREM LockSafe == Spec => [](TypeOK /\ MutualExclusion)
<1>1. IInv => TypeOK /\ MutualExclusion
  BY DEF IInv, TimelyOK, Timely, MutualExclusion, Running
<1> QED
  BY <1>1, Invariant, PTL

\* An overlap never passes in silence, whatever stalls, fails or comes late.
THEOREM OverlapReported == Spec => []OverlapIsReported
<1>1. IInv => OverlapIsReported
  <2> SUFFICES ASSUME IInv, NEW pair \in met, \A c \in pair : pc[c] = "done"
               PROVE  \E c \in pair : errs[c] \intersect {"lost", "net"} # {}
    BY DEF OverlapIsReported
  <2> QED
    BY DEF IInv, MeetingsOK, Doomed
<1> QED
  BY <1>1, Invariant, PTL

\* No command of another call and no late command takes the lock away.
THEOREM OwnerReleases == Spec => OnlyOwnerReleases
<1>1. ASSUME IInv, [Next]_vars, NEW c \in Calls, key = c, key' # c
      PROVE  key' = Nobody /\ (left = 1 \/ pc[c] \in {"release", "done", "crashed"})
  <2> USE <1>1, NobodyAssumption DEF IInv
  <2>1. CASE Tick
    BY <2>1 DEF Tick, KeyLeft, TypeOK, WiresOK
  <2>2. ASSUME NEW d \in Calls, Serve(d)
        PROVE  key' = Nobody /\ pc[c] \in {"release", "done", "crashed"}
    BY <2>2 DEF Serve, SetNX, renewScript, releaseScript, Answer, WiresOK
  <2>3. ASSUME NEW d \in Calls, CallStep(d) \/ FnReturns(d) \/ RenewStep(d) \/ FaultStep(d)
        PROVE  UNCHANGED key
    BY <2>3 DEF CallStep, RenewStep, FaultStep, TryAcquire, Busy, Acquired, CancelWait, FnReturns,
      Release, Released, RenewTick, Renewed, NotRenewed, StopRenewal, AcquireError, ReleaseError,
      RenewError, Cancel, Crash, Resend, ReadReply
  <2> QED
    BY <2>1, <2>2, <2>3 DEF Next, vars
<1>2. IInv /\ [Next]_vars => [\A c \in Calls :
         (key = c /\ key' # c) =>
           key' = Nobody /\ (left = 1 \/ pc[c] \in {"release", "done", "crashed"})]_vars
  BY <1>1
<1> QED
  BY <1>2, Invariant, PTL DEF OnlyOwnerReleases, Spec

-----------------------------------------------------------------------------
(* RedisLock implements ExclusiveLock: every step maps to one or to none.  *)

\* What a call has in hand: nothing is lost before the lock is taken, errors
\* are joined at the end, and a lock that was released is not the call's.
Fate(c) ==
  /\ pc[c] \in {"idle", "acquire", "backoff"} => c \notin lost
  /\ pc[c] # "done" => errs[c] = {}
  /\ pc[c] = "release" /\ reply[c] = "yes" =>
       key # c /\ <<"release", c>> \notin wire
FatesOK == \A c \in Calls : Fate(c)

\* The lease outlasts the end of the renewal and the release.
Kept(c) ==
  pc[c] \in {"stop", "release"} /\ key = c => left + clock[c] > Slack
KeptOK == "stall" \notin faults => \A c \in Calls : c \notin lost => Kept(c)

LEMMA FatesStep == TypeOK /\ WiresOK /\ FatesOK /\ [Next]_vars => FatesOK'
<1> SUFFICES ASSUME TypeOK, WiresOK, [Next]_vars, NEW c \in Calls, Fate(c) PROVE Fate(c)'
  BY DEF FatesOK
<1> USE NobodyAssumption DEF TypeOK, PCs, Commands, Fate
<1>1. ASSUME NEW d \in Calls, Serve(d) PROVE Fate(c)'
  <2>1. CASE SetNX(d)
    BY <1>1, <2>1 DEF Serve, SetNX, Answer, Awaits, WiresOK
  <2>2. CASE renewScript(d)
    BY <1>1, <2>2 DEF Serve, renewScript, Answer, Awaits, WiresOK
  <2>3. CASE releaseScript(d)
    BY <1>1, <2>3 DEF Serve, releaseScript, Answer, Awaits, WiresOK
  <2> QED
    BY <1>1, <2>1, <2>2, <2>3 DEF Serve
<1>2. ASSUME NEW d \in Calls, CallStep(d) PROVE Fate(c)'
  <2>1. CASE TryAcquire(d)
    BY <2>1 DEF TryAcquire, Send
  <2>2. CASE Busy(d)
    BY <2>2 DEF Busy, ReadReply
  <2>3. CASE Acquired(d)
    BY <2>3 DEF Acquired, ReadReply, Running
  <2>4. CASE CancelWait(d)
    BY <2>4 DEF CancelWait, GiveUp, Fails
  <2>5. CASE Release(d)
    BY <2>5 DEF Release, Send
  <2>6. CASE Released(d)
    BY <2>6 DEF Released, ReadReply, Fails
  <2> QED
    BY <1>2, <2>1, <2>2, <2>3, <2>4, <2>5, <2>6 DEF CallStep
<1>3. ASSUME NEW d \in Calls, FnReturns(d) PROVE Fate(c)'
  BY <1>3 DEF FnReturns
<1>4. ASSUME NEW d \in Calls, RenewStep(d) PROVE Fate(c)'
  BY <1>4 DEF RenewStep, RenewTick, Renewed, NotRenewed, StopRenewal, Send, ReadReply, GiveUp,
    StopTicker, WiresOK
<1>5. ASSUME NEW d \in Calls, FaultStep(d) PROVE Fate(c)'
  <2>1. CASE AcquireError(d)
    BY <2>1 DEF AcquireError, GiveUp, Fails
  <2>2. CASE ReleaseError(d)
    BY <2>2 DEF ReleaseError, GiveUp, Fails
  <2>3. CASE RenewError(d)
    BY <2>3 DEF RenewError, GiveUp, StopTicker, WiresOK
  <2>4. CASE Cancel(d)
    BY <2>4 DEF Cancel
  <2>5. CASE Crash(d)
    BY <2>5 DEF Crash, StopTicker
  <2>6. CASE \E command \in Commands : Resend(d, command)
    BY <2>6 DEF Resend, Send, Awaits, WiresOK
  <2> QED
    BY <1>5, <2>1, <2>2, <2>3, <2>4, <2>5, <2>6 DEF FaultStep
<1>6. CASE Tick
  BY <1>6 DEF Tick, KeyLeft
<1>7. CASE UNCHANGED vars
  BY <1>7 DEF vars
<1> QED
  BY <1>1, <1>2, <1>3, <1>4, <1>5, <1>6, <1>7 DEF Next

-----------------------------------------------------------------------------
(* When nothing stalls, the lease outlasts the release *)

\* A callback that has its lease has Slack ticks of it left when it returns.
LEMMA EnoughLeft ==
  ASSUME TypeOK, WiresOK, "stall" \notin faults, NEW c \in Calls, Timely(c),
         pc[c] = "run", c \notin lost
  PROVE  left > Slack
<1>1. Lease \in Nat /\ RenewInterval \in Nat /\ Slack \in Nat /\ left \in Nat /\ clock[c] \in Nat
  BY TimesAssumption DEF TypeOK
<1>2. Slack < RenewInterval /\ RenewInterval + 3 * Slack < Lease
  BY SlackAssumption DEF TypeOK
<1>3. left + clock[c] + LateBy(c) >= Lease /\ clock[c] < RenewInterval
  BY DEF Timely, WiresOK
<1>4. CASE Due(c)
  <2>1. clock[c] <= Slack
    BY <1>4 DEF Timely
  <2>2. LateBy(c) = 0 \/ LateBy(c) = RenewInterval + Slack \/ LateBy(c) = Slack
    BY DEF LateBy
  <2> QED
    BY <1>1, <1>2, <1>3, <2>1, <2>2
<1>5. CASE ~ Due(c)
  <2>1. LateBy(c) = Slack
    BY <1>5 DEF Due, LateBy
  <2> QED
    BY <1>1, <1>2, <1>3, <2>1
<1> QED
  BY <1>4, <1>5

\* Time passes: a release under way leaves the key at least one tick.
LEMMA KeptTick ==
  ASSUME TypeOK, "stall" \notin faults, Tick, NEW c \in Calls, Kept(c)
  PROVE  Kept(c)' /\ (pc[c] \in {"stop", "release"} /\ key = c => key' = c)
<1> SUFFICES ASSUME pc[c] \in {"stop", "release"}, key = c \/ key' = c
             PROVE  key' = c /\ left' + clock'[c] > Slack
  BY DEF Kept, Tick
<1>1. RenewInterval \in Nat /\ Slack \in Nat /\ left \in Nat /\ clock[c] \in Nat /\ Slack < RenewInterval
  BY TimesAssumption, SlackAssumption DEF TypeOK
<1>2. key = c
  BY NobodyAssumption DEF Tick, KeyLeft
<1>3. left + clock[c] > Slack /\ clock[c] < Slack
  BY <1>2 DEF Kept, Tick, InTime, Due, Waiting
<1>4. left > 1
  BY <1>1, <1>3
<1>5. Counts(c) /\ ~ Fires(c)
  BY <1>1, <1>3 DEF Counts, Fires, Running, Waiting
<1>6. clock'[c] = clock[c] + 1 /\ left' = left - 1 /\ key' = KeyLeft(left')
  BY <1>4, <1>5 DEF Tick
<1> QED
  BY <1>1, <1>2, <1>3, <1>4, <1>6 DEF KeyLeft

LEMMA KeptStep ==
  ASSUME TypeOK, WiresOK, TimelyOK, KeptOK, [Next]_vars
  PROVE  KeptOK'
<1> SUFFICES ASSUME "stall" \notin faults, NEW c \in Calls, c \notin lost' PROVE Kept(c)'
  BY FaultsFixed DEF KeptOK
<1> USE TimesAssumption, NobodyAssumption DEF TypeOK, PCs
<1>0. c \notin lost
  BY DEF Next, Tick, Serve, CallStep, FnReturns, RenewStep, FaultStep, TryAcquire, Busy, Acquired,
    CancelWait, Release, Released, RenewTick, Renewed, NotRenewed, StopRenewal, AcquireError,
    ReleaseError, RenewError, Cancel, Crash, Resend, vars
<1>1. Kept(c) /\ Timely(c)
  BY <1>0 DEF KeptOK, TimelyOK
<1>2. CASE Tick
  BY <1>1, <1>2, KeptTick
<1>3. CASE UNCHANGED vars
  BY <1>1, <1>3 DEF vars, Kept
<1>4. ASSUME NEW d \in Calls, Serve(d) PROVE Kept(c)'
  <2>1. Slack < Lease /\ Slack \in Nat /\ Lease \in Nat
    BY SlackAssumption
  <2>2. clock' = clock /\ pc' = pc
    BY <1>4 DEF Serve
  <2>3. CASE SetNX(d)
    BY <1>1, <2>2, <2>3 DEF SetNX, Answer, WiresOK, Kept
  <2>4. CASE renewScript(d)
    BY <1>1, <2>1, <2>2, <2>4 DEF renewScript, Kept
  <2>5. CASE releaseScript(d)
    BY <1>1, <2>2, <2>5 DEF releaseScript, Kept
  <2> QED
    BY <1>4, <2>3, <2>4, <2>5 DEF Serve
<1>5. CASE FnReturns(c)
  <2>1. left > Slack
    BY <1>0, <1>1, <1>5, EnoughLeft DEF FnReturns
  <2> QED
    BY <1>5, <2>1 DEF FnReturns, Kept
<1>6. ASSUME NEW d \in Calls, d # c \/ ~ FnReturns(d),
             CallStep(d) \/ FnReturns(d) \/ RenewStep(d) \/ FaultStep(d)
      PROVE  Kept(c)'
  <2>1. UNCHANGED <<key, left>>
    BY <1>6 DEF CallStep, RenewStep, FaultStep, TryAcquire, Busy, Acquired, CancelWait, FnReturns,
      Release, Released, RenewTick, Renewed, NotRenewed, StopRenewal, AcquireError, ReleaseError,
      RenewError, Cancel, Crash, Resend, ReadReply
  <2>2. pc'[c] \in {"stop", "release"} => pc[c] \in {"stop", "release"} /\ clock'[c] = clock[c]
    BY <1>6 DEF CallStep, RenewStep, FaultStep, TryAcquire, Busy, Acquired, CancelWait, FnReturns,
      Release, Released, RenewTick, Renewed, NotRenewed, StopRenewal, AcquireError, ReleaseError,
      RenewError, Cancel, Crash, Resend
  <2> QED
    BY <1>1, <2>1, <2>2 DEF Kept
<1> QED
  BY <1>2, <1>3, <1>4, <1>5, <1>6 DEF Next

-----------------------------------------------------------------------------
(* Every step is a step of ExclusiveLock, or none *)

\* Only the call d moves, and nobody takes or frees the key.
Alone(d) ==
  /\ UNCHANGED <<faults, key>>
  /\ \A c \in Calls \ {d} : Phase(c)' = Phase(c) /\ (c \in Freed)' = (c \in Freed)

LEMMA AloneMoves ==
  ASSUME NEW d \in Calls, Alone(d)
  PROVE  /\ Phases' = [Phases EXCEPT ![d] = Phase(d)']
         /\ key # d => Holder' = Holder
         /\ key = d => Holder' = IF AtWork(d)' THEN d ELSE Nobody
         /\ key = d => Holder = IF AtWork(d) THEN d ELSE Nobody
         /\ Freed' \ {d} = Freed \ {d}
<1>1. Phases' = [Phases EXCEPT ![d] = Phase(d)']
  BY DEF Alone, Phases
<1>2. \A c \in Calls \ {d} : AtWork(c)' = AtWork(c)
  BY DEF Alone, AtWork
<1>3. Freed' \ {d} = Freed \ {d}
  BY DEF Alone, Freed
<1> QED
  BY <1>1, <1>2, <1>3 DEF Alone, Holder

LEMMA AloneIsStep ==
  ASSUME NEW d \in Calls, Alone(d),
         \/ Phase(d)' = Phase(d) /\ (d \in Freed)' = (d \in Freed)
         \/ Phase(d) = "out" /\ Phase(d)' = "over"
         \/ Phase(d) = "in" /\ Phase(d)' = "over"
         \/ Phase(d) = "in" /\ Phase(d)' = "won" /\ d \in Freed /\ key # d
  PROVE  [Promise!Next]_Promise!lockVars
<1>1. /\ Phases' = [Phases EXCEPT ![d] = Phase(d)']
      /\ key # d => Holder' = Holder
      /\ key = d => Holder' = IF AtWork(d)' THEN d ELSE Nobody
      /\ key = d => Holder = IF AtWork(d) THEN d ELSE Nobody
      /\ Freed' \ {d} = Freed \ {d}
  BY AloneMoves
<1>2. Phases[d] = Phase(d) /\ faults' = faults
  BY DEF Phases, Alone
<1>3. (AtWork(d) <=> Phase(d) = "in") /\ (AtWork(d)' <=> Phase(d)' = "in")
  BY DEF AtWork
<1>4. d \in Freed => AtWork(d)
  BY DEF Freed
<1>5. d \in Freed' => AtWork(d)'
  BY DEF Freed
<1>6. Holder # d => key # d \/ ~ AtWork(d)
  BY DEF Holder
<1>7. Holder = d => key = d /\ AtWork(d)
  BY NobodyAssumption DEF Holder
<1>8. CASE Phase(d)' = Phase(d) /\ (d \in Freed)' = (d \in Freed)
  <2>1. Phases' = Phases /\ Freed' = Freed
    BY <1>1, <1>2, <1>8 DEF Phases, Freed
  <2>2. Holder' = Holder
    BY <1>1, <1>3, <1>8
  <2> QED
    BY <1>2, <2>1, <2>2 DEF Promise!lockVars
<1>9. CASE Phase(d) = "out" /\ Phase(d)' = "over"
  <2>1. Freed' = Freed /\ Holder' = Holder
    BY <1>1, <1>3, <1>4, <1>5, <1>9
  <2> QED
    BY <1>1, <1>2, <1>9, <2>1 DEF Promise!Next, Promise!GiveUp, Promise!Moves
<1>10. CASE Phase(d) = "in" /\ Phase(d)' = "over"
  <2>1. Freed' = Freed \ {d}
    BY <1>1, <1>3, <1>5, <1>10
  <2>2. Holder' = IF Holder = d THEN Nobody ELSE Holder
    BY <1>1, <1>3, <1>6, <1>7, <1>10
  <2> QED
    BY <1>1, <1>2, <1>10, <2>1, <2>2 DEF Promise!Next, Promise!Fail, Promise!Moves
<1>11. CASE Phase(d) = "in" /\ Phase(d)' = "won" /\ d \in Freed /\ key # d
  <2>1. Freed' = Freed \ {d} /\ Holder' = Holder
    BY <1>1, <1>3, <1>5, <1>11
  <2> QED
    BY <1>1, <1>2, <1>11, <2>1 DEF Promise!Next, Promise!Win, Promise!Moves
<1> QED
  BY <1>8, <1>9, <1>10, <1>11

\* The steps of a call that leave the key alone, but for the start of its callback.
LEMMA CallMaps ==
  ASSUME TypeOK, WiresOK, FatesOK, NEW d \in Calls,
         \/ FnReturns(d) \/ RenewStep(d)
         \/ FaultStep(d) /\ (d \in Freed => ~ Resend(d, "release"))
         \/ CallStep(d) /\ ~ Acquired(d)
  PROVE  [Promise!Next]_Promise!lockVars
<1> USE DEF TypeOK, PCs, Commands
<1>0. Fate(d)
  BY DEF FatesOK
<1>1. Alone(d)
  BY DEF Alone, Phase, AtWork, Freed, CallStep, RenewStep, FaultStep, TryAcquire, Busy, CancelWait,
    FnReturns, Release, Released, RenewTick, Renewed, NotRenewed, StopRenewal, AcquireError,
    ReleaseError, RenewError, Cancel, Crash, Resend, ReadReply, Send, GiveUp, Fails, StopTicker
<1>2. d \in Freed <=> Phase(d) = "in" /\ pc[d] = "release" /\ reply[d] = "yes"
  BY DEF Freed, AtWork
<1>3. d \in Freed' <=> Phase(d)' = "in" /\ pc'[d] = "release" /\ reply'[d] = "yes"
  BY DEF Freed, AtWork
<1> DEFINE Stays == Phase(d)' = Phase(d) /\ (d \in Freed)' = (d \in Freed)
           Ends == Phase(d) = "in" /\ Phase(d)' = "over"
           Quits == Phase(d) = "out" /\ Phase(d)' = "over"
           Wins == Phase(d) = "in" /\ Phase(d)' = "won" /\ d \in Freed /\ key # d
<1>4. CASE TryAcquire(d) \/ Busy(d) \/ Release(d) \/ FnReturns(d)
  <2>1. Stays
    BY <1>2, <1>3, <1>4 DEF TryAcquire, Busy, Release, FnReturns, Send, ReadReply, Phase
  <2> QED
    BY <1>1, <2>1, AloneIsStep
<1>5. CASE CancelWait(d) \/ AcquireError(d)
  <2>1. Quits
    BY <1>5 DEF CancelWait, AcquireError, Fails, Phase
  <2> QED
    BY <1>1, <2>1, AloneIsStep
<1>6. CASE Released(d)
  <2>1. PICK answer \in {"yes", "no"} :
          reply[d] = answer /\ errs' = [errs EXCEPT ![d] = @ \union ReleaseOutcome(d, answer = "yes")]
    BY <1>6 DEF Released, ReadReply, Fails
  <2>2. pc[d] = "release" /\ pc'[d] = "done" /\ errs[d] = {} /\ lost' = lost
    BY <1>0, <1>6 DEF Released, Fate
  <2>3. errs'[d] = ReleaseOutcome(d, answer = "yes")
    BY <2>1, <2>2
  <2>4. CASE d \in lost
    <3>1. errs'[d] # {}
      BY <2>3, <2>4 DEF ReleaseOutcome, Outcome
    <3> QED
      BY <1>1, <1>2, <1>3, <2>2, <2>4, <3>1, AloneIsStep DEF Phase
  <2>5. CASE d \notin lost /\ errs'[d] # {}
    BY <1>1, <2>2, <2>5, AloneIsStep DEF Phase
  <2>6. CASE d \notin lost /\ errs'[d] = {}
    <3>1. answer = "yes"
      BY <2>1, <2>3, <2>6 DEF ReleaseOutcome
    <3>2. Wins
      BY <1>0, <1>2, <2>1, <2>2, <2>6, <3>1 DEF Phase, Fate
    <3> QED
      BY <1>1, <3>2, AloneIsStep
  <2> QED
    BY <2>4, <2>5, <2>6
<1>7. CASE ReleaseError(d)
  <2>1. pc[d] = "release" /\ pc'[d] = "done" /\ errs'[d] # {} /\ lost' = lost
    BY <1>7 DEF ReleaseError, Fails
  <2> QED
    BY <1>1, <1>2, <1>3, <2>1, AloneIsStep DEF Phase
<1>8. CASE RenewTick(d) \/ Renewed(d) \/ StopRenewal(d) \/ Cancel(d)
  <2>1. pc' = pc /\ lost' = lost /\ errs' = errs
    BY <1>8 DEF RenewTick, Renewed, StopRenewal, Cancel
  <2>2. pc[d] # "release" \/ reply' = reply
    BY <1>8 DEF RenewTick, Renewed, StopRenewal, Cancel, WiresOK
  <2>3. Stays
    BY <1>2, <1>3, <2>1, <2>2 DEF Phase
  <2> QED
    BY <1>1, <2>3, AloneIsStep
<1>9. CASE NotRenewed(d) \/ RenewError(d)
  <2>1. pc'[d] = pc[d] /\ pc[d] \in {"run", "stop"} /\ d \in lost'
    BY <1>9 DEF NotRenewed, RenewError, WiresOK
  <2>2. Ends \/ Stays
    BY <1>2, <1>3, <2>1 DEF Phase
  <2> QED
    BY <1>1, <2>2, AloneIsStep
<1>10. CASE Crash(d)
  <2>1. pc[d] \notin {"done", "crashed"} /\ pc'[d] = "crashed" /\ lost' = lost
    BY <1>10 DEF Crash
  <2>2. Ends \/ Quits \/ Stays
    BY <1>2, <1>3, <2>1 DEF Phase
  <2> QED
    BY <1>1, <2>2, AloneIsStep
<1>11. CASE \E command \in Commands : Resend(d, command) /\ (d \in Freed => command # "release")
  <2>1. Phase(d)' = Phase(d) /\ pc' = pc
    BY <1>11 DEF Resend, Phase
  <2>2. d \notin Freed
    <3> SUFFICES ASSUME d \in Freed PROVE FALSE
      OBVIOUS
    <3>1. PICK command \in {"set", "renew"} : Awaits(d, command)
      BY <1>11 DEF Resend
    <3>2. pc[d] = "acquire" \/ renewer[d] = "sent"
      BY <3>1 DEF Awaits
    <3> QED
      BY <1>2, <3>2 DEF WiresOK
  <2>3. reply'[d] = "none"
    BY <1>11 DEF Resend, Send
  <2>4. Stays
    BY <1>3, <2>1, <2>2, <2>3
  <2> QED
    BY <1>1, <2>4, AloneIsStep
<1> QED
  BY <1>4, <1>5, <1>6, <1>7, <1>8, <1>9, <1>10, <1>11 DEF CallStep, RenewStep, FaultStep

\* Redis executes a command: only a release that finds the lock changes it.
LEMMA ServeMaps ==
  ASSUME TypeOK, WiresOK, FatesOK, NEW d \in Calls, Serve(d)
  PROVE  [Promise!Next]_Promise!lockVars
<1> USE NobodyAssumption DEF TypeOK, PCs, Commands
<1>0. Fate(d)
  BY DEF FatesOK
<1>1. UNCHANGED <<faults, pc, renewer, lost, errs>>
  BY DEF Serve
<1>2. Phases' = Phases /\ \A c \in Calls : Phase(c)' = Phase(c)
  BY <1>1 DEF Phases, Phase
<1>3. \A c \in Calls \ {d} : reply'[c] = reply[c]
  BY DEF Serve, SetNX, renewScript, releaseScript, Answer
<1>4. CASE SetNX(d)
  <2>1. pc[d] # "release" /\ (pc[d] \in {"acquire", "done", "crashed"})
    BY <1>4 DEF SetNX, Answer, WiresOK
  <2>2. ~ AtWork(d)
    BY <2>1 DEF AtWork, Phase
  <2>3. Holder' = Holder
    BY <1>2, <1>4, <2>2 DEF SetNX, Holder, AtWork
  <2>4. Freed' = Freed
    BY <1>1, <1>2, <1>3, <2>1 DEF Freed, AtWork
  <2> QED
    BY <1>1, <1>2, <2>3, <2>4 DEF Promise!lockVars
<1>5. CASE renewScript(d)
  <2>1. reply' = reply \/ pc[d] # "release"
    BY <1>5 DEF renewScript, Answer, Awaits, WiresOK
  <2>2. Holder' = Holder /\ Freed' = Freed
    BY <1>1, <1>2, <1>3, <1>5, <2>1 DEF renewScript, Holder, Freed, AtWork
  <2> QED
    BY <1>1, <1>2, <2>2 DEF Promise!lockVars
<1>6. CASE releaseScript(d)
  <2>1. <<"release", d>> \in wire /\ pc[d] \in {"release", "done", "crashed"}
    BY <1>6 DEF releaseScript, Answer, WiresOK
  <2>2. d \notin Freed
    BY <1>0, <2>1 DEF Fate, Freed
  <2>3. CASE AtWork(d) /\ key = d
    <3>1. pc[d] = "release" /\ reply'[d] = "yes" /\ key' = Nobody
      BY <1>6, <2>1, <2>3 DEF AtWork, Phase, releaseScript, Answer, Awaits
    <3>2. Holder = d /\ Holder' = Nobody /\ Freed' = Freed \union {d} /\ Phases[d] = "in"
      BY <1>1, <1>2, <1>3, <2>3, <3>1 DEF Holder, Freed, AtWork, Phases
    <3> QED
      BY <1>1, <1>2, <3>2 DEF Promise!Next, Promise!Free
  <2>4. CASE ~ AtWork(d)
    <3>1. Holder' = Holder /\ Freed' = Freed
      BY <1>1, <1>2, <1>3, <1>6, <2>4 DEF releaseScript, Holder, Freed, AtWork
    <3> QED
      BY <1>1, <1>2, <3>1 DEF Promise!lockVars
  <2>5. CASE AtWork(d) /\ key # d
    <3>1. key' = key /\ reply'[d] # "yes"
      BY <1>6, <2>1, <2>5 DEF releaseScript, Answer, Awaits, AtWork, Phase
    <3>2. Holder' = Holder /\ Freed' = Freed
      BY <1>1, <1>2, <1>3, <2>2, <3>1 DEF Holder, Freed, AtWork
    <3> QED
      BY <1>1, <1>2, <3>2 DEF Promise!lockVars
  <2> QED
    BY <2>3, <2>4, <2>5
<1> QED
  BY <1>4, <1>5, <1>6 DEF Serve

\* A callback starts; without stalls the lock is its own.
LEMMA AcquiredMaps ==
  ASSUME TypeOK, FatesOK, TimelyOK, NEW d \in Calls, Acquired(d)
  PROVE  Promise!Enter(d)
<1> USE NobodyAssumption DEF TypeOK, PCs
<1>1. /\ pc[d] = "acquire" /\ reply[d] = "yes" /\ pc' = [pc EXCEPT ![d] = "run"]
      /\ reply' = [reply EXCEPT ![d] = "none"]
      /\ UNCHANGED <<faults, key, lost, errs>>
  BY DEF Acquired, ReadReply
<1>2. d \notin lost
  BY <1>1 DEF FatesOK, Fate
<1>3. Phase(d) = "out" /\ Phase(d)' = "in"
  BY <1>1, <1>2 DEF Phase
<1>4. Alone(d)
  BY <1>1 DEF Alone, Phase, Freed, AtWork
<1>5. /\ Phases' = [Phases EXCEPT ![d] = "in"]
      /\ Freed' = Freed
  <2>1. d \notin Freed /\ d \notin Freed'
    BY <1>1 DEF Freed
  <2>2. Phases' = [Phases EXCEPT ![d] = Phase(d)'] /\ Freed' \ {d} = Freed \ {d}
    BY <1>4, AloneMoves
  <2>3. Freed \ {d} = Freed /\ Freed' \ {d} = Freed'
    BY <2>1 DEF Freed
  <2> QED
    BY <1>3, <2>2, <2>3, Zenon
<1>6. CASE key = d
  <2>1. Holder = Nobody /\ Holder' = d
    BY <1>3, <1>4, <1>6, AloneMoves DEF AtWork
  <2> QED
    BY <1>1, <1>3, <1>5, <2>1 DEF Promise!Enter, Promise!Moves, Phases
<1>7. CASE key # d
  <2>1. "stall" \in faults
    BY <1>1, <1>7 DEF TimelyOK, Timely
  <2>2. Holder' = Holder
    BY <1>4, <1>7, AloneMoves
  <2> QED
    BY <1>1, <1>3, <1>5, <2>1, <2>2 DEF Promise!Enter, Promise!Moves, Phases
<1> QED
  BY <1>6, <1>7

\* The answer to a release is lost.
LEMMA ResendMaps ==
  ASSUME TypeOK, NEW d \in Freed, Resend(d, "release")
  PROVE  Promise!Doubt(d)
<1> USE DEF TypeOK
<1>1. /\ "retry" \in faults /\ reply' = [reply EXCEPT ![d] = "none"]
      /\ UNCHANGED <<faults, key, pc, lost, errs>>
  BY DEF Resend, Send
<1>2. Phases' = Phases /\ Holder' = Holder
  BY <1>1 DEF Phases, Holder, AtWork, Phase
<1>3. Freed' = Freed \ {d}
  BY <1>1 DEF Freed, AtWork, Phase
<1> QED
  BY <1>1, <1>2, <1>3 DEF Promise!Doubt

\* Time takes the lock from a call at work only after a stall.
LEMMA TickMaps ==
  ASSUME TypeOK, WiresOK, TimelyOK, KeptOK, Tick
  PROVE  [Promise!Next]_Promise!lockVars
<1> USE NobodyAssumption DEF TypeOK, PCs
<1>1. UNCHANGED <<faults, reply, pc, lost, errs>> /\ key' \in {key, Nobody}
  BY DEF Tick, KeyLeft
<1>2. \A c \in Calls : Phase(c)' = Phase(c)
  BY <1>1 DEF Phase
<1>3. Phases' = Phases /\ Freed' = Freed
  BY <1>1, <1>2 DEF Phases, Freed, AtWork
<1>4. CASE Holder' = Holder
  BY <1>1, <1>3, <1>4 DEF Promise!lockVars
<1>5. CASE Holder' # Holder
  <2>1. PICK c \in Calls : AtWork(c) /\ key = c /\ key' = Nobody
    BY <1>1, <1>2, <1>5 DEF Holder, AtWork
  <2>2. Holder = c /\ Holder' = Nobody
    BY <2>1 DEF Holder
  <2>3. "stall" \in faults
    <3> SUFFICES ASSUME "stall" \notin faults PROVE FALSE
      OBVIOUS
    <3>1. c \notin lost /\ pc[c] \in {"run", "stop", "release"}
      BY <2>1 DEF AtWork, Phase
    <3>2. Timely(c) /\ Timely(c)'
      BY TimelyTick DEF TimelyOK
    <3>3. pc[c] # "run"
      BY <1>1, <2>1, <3>1, <3>2 DEF Timely
    <3>4. Kept(c)
      BY <3>1 DEF KeptOK
    <3> QED
      BY <2>1, <3>1, <3>3, <3>4, KeptTick
  <2> QED
    BY <1>1, <1>3, <2>2, <2>3 DEF Promise!Next, Promise!Depose
<1> QED
  BY <1>4, <1>5

\* WithRenewableLock keeps its promise to whoever works under it: a call that
\* returns no error held the lock from its callback's start to its release,
\* and only a stall takes it from a call at work.
THEOREM LockImplements == Spec => ImplementsExclusiveLock
<1>1. Init => FatesOK /\ KeptOK
  BY DEF Init, FatesOK, Fate, KeptOK, Kept
<1>2. Init => Promise!Init
  BY NobodyAssumption DEF Init, Promise!Init, Holder, Phases, Freed, AtWork, Phase
<1>3. IInv /\ FatesOK /\ KeptOK /\ [Next]_vars => FatesOK' /\ KeptOK'
  BY FatesStep, KeptStep DEF IInv
<1>4. IInv /\ FatesOK /\ KeptOK /\ [Next]_vars => [Promise!Next]_Promise!lockVars
  <2> SUFFICES ASSUME IInv, FatesOK, KeptOK, [Next]_vars
               PROVE  [Promise!Next]_Promise!lockVars
    OBVIOUS
  <2> USE DEF IInv
  <2>1. CASE UNCHANGED vars
    BY <2>1 DEF vars, Promise!lockVars, Holder, Phases, Freed, AtWork, Phase
  <2>2. CASE Tick
    BY <2>2, TickMaps
  <2>3. ASSUME NEW d \in Calls, Serve(d)
        PROVE  [Promise!Next]_Promise!lockVars
    BY <2>3, ServeMaps
  <2>4. ASSUME NEW d \in Calls, Acquired(d)
        PROVE  [Promise!Next]_Promise!lockVars
    BY <2>4, AcquiredMaps DEF Promise!Next
  <2>5. ASSUME NEW d \in Freed, Resend(d, "release")
        PROVE  [Promise!Next]_Promise!lockVars
    BY <2>5, ResendMaps DEF Promise!Next, Freed
  <2>6. ASSUME NEW d \in Calls, ~ Acquired(d), d \in Freed => ~ Resend(d, "release"),
               FnReturns(d) \/ RenewStep(d) \/ FaultStep(d) \/ CallStep(d)
        PROVE  [Promise!Next]_Promise!lockVars
    BY <2>6, CallMaps
  <2> QED
    BY <2>1, <2>2, <2>3, <2>4, <2>5, <2>6 DEF Next
<1> QED
  BY <1>1, <1>2, <1>3, <1>4, Invariant, PTL DEF Spec, ImplementsExclusiveLock, Promise!Spec

-----------------------------------------------------------------------------
(* A healthy call hears of no loss *)

\* Nothing stalls, fails or is sent twice.
Healthy == {"stall", "net", "retry"} \intersect faults = {}

\* The key is the call's from its callback's start to its release, which runs
\* once, and Redis confirms each of its commands.
Sound(c) ==
  /\ pc[c] \in {"run", "stop"} => key = c
  /\ pc[c] = "release" =>
       \/ reply[c] = "none" /\ <<"release", c>> \in wire /\ key = c
       \/ reply[c] = "yes"
  /\ renewer[c] = "sent" => reply[c] # "no"
  /\ c \notin lost
  /\ "lost" \notin errs[c]
SoundOK == Healthy => \A c \in Calls : Sound(c)

LEMMA SoundServe ==
  ASSUME TypeOK, WiresOK, FatesOK, NEW c \in Calls, Sound(c), NEW d \in Calls, Serve(d)
  PROVE  Sound(c)'
<1> USE NobodyAssumption DEF TypeOK, PCs, Commands, Sound
<1>1. CASE SetNX(d)
  BY <1>1 DEF Serve, SetNX, Answer, Awaits, WiresOK
<1>2. CASE renewScript(d)
  BY <1>2 DEF Serve, renewScript, Answer, Awaits, WiresOK
<1>3. CASE releaseScript(d)
  <2>1. UNCHANGED <<pc, renewer, lost, errs>> /\ <<"release", d>> \in wire
    BY <1>3 DEF Serve, releaseScript, Answer
  <2>2. pc[d] \in {"release", "done", "crashed"} /\ renewer[d] = "off"
    BY <2>1 DEF WiresOK
  <2>3. CASE d = c
    BY <1>3, <2>1, <2>2, <2>3 DEF releaseScript, Answer, Awaits, FatesOK, Fate
  <2>4. CASE d # c
    <3>1. reply'[c] = reply[c] /\ (key = c => key' = c)
      BY <1>3, <2>4 DEF releaseScript, Answer
    <3>2. <<"release", c>> \in wire => <<"release", c>> \in wire'
      BY <1>3, <2>4 DEF releaseScript, Answer
    <3> QED
      BY <2>1, <3>1, <3>2
  <2> QED
    BY <2>3, <2>4
<1> QED
  BY <1>1, <1>2, <1>3 DEF Serve

LEMMA SoundCall ==
  ASSUME TypeOK, WiresOK, Healthy, TimelyOK, NEW c \in Calls, Sound(c), NEW d \in Calls,
         CallStep(d) \/ FnReturns(d) \/ RenewStep(d) \/ FaultStep(d)
  PROVE  Sound(c)'
<1> USE NobodyAssumption DEF TypeOK, PCs, Commands, Sound, Healthy
<1>1. CASE TryAcquire(d) \/ Busy(d)
  BY <1>1 DEF TryAcquire, Busy, Send, ReadReply, WiresOK
<1>8. CASE CancelWait(d)
  <2>1. "lost" \notin errs'[c] /\ lost' = lost
    BY <1>8 DEF CancelWait, Fails
  <2> QED
    BY <1>8, <2>1 DEF CancelWait, GiveUp, WiresOK
<1>2. CASE Acquired(d)
  BY <1>2 DEF Acquired, ReadReply, TimelyOK, Timely
<1>3. CASE Release(d) \/ FnReturns(d)
  BY <1>3 DEF Release, FnReturns, Send
<1>4. CASE Released(d)
  <2>1. CASE d = c
    <3>1. PICK answer \in {"yes", "no"} :
            reply[c] = answer /\ errs' = [errs EXCEPT ![c] = @ \union ReleaseOutcome(c, answer = "yes")]
      BY <1>4, <2>1 DEF Released, ReadReply, Fails
    <3>2. answer = "yes"
      BY <1>4, <2>1, <3>1 DEF Released
    <3>3. "lost" \notin ReleaseOutcome(c, answer = "yes")
      BY <3>2 DEF ReleaseOutcome, Outcome
    <3>4. errs'[c] = errs[c] \union ReleaseOutcome(c, answer = "yes")
      BY <3>1
    <3> QED
      BY <1>4, <2>1, <3>3, <3>4 DEF Released, ReadReply, WiresOK
  <2>2. CASE d # c
    BY <1>4, <2>2 DEF Released, ReadReply, Fails
  <2> QED
    BY <2>1, <2>2
<1>5. CASE RenewTick(d)
  BY <1>5 DEF RenewTick, Send
<1>9. CASE Renewed(d)
  BY <1>9 DEF Renewed, ReadReply, WiresOK
<1>10. CASE StopRenewal(d)
  BY <1>10 DEF StopRenewal, GiveUp, StopTicker
<1>6. CASE NotRenewed(d)
  BY <1>6 DEF NotRenewed, ReadReply, StopTicker, WiresOK
<1>7. CASE Cancel(d) \/ Crash(d)
  BY <1>7 DEF Cancel, Crash, StopTicker
<1> QED
  BY <1>1, <1>2, <1>3, <1>4, <1>5, <1>6, <1>7, <1>8, <1>9, <1>10 DEF CallStep, RenewStep, FaultStep,
     AcquireError, ReleaseError, RenewError, Resend

LEMMA SoundStep ==
  ASSUME IInv, FatesOK, KeptOK, SoundOK, [Next]_vars
  PROVE  SoundOK'
<1> SUFFICES ASSUME Healthy, NEW c \in Calls, \A d \in Calls : Sound(d) PROVE Sound(c)'
  BY FaultsFixed DEF SoundOK, Healthy
<1> USE DEF IInv
<1>1. CASE UNCHANGED vars
  BY <1>1 DEF vars, Sound
<1>2. CASE Tick
  <2>1. "stall" \notin faults /\ c \notin lost
    BY DEF Healthy, Sound
  <2>2. pc[c] = "run" => key' = c
    BY <1>2, <2>1, TimelyTick DEF TimelyOK, Timely, Tick
  <2>3. pc[c] \in {"stop", "release"} /\ key = c => key' = c
    BY <1>2, <2>1, KeptTick DEF KeptOK
  <2> QED
    BY <1>2, <2>2, <2>3 DEF Tick, Sound
<1>3. ASSUME NEW d \in Calls,
             Serve(d) \/ CallStep(d) \/ FnReturns(d) \/ RenewStep(d) \/ FaultStep(d)
      PROVE  Sound(c)'
  BY <1>3, SoundServe, SoundCall
<1> QED
  BY <1>1, <1>2, <1>3 DEF Next

\* When nothing stalls, fails or is sent twice no call reports a loss, however
\* late within Slack a renewal or the release comes, and whoever dies or ends.
THEOREM NoFalseAlarmHolds == Spec => []NoFalseAlarm
<1>1. Init => FatesOK /\ KeptOK /\ SoundOK
  BY DEF Init, FatesOK, Fate, KeptOK, Kept, SoundOK, Sound
<1>2. IInv /\ FatesOK /\ KeptOK /\ SoundOK /\ [Next]_vars => FatesOK' /\ KeptOK' /\ SoundOK'
  BY FatesStep, KeptStep, SoundStep DEF IInv
<1>3. SoundOK => NoFalseAlarm
  BY DEF SoundOK, Sound, Healthy, NoFalseAlarm
<1> QED
  BY <1>1, <1>2, <1>3, Invariant, PTL DEF Spec

=============================================================================
