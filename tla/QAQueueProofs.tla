--------------------------- MODULE QAQueueProofs ---------------------------
(***************************************************************************)
(* The counters and limits of the question queue, for any instances, users *)
(* and requests, any limits and any environment.                           *)
(***************************************************************************)
EXTENDS QAQueue, SequenceTheorems, FiniteSetTheorems, WellFoundedInduction, TLAPS

USE DEF local, shared, asked, stops

-----------------------------------------------------------------------------
(* The queue as a sequence *)

\* A set of positions that is not empty has a first one.
LEMMA FirstPosition ==
  ASSUME NEW I \in SUBSET Nat, I # {}
  PROVE  Min(I) \in I
<1> DEFINE R == {ss \in Nat \X Nat : ss[1] < ss[2]}
<1>1. IsWellFoundedOn(R, Nat)
  BY NatLessThanWellFounded DEF OpToRel
<1> HIDE DEF R
<1>2. PICK m \in I : \A n \in I : ~ (<<n, m>> \in R)
  BY <1>1, WFMin
<1>3. ASSUME NEW n \in I PROVE m =< n
  <2>1. n \in Nat /\ m \in Nat
    OBVIOUS
  <2>2. n < m => <<n, m>> \in R
    BY <2>1 DEF R
  <2> QED
    BY <1>2, <2>1, <2>2
<1> QED
  BY <1>2, <1>3 DEF Min

\* FirstOf finds a place of the user, if there is one.
LEMMA FirstOfFinds ==
  ASSUME NEW i, NEW u, queue[i] \in Seq(Requests), FirstOf(i, u) > 0
  PROVE  FirstOf(i, u) \in 1 .. Len(queue[i]) /\ user[queue[i][FirstOf(i, u)]] = u
<1> DEFINE I == {n \in 1 .. Len(queue[i]) : user[queue[i][n]] = u}
<1>1. FirstOf(i, u) = IF I # {} THEN Min(I) ELSE 0
  BY DEF FirstOf, SelectInSeq
<1>2. I # {} /\ I \in SUBSET Nat
  BY <1>1
<1>3. Min(I) \in I
  BY <1>2, FirstPosition
<1> QED
  BY <1>1, <1>2, <1>3

LEMMA RemoveAtIs ==
  ASSUME NEW S, NEW s \in Seq(S), NEW n \in 1 .. Len(s)
  PROVE  /\ RemoveAt(s, n) \in Seq(S)
         /\ Len(RemoveAt(s, n)) = Len(s) - 1
         /\ \A m \in 1 .. Len(s) - 1 :
              RemoveAt(s, n)[m] = IF m < n THEN s[m] ELSE s[m + 1]
<1> DEFINE a == SubSeq(s, 1, n - 1)
           b == SubSeq(s, n + 1, Len(s))
<1>1. a \in Seq(S) /\ Len(a) = n - 1 /\ \A m \in 1 .. n - 1 : a[m] = s[m]
  BY SubSeqProperties
<1>2. b \in Seq(S) /\ Len(b) = Len(s) - n /\ \A m \in 1 .. Len(s) - n : b[m] = s[n + m]
  BY SubSeqProperties
<1>3. RemoveAt(s, n) = a \o b
  BY DEF RemoveAt
<1> HIDE DEF a, b
<1>4. a \o b \in Seq(S) /\ Len(a \o b) = Len(s) - 1
  <2>1. a \o b \in Seq(S) /\ Len(a \o b) = Len(a) + Len(b)
    BY <1>1, <1>2, ConcatProperties, Zenon
  <2> QED
    BY <1>1, <1>2, <2>1
<1>5. ASSUME NEW m \in 1 .. Len(s) - 1
      PROVE  (a \o b)[m] = IF m < n THEN s[m] ELSE s[m + 1]
  <2>0. m \in 1 .. Len(a) + Len(b)
    BY <1>1, <1>2
  <2>1. (a \o b)[m] = IF m <= Len(a) THEN a[m] ELSE b[m - Len(a)]
    BY <1>1, <1>2, <2>0, ConcatProperties, Zenon
  <2>2. CASE m < n
    BY <1>1, <2>1, <2>2
  <2>3. CASE ~ (m < n)
    <3>1. m - Len(a) \in 1 .. Len(s) - n /\ n + (m - Len(a)) = m + 1 /\ ~ (m <= Len(a))
      BY <1>1, <2>3
    <3> QED
      BY <1>2, <2>1, <2>3, <3>1
  <2> QED
    BY <2>2, <2>3
<1> QED
  BY <1>3, <1>4, <1>5
-----------------------------------------------------------------------------
(* The inductive invariant *)

\* Not yet handed to the handler.
Early == {"new", "refuse", "insert"} \union Waiting

\* A queue holds, once each, the queued requests of its instance.
QueueHolds(i) ==
  /\ \A m \in 1 .. Len(queue[i]) : pc[queue[i][m]] = "queued" /\ home[queue[i][m]] = i
  /\ \A m, n \in 1 .. Len(queue[i]) : queue[i][m] = queue[i][n] => m = n
PlacesOK ==
  /\ \A i \in Instances : QueueHolds(i)
  /\ \A r \in Requests :
       pc[r] = "queued" => \E m \in 1 .. Len(queue[home[r]]) : queue[home[r]][m] = r
  /\ \A r \in Requests :
       pc[r] \in {"refuse"} \union Accepted =>
         r <= env.asks /\ home[r] \in Instances /\ user[r] \in Users

\* Only the end of its connection cancels a request that is not yet handled.
CancelsOK ==
  /\ \A i \in Instances, u \in Users :
       inflight[i][u] # None => pc[inflight[i][u]] \notin Early
  /\ Without({"cancel"}) => \A r \in cancelled : pc[r] \notin Early

\* The requests a user's counter stands for, and those queued at an instance.
Taken(u) == UnderWay(u) \union {r \in Asked(u) : pc[r] = "refuse"}
QueuedAt(i, u) == {r \in Asked(u) : home[r] = i /\ pc[r] = "queued"}

\* A crash leaves counts without requests; nothing else does.
CountOK ==
  env.redis /\ Without({"redis", "slow"}) =>
    \A u \in Users :
      /\ Cardinality(Taken(u)) <= count[u]
      /\ Cardinality(UnderWay(u)) <= MaxPerUser
      /\ Without({"crash"}) => Cardinality(Taken(u)) = count[u]
GateOK ==
  GateUsed /\ Without({"redis", "slow", "cancel"}) =>
    /\ Cardinality(Holding) <= gate
    /\ Cardinality(Holding) <= GlobalMax
    /\ Without({"crash"}) => Cardinality(Holding) = gate
LocalOK ==
  ~env.redis =>
    \A i \in Instances, u \in Users :
      perUser[i][u] = Cardinality(QueuedAt(i, u)) /\ perUser[i][u] <= MaxPerUser

IInv == TypeOK /\ PlacesOK /\ CancelsOK /\ CountOK /\ GateOK /\ LocalOK

USE DEF Waiting, Running, Accepted, Ended, Go

\* What a step of each kind does to the queue of its instance.
LEMMA DequeueTail ==
  ASSUME TypeOK, PlacesOK, NEW r \in Requests, dequeue(r)
  PROVE  /\ home[r] \in Instances /\ user[r] \in Users /\ pc[r] = "queued"
         /\ queue[home[r]] \in Seq(Requests) /\ queue[home[r]] # << >>
         /\ queue[home[r]][1] = r
<1>1. pc[r] = "queued" /\ Head(queue[home[r]]) = r
  BY DEF dequeue
<1>2. home[r] \in Instances /\ user[r] \in Users
  BY <1>1 DEF PlacesOK
<1>3. PICK m \in 1 .. Len(queue[home[r]]) : queue[home[r]][m] = r
  BY <1>1 DEF PlacesOK
<1>4. queue[home[r]] \in Seq(Requests)
  BY <1>2 DEF TypeOK
<1>5. queue[home[r]] # << >>
  BY <1>3, <1>4
<1> QED
  BY <1>1, <1>2, <1>4, <1>5

\* The request a /stop takes from a queue is the user's, and was queued.
LEMMA RemovedIs ==
  ASSUME TypeOK, PlacesOK, NEW i \in Instances, NEW u \in Users, RemoveQueued(i, u)
  PROVE  LET n == FirstOf(i, u)
         IN  /\ queue[i] \in Seq(Requests) /\ n \in 1 .. Len(queue[i])
             /\ queue[i][n] \in Requests /\ user[queue[i][n]] = u
             /\ pc[queue[i][n]] = "queued" /\ home[queue[i][n]] = i
<1>1. queue[i] \in Seq(Requests) /\ FirstOf(i, u) > 0
  BY DEF TypeOK, RemoveQueued
<1>2. FirstOf(i, u) \in 1 .. Len(queue[i]) /\ user[queue[i][FirstOf(i, u)]] = u
  BY <1>1, FirstOfFinds
<1> QED
  BY <1>1, <1>2 DEF PlacesOK, QueueHolds

LEMMA DecrType ==
  ASSUME TypeOK, NEW u, redisDecrUser(u)
  PROVE  count' \in [Users -> Int]
BY DEF TypeOK, redisDecrUser, Add

LEMMA ForgetType ==
  ASSUME TypeOK, NEW i \in Instances, NEW u \in Users, Forget(i, u)
  PROVE  perUser' \in [Instances -> [Users -> Nat]]
<1>1. CASE perUser' = perUser
  BY <1>1 DEF TypeOK
<1>2. CASE perUser' # perUser
  <2>1. perUser' = [perUser EXCEPT ![i][u] = @ - 1] /\ perUser[i][u] # 0
    BY <1>2 DEF Forget
  <2> QED
    BY <2>1 DEF TypeOK
<1> QED
  BY <1>1, <1>2

LEMMA TypeStep ==
  ASSUME TypeOK, PlacesOK, [Next]_vars
  PROVE  TypeOK'
<1> USE SizesAssumption, RequestsAssumption DEF TypeOK
<1>1. ASSUME NEW r \in Requests, NEW i \in Instances, NEW u \in Users, redisCheckAndIncrUser(r, i, u)
      PROVE  TypeOK'
  BY <1>1 DEF redisCheckAndIncrUser, Add
<1>2. ASSUME NEW r \in Requests, Refuse(r) \/ Discard(r) \/ GiveUp(r) \/ Finish(r)
      PROVE  TypeOK'
  BY <1>2, DecrType DEF Refuse, Discard, GiveUp, Finish
<1>3. ASSUME NEW r \in Requests, Enqueue(r)
      PROVE  TypeOK'
  <2>1. home[r] \in Instances /\ user[r] \in Users
    BY <1>3 DEF Enqueue, PlacesOK
  <2>2. CASE Rejects(home[r], user[r])
    BY <1>3, <2>2, DecrType DEF Enqueue
  <2>3. CASE ~ Rejects(home[r], user[r])
    <3>1. Append(queue[home[r]], r) \in Seq(Requests)
          /\ Len(Append(queue[home[r]], r)) = Len(queue[home[r]]) + 1
      BY <2>1
    <3>2. Len(queue[home[r]]) < MaxSize
      BY <2>1, <2>3 DEF Rejects
    <3>3. queue' = [queue EXCEPT ![home[r]] = Append(@, r)]
      BY <1>3, <2>3 DEF Enqueue
    <3>4. queue' \in [Instances -> Seq(Requests)] /\ \A i \in Instances : Len(queue'[i]) <= MaxSize
      BY <2>1, <3>1, <3>2, <3>3
    <3>5. perUser' \in [Instances -> [Users -> Nat]]
      <4>1. perUser' \in {perUser, [perUser EXCEPT ![home[r]][user[r]] = @ + 1]}
        BY <1>3, <2>3 DEF Enqueue
      <4>2. perUser[home[r]][user[r]] + 1 \in Nat
        BY <2>1
      <4>3. CASE perUser' = [perUser EXCEPT ![home[r]][user[r]] = @ + 1]
        BY <2>1, <4>2, <4>3
      <4> QED
        BY <4>1, <4>3
    <3>6. pc' \in [Requests -> {"new", "refuse"} \union Accepted \union Ended]
      BY <1>3 DEF Enqueue
    <3> QED
      BY <1>3, <2>3, <3>4, <3>5, <3>6 DEF Enqueue
  <2> QED
    BY <2>2, <2>3
<1>4. ASSUME NEW r \in Requests, dequeue(r)
      PROVE  TypeOK'
  <2>1. /\ home[r] \in Instances /\ queue[home[r]] \in Seq(Requests) /\ queue[home[r]] # << >>
    BY <1>4, DequeueTail
  <2>2. Tail(queue[home[r]]) \in Seq(Requests)
        /\ Len(Tail(queue[home[r]])) = Len(queue[home[r]]) - 1
    BY <2>1
  <2>3. queue' \in [Instances -> Seq(Requests)] /\ \A i \in Instances : Len(queue'[i]) <= MaxSize
    BY <1>4, <2>1, <2>2 DEF dequeue
  <2> QED
    BY <1>4, <2>1, <2>3, DequeueTail, ForgetType DEF dequeue
<1>5. ASSUME NEW r \in Requests,
             Proceed(r) \/ acquireGlobalGate(r) \/ releaseGlobalGate(r) \/ Disconnect(r)
      PROVE  TypeOK'
  <2>1. CASE Proceed(r)
    BY <2>1 DEF Proceed
  <2>2. CASE acquireGlobalGate(r)
    BY <2>2 DEF acquireGlobalGate
  <2>3. CASE releaseGlobalGate(r)
    BY <2>3 DEF releaseGlobalGate, ReleaseSlot
  <2>4. CASE Disconnect(r)
    BY <2>4 DEF Disconnect
  <2> QED
    BY <1>5, <2>1, <2>2, <2>3, <2>4
<1>6. ASSUME NEW r \in Requests, Start(r) \/ checkAndClearStopMarker(r) \/ Return(r)
      PROVE  TypeOK'
  <2>1. inflight' \in [Instances -> [Users -> Requests \union {None}]]
    <3>1. \/ inflight' = inflight
          \/ inflight' = [inflight EXCEPT ![home[r]][user[r]] = r]
          \/ inflight' = [inflight EXCEPT ![home[r]][user[r]] = None]
      BY <1>6 DEF Start, checkAndClearStopMarker, Return, DeleteEntry
    <3>2. home[r] \in Instances /\ user[r] \in Users
      BY <1>6 DEF Start, checkAndClearStopMarker, Return, PlacesOK
    <3>3. CASE inflight' = [inflight EXCEPT ![home[r]][user[r]] = r]
      BY <3>2, <3>3
    <3>4. CASE inflight' = [inflight EXCEPT ![home[r]][user[r]] = None]
      BY <3>2, <3>4
    <3> QED
      BY <3>1, <3>3, <3>4
  <2>2. pc' \in [Requests -> {"new", "refuse"} \union Accepted \union Ended] /\ marker' \subseteq Users
    BY <1>6 DEF Start, checkAndClearStopMarker, Return
  <2> QED
    BY <1>6, <2>1, <2>2 DEF Start, checkAndClearStopMarker, Return
<1>7. ASSUME NEW i \in Instances, NEW u \in Users, Stop(i, u)
      PROVE  TypeOK'
  <2>1. CASE RemoveQueued(i, u)
    <3> DEFINE n == FirstOf(i, u)
    <3>1. queue[i] \in Seq(Requests) /\ n \in 1 .. Len(queue[i]) /\ queue[i][n] \in Requests
      BY <2>1, RemovedIs
    <3>2. RemoveAt(queue[i], n) \in Seq(Requests) /\ Len(RemoveAt(queue[i], n)) = Len(queue[i]) - 1
      BY <3>1, RemoveAtIs
    <3>3. queue' = [queue EXCEPT ![i] = RemoveAt(@, n)]
      BY <2>1 DEF RemoveQueued
    <3>4. queue' \in [Instances -> Seq(Requests)] /\ \A j \in Instances : Len(queue'[j]) <= MaxSize
      BY <3>1, <3>2, <3>3
    <3>5. perUser' \in [Instances -> [Users -> Nat]] /\ count' \in [Users -> Int]
      BY <2>1, ForgetType, DecrType DEF RemoveQueued, DecrRemoved
    <3>6. cancelled' \subseteq Requests /\ inflight' = inflight
          /\ pc' \in [Requests -> {"new", "refuse"} \union Accepted \union Ended]
      BY <2>1, <3>1 DEF RemoveQueued
    <3>7. stopping' \subseteq Users /\ stopped' \subseteq Requests
      BY <1>7 DEF Stop, Asked
    <3> QED
      BY <1>7, <3>4, <3>5, <3>6, <3>7 DEF Stop
  <2>2. CASE CancelInflight(i, u)
    <3>1. stopping' \subseteq Users /\ stopped' \subseteq Requests
      BY <1>7 DEF Stop, Asked
    <3>2. inflight' \in [Instances -> [Users -> Requests \union {None}]]
      BY <2>2 DEF CancelInflight
    <3>3. inflight[i][u] \in Requests \union {None}
      OBVIOUS
    <3>4. cancelled' \subseteq Requests
      BY <2>2, <3>3 DEF CancelInflight
    <3> QED
      BY <1>7, <2>2, <3>1, <3>2, <3>4 DEF Stop, CancelInflight
  <2> QED
    BY <1>7, <2>1, <2>2 DEF Stop
<1>8. ASSUME NEW i \in Instances, Close(i) \/ Crash(i)
      PROVE  TypeOK'
  <2>1. CASE Close(i)
    BY <2>1 DEF Close
  <2>2. CASE Crash(i)
    <3>1. queue' \in [Instances -> Seq(Requests)] /\ \A j \in Instances : Len(queue'[j]) <= MaxSize
      <4>1. << >> \in Seq(Requests) /\ Len(<< >>) = 0
        OBVIOUS
      <4> QED
        BY <2>2, <4>1 DEF Crash
    <3>2. perUser' \in [Instances -> [Users -> Nat]]
      BY <2>2 DEF Crash
    <3>3. inflight' \in [Instances -> [Users -> Requests \union {None}]]
      BY <2>2 DEF Crash
    <3>4. pc' \in [Requests -> {"new", "refuse"} \union Accepted \union Ended]
      BY <2>2 DEF Crash
    <3> QED
      BY <2>2, <3>1, <3>2, <3>3, <3>4 DEF Crash
  <2> QED
    BY <1>8, <2>1, <2>2
<1>9. ASSUME NEW u \in Users, SetStopMarker(u) \/ UserExpires(u) \/ MarkerExpires(u)
      PROVE  TypeOK'
  <2>1. CASE SetStopMarker(u)
    BY <2>1 DEF SetStopMarker, Asked
  <2>2. CASE UserExpires(u)
    BY <2>2 DEF UserExpires
  <2>3. CASE MarkerExpires(u)
    BY <2>3 DEF MarkerExpires
  <2> QED
    BY <1>9, <2>1, <2>2, <2>3
<1>10. CASE GateExpires
  BY <1>10 DEF GateExpires
<1>11. CASE UNCHANGED vars
  BY <1>11 DEF vars
<1> QED
  BY <1>1, <1>2, <1>3, <1>4, <1>5, <1>6, <1>7, <1>8, <1>9, <1>10, <1>11
  DEF Next, Insert, WorkerStep

-----------------------------------------------------------------------------
(* Queues and places *)

LEMMA PlacesMove ==
  ASSUME TypeOK, PlacesOK, NEW r \in Requests, NEW place,
         pc' = [pc EXCEPT ![r] = place], pc[r] # "queued", place # "queued",
         place \in {"refuse"} \union Accepted => pc[r] \in {"refuse"} \union Accepted,
         UNCHANGED <<env, queue, home, user>>
  PROVE  PlacesOK'
<1> USE DEF TypeOK
<1>1. ASSUME NEW i \in Instances PROVE QueueHolds(i)'
  <2>1. \A m \in 1 .. Len(queue[i]) : queue[i][m] \in Requests
    OBVIOUS
  <2> QED
    BY <2>1 DEF PlacesOK, QueueHolds
<1>2. ASSUME NEW q \in Requests, pc'[q] = "queued"
      PROVE  \E m \in 1 .. Len(queue'[home'[q]]) : queue'[home'[q]][m] = q
  BY <1>2 DEF PlacesOK
<1>3. ASSUME NEW q \in Requests, pc'[q] \in {"refuse"} \union Accepted
      PROVE  q <= env'.asks /\ home'[q] \in Instances /\ user'[q] \in Users
  BY <1>3 DEF PlacesOK
<1> QED
  BY <1>1, <1>2, <1>3 DEF PlacesOK

\* A request joins the end of the queue.
LEMMA PlacesAppend ==
  ASSUME TypeOK, PlacesOK, NEW r \in Requests, pc[r] = "insert",
         queue' = [queue EXCEPT ![home[r]] = Append(@, r)],
         pc' = [pc EXCEPT ![r] = "queued"], UNCHANGED <<env, home, user>>
  PROVE  PlacesOK'
<1> USE DEF TypeOK
<1>0. PICK h \in Instances :
        h = home[r] /\ queue[h] \in Seq(Requests) /\ user[r] \in Users /\ r <= env.asks
  BY DEF PlacesOK
<1>1. /\ Len(Append(queue[h], r)) = Len(queue[h]) + 1
      /\ Append(queue[h], r)[Len(queue[h]) + 1] = r
      /\ \A m \in 1 .. Len(queue[h]) : Append(queue[h], r)[m] = queue[h][m]
  BY <1>0
<1>2. \A m \in 1 .. Len(queue[h]) : queue[h][m] # r /\ queue[h][m] \in Requests
  BY <1>0 DEF PlacesOK, QueueHolds
<1>3. queue'[h] = Append(queue[h], r) /\ \A i \in Instances \ {h} : queue'[i] = queue[i]
  BY <1>0
<1>4. QueueHolds(h)'
  <2>1. ASSUME NEW m \in 1 .. Len(queue'[h])
        PROVE  pc'[queue'[h][m]] = "queued" /\ home'[queue'[h][m]] = h
    <3>1. CASE m = Len(queue[h]) + 1
      BY <1>0, <1>1, <1>3, <3>1
    <3>2. CASE m \in 1 .. Len(queue[h])
      BY <1>0, <1>1, <1>2, <1>3, <3>2 DEF PlacesOK, QueueHolds
    <3> QED
      BY <1>0, <1>1, <1>3, <3>1, <3>2
  <2>2. ASSUME NEW m \in 1 .. Len(queue'[h]), NEW n \in 1 .. Len(queue'[h]),
               queue'[h][m] = queue'[h][n]
        PROVE  m = n
    <3>1. m \in 1 .. Len(queue[h]) + 1 /\ n \in 1 .. Len(queue[h]) + 1
      BY <1>1, <1>3
    <3>2. CASE m \in 1 .. Len(queue[h]) /\ n \in 1 .. Len(queue[h])
      BY <1>0, <1>1, <1>3, <2>2, <3>2 DEF PlacesOK, QueueHolds
    <3>3. CASE m = Len(queue[h]) + 1 \/ n = Len(queue[h]) + 1
      BY <1>0, <1>1, <1>2, <1>3, <2>2, <3>1, <3>3
    <3> QED
      BY <1>0, <3>1, <3>2, <3>3
  <2> QED
    BY <2>1, <2>2 DEF QueueHolds
<1>5. ASSUME NEW i \in Instances \ {h} PROVE QueueHolds(i)'
  <2>1. \A m \in 1 .. Len(queue[i]) :
          queue[i][m] \in Requests /\ queue[i][m] # r
    BY DEF PlacesOK, QueueHolds
  <2> QED
    BY <1>3, <2>1 DEF PlacesOK, QueueHolds
<1>6. ASSUME NEW q \in Requests, pc'[q] = "queued"
      PROVE  \E m \in 1 .. Len(queue'[home'[q]]) : queue'[home'[q]][m] = q
  <2>1. CASE q = r
    <3>1. Len(queue[h]) + 1 \in 1 .. Len(queue'[h])
      BY <1>0, <1>1, <1>3
    <3> QED
      BY <1>0, <1>1, <1>3, <2>1, <3>1
  <2>2. CASE q # r
    <3>1. pc[q] = "queued"
      BY <1>6, <2>2
    <3>2. PICK m \in 1 .. Len(queue[home[q]]) : queue[home[q]][m] = q
      BY <3>1 DEF PlacesOK
    <3>3. home[q] \in Instances
      BY <3>1 DEF PlacesOK
    <3>4. m \in 1 .. Len(queue'[home[q]]) /\ queue'[home[q]][m] = q
      BY <1>0, <1>1, <1>3, <3>2, <3>3
    <3> QED
      BY <3>4
  <2> QED
    BY <2>1, <2>2
<1>7. ASSUME NEW q \in Requests, pc'[q] \in {"refuse"} \union Accepted
      PROVE  q <= env'.asks /\ home'[q] \in Instances /\ user'[q] \in Users
  BY <1>0, <1>7 DEF PlacesOK
<1> QED
  BY <1>0, <1>4, <1>5, <1>6, <1>7 DEF PlacesOK

\* One request leaves the queue of instance i, from any position.
LEMMA PlacesRemove ==
  ASSUME TypeOK, PlacesOK, NEW i \in Instances, NEW n \in 1 .. Len(queue[i]), NEW place,
         NEW s \in Seq(Requests), Len(s) = Len(queue[i]) - 1,
         \A m \in 1 .. Len(queue[i]) - 1 : s[m] = IF m < n THEN queue[i][m] ELSE queue[i][m + 1],
         queue' = [queue EXCEPT ![i] = s],
         place # "queued",
         pc' = [pc EXCEPT ![queue[i][n]] = place], UNCHANGED <<env, home, user>>
  PROVE  PlacesOK'
<1> USE DEF TypeOK
<1> DEFINE r == queue[i][n]
           from(m) == IF m < n THEN m ELSE m + 1
<1>0. queue[i] \in Seq(Requests) /\ Len(queue[i]) \in Nat /\ r \in Requests
  OBVIOUS
<1>1. pc[r] = "queued" /\ home[r] = i /\ r <= env.asks /\ user[r] \in Users
  BY <1>0 DEF PlacesOK, QueueHolds
<1>2. queue'[i] = s /\ \A j \in Instances \ {i} : queue'[j] = queue[j]
  OBVIOUS
<1>3. ASSUME NEW m \in 1 .. Len(s)
      PROVE  from(m) \in 1 .. Len(queue[i]) /\ from(m) # n /\ s[m] = queue[i][from(m)]
             /\ s[m] \in Requests /\ s[m] # r
  <2>1. from(m) \in 1 .. Len(queue[i]) /\ from(m) # n /\ s[m] = queue[i][from(m)]
    BY <1>0
  <2> QED
    BY <1>0, <2>1 DEF PlacesOK, QueueHolds
<1>8. /\ \A m \in 1 .. Len(queue[i]) : pc[queue[i][m]] = "queued" /\ home[queue[i][m]] = i
      /\ \A k, m \in 1 .. Len(queue[i]) : queue[i][k] = queue[i][m] => k = m
  BY DEF PlacesOK, QueueHolds
<1> HIDE DEF from
<1>4. QueueHolds(i)'
  <2>1. ASSUME NEW m \in 1 .. Len(s) PROVE pc'[s[m]] = "queued" /\ home'[s[m]] = i
    BY <1>0, <1>3, <1>8
  <2>2. ASSUME NEW k \in 1 .. Len(s), NEW m \in 1 .. Len(s), s[k] = s[m] PROVE k = m
    <3>1. from(k) = from(m)
      BY <1>3, <1>8, <2>2
    <3> QED
      BY <1>0, <3>1 DEF from
  <2> QED
    BY <1>2, <2>1, <2>2 DEF QueueHolds
<1>5. ASSUME NEW j \in Instances \ {i} PROVE QueueHolds(j)'
  <2>1. \A m \in 1 .. Len(queue[j]) : queue[j][m] \in Requests /\ queue[j][m] # r
    BY <1>1 DEF PlacesOK, QueueHolds
  <2> QED
    BY <1>2, <2>1 DEF PlacesOK, QueueHolds
<1>6. ASSUME NEW q \in Requests, pc'[q] = "queued"
      PROVE  \E m \in 1 .. Len(queue'[home'[q]]) : queue'[home'[q]][m] = q
  <2>1. q # r /\ pc[q] = "queued" /\ home[q] \in Instances
    BY <1>0, <1>6 DEF PlacesOK
  <2>2. PICK m \in 1 .. Len(queue[home[q]]) : queue[home[q]][m] = q
    BY <2>1 DEF PlacesOK
  <2>3. CASE home[q] # i
    BY <1>2, <2>1, <2>2, <2>3
  <2>4. CASE home[q] = i /\ m < n
    <3>1. m \in 1 .. Len(s) /\ s[m] = q
      BY <1>0, <2>2, <2>4
    <3> QED
      BY <1>2, <2>4, <3>1
  <2>5. CASE home[q] = i /\ m > n
    <3>1. m - 1 \in 1 .. Len(s) /\ s[m - 1] = q
      BY <1>0, <2>2, <2>5
    <3> QED
      BY <1>2, <2>5, <3>1
  <2> QED
    BY <1>0, <2>1, <2>2, <2>3, <2>4, <2>5
<1>7. ASSUME NEW q \in Requests, pc'[q] \in {"refuse"} \union Accepted
      PROVE  q <= env'.asks /\ home'[q] \in Instances /\ user'[q] \in Users
  <2>1. CASE q = r
    BY <1>1, <2>1
  <2>2. CASE q # r
    BY <1>7, <2>2 DEF PlacesOK
  <2> QED
    BY <2>1, <2>2
<1> QED
  BY <1>4, <1>5, <1>6, <1>7 DEF PlacesOK

LEMMA PlacesStep ==
  ASSUME TypeOK, PlacesOK, [Next]_vars
  PROVE  PlacesOK'
<1>1. ASSUME NEW r \in Requests, NEW i \in Instances, NEW u \in Users, redisCheckAndIncrUser(r, i, u)
      PROVE  PlacesOK'
  <2> USE DEF TypeOK
  <2>1. /\ pc[r] = "new" /\ r <= env.asks /\ queue' = queue /\ env' = env
        /\ home' = [home EXCEPT ![r] = i] /\ user' = [user EXCEPT ![r] = u]
        /\ pc' \in {[pc EXCEPT ![r] = "insert"], [pc EXCEPT ![r] = "refuse"]}
    BY <1>1 DEF redisCheckAndIncrUser
  <2>2. ASSUME NEW j \in Instances PROVE QueueHolds(j)'
    <3>1. \A m \in 1 .. Len(queue[j]) : queue[j][m] \in Requests /\ queue[j][m] # r
      BY <2>1 DEF PlacesOK, QueueHolds
    <3> QED
      BY <2>1, <3>1 DEF PlacesOK, QueueHolds
  <2>3. ASSUME NEW q \in Requests, pc'[q] = "queued"
        PROVE  \E m \in 1 .. Len(queue'[home'[q]]) : queue'[home'[q]][m] = q
    <3>1. q # r /\ pc[q] = "queued"
      BY <2>1, <2>3
    <3> QED
      BY <2>1, <3>1 DEF PlacesOK
  <2>4. ASSUME NEW q \in Requests, pc'[q] \in {"refuse"} \union Accepted
        PROVE  q <= env'.asks /\ home'[q] \in Instances /\ user'[q] \in Users
    <3>1. CASE q = r
      BY <2>1, <3>1
    <3>2. CASE q # r
      BY <2>1, <2>4, <3>2 DEF PlacesOK
    <3> QED
      BY <3>1, <3>2
  <2> QED
    BY <2>2, <2>3, <2>4 DEF PlacesOK
<1>2. ASSUME NEW r \in Requests, Refuse(r) \/ Discard(r) \/ GiveUp(r) \/ Finish(r)
      PROVE  PlacesOK'
  <2>1. PICK place \in {"rejected", "dropped", "done"} :
          /\ pc' = [pc EXCEPT ![r] = place] /\ pc[r] # "queued"
          /\ UNCHANGED <<env, queue, home, user>>
    BY <1>2 DEF Refuse, Discard, GiveUp, Finish
  <2> QED
    BY <2>1, PlacesMove
<1>3. ASSUME NEW r \in Requests, Enqueue(r)
      PROVE  PlacesOK'
  <2>1. CASE Rejects(home[r], user[r])
    <3>1. pc' = [pc EXCEPT ![r] = "rejected"] /\ pc[r] = "insert" /\ UNCHANGED <<env, queue, home, user>>
      BY <1>3, <2>1 DEF Enqueue
    <3> QED
      BY <3>1, PlacesMove
  <2>2. CASE ~ Rejects(home[r], user[r])
    <3>1. /\ pc' = [pc EXCEPT ![r] = "queued"] /\ pc[r] = "insert" /\ UNCHANGED <<env, home, user>>
          /\ queue' = [queue EXCEPT ![home[r]] = Append(@, r)]
      BY <1>3, <2>2 DEF Enqueue
    <3> QED
      BY <3>1, PlacesAppend
  <2> QED
    BY <2>1, <2>2
<1>4. ASSUME NEW r \in Requests, dequeue(r)
      PROVE  PlacesOK'
  <2>1. PICK i \in Instances :
          /\ i = home[r] /\ queue[i] \in Seq(Requests) /\ queue[i] # << >> /\ queue[i][1] = r
    BY <1>4, DequeueTail
  <2>2. /\ Tail(queue[i]) \in Seq(Requests) /\ Len(Tail(queue[i])) = Len(queue[i]) - 1
        /\ \A m \in 1 .. Len(queue[i]) - 1 : Tail(queue[i])[m] = queue[i][m + 1]
        /\ 1 \in 1 .. Len(queue[i])
    BY <2>1
  <2>3. \A m \in 1 .. Len(queue[i]) - 1 :
          Tail(queue[i])[m] = IF m < 1 THEN queue[i][m] ELSE queue[i][m + 1]
    BY <2>1, <2>2
  <2>4. /\ queue' = [queue EXCEPT ![i] = Tail(queue[i])]
        /\ pc' = [pc EXCEPT ![queue[i][1]] = "picked"] /\ UNCHANGED <<env, home, user>>
    BY <1>4, <2>1 DEF dequeue
  <2> QED
    BY <2>2, <2>3, <2>4, PlacesRemove
<1>5. ASSUME NEW r \in Requests,
             \/ Proceed(r) \/ acquireGlobalGate(r) \/ releaseGlobalGate(r)
             \/ Start(r) \/ checkAndClearStopMarker(r) \/ Return(r)
      PROVE  PlacesOK'
  <2>1. PICK place \in {"gate", "start", "free", "check", "release", "run"} :
          pc' = [pc EXCEPT ![r] = place]
    BY <1>5 DEF Proceed, acquireGlobalGate, releaseGlobalGate, Start, checkAndClearStopMarker, Return
  <2>2. pc[r] # "queued" /\ pc[r] \in Accepted /\ UNCHANGED <<env, queue, home, user>>
    BY <1>5 DEF Proceed, acquireGlobalGate, releaseGlobalGate, Start, checkAndClearStopMarker, Return
  <2> QED
    BY <2>1, <2>2, PlacesMove
<1>6. ASSUME NEW i \in Instances, NEW u \in Users, Stop(i, u)
      PROVE  PlacesOK'
  <2>1. CASE RemoveQueued(i, u)
    <3> DEFINE n == FirstOf(i, u)
    <3>1. queue[i] \in Seq(Requests) /\ n \in 1 .. Len(queue[i])
      BY <2>1, RemovedIs
    <3>2. PICK s : s = RemoveAt(queue[i], n)
      OBVIOUS
    <3>3. /\ s \in Seq(Requests) /\ Len(s) = Len(queue[i]) - 1
          /\ \A m \in 1 .. Len(queue[i]) - 1 : s[m] = IF m < n THEN queue[i][m] ELSE queue[i][m + 1]
      BY <3>1, <3>2, RemoveAtIs
    <3>4. /\ queue' = [queue EXCEPT ![i] = s]
          /\ pc' = [pc EXCEPT ![queue[i][n]] = "removed"] /\ UNCHANGED <<env, home, user>>
      BY <1>6, <2>1, <3>2 DEF Stop, RemoveQueued
    <3> QED
      BY <3>1, <3>3, <3>4, PlacesRemove
  <2>2. CASE CancelInflight(i, u)
    <3>1. UNCHANGED <<env, queue, pc, home, user>>
      BY <1>6, <2>2 DEF Stop, CancelInflight
    <3> QED
      BY <3>1 DEF PlacesOK, QueueHolds
  <2> QED
    BY <1>6, <2>1, <2>2 DEF Stop
<1>7. ASSUME NEW i \in Instances, Crash(i)
      PROVE  PlacesOK'
  <2> USE DEF TypeOK
  <2>1. /\ queue'[i] = << >> /\ \A j \in Instances \ {i} : queue'[j] = queue[j]
        /\ UNCHANGED <<env, home, user>>
        /\ \A q \in Requests : pc'[q] = IF home[q] = i /\ pc[q] \notin Ended THEN "lost" ELSE pc[q]
    BY <1>7 DEF Crash
  <2>2. QueueHolds(i)'
    <3>1. 1 .. Len(queue'[i]) = {}
      BY <2>1
    <3> QED
      BY <3>1 DEF QueueHolds
  <2>3. ASSUME NEW j \in Instances \ {i} PROVE QueueHolds(j)'
    <3>1. \A m \in 1 .. Len(queue[j]) : queue[j][m] \in Requests
      OBVIOUS
    <3> QED
      BY <2>1, <3>1 DEF PlacesOK, QueueHolds
  <2>4. ASSUME NEW q \in Requests, pc'[q] = "queued"
        PROVE  \E m \in 1 .. Len(queue'[home'[q]]) : queue'[home'[q]][m] = q
    <3>1. home[q] # i /\ pc[q] = "queued"
      BY <2>1, <2>4
    <3>2. home[q] \in Instances
      BY <3>1 DEF PlacesOK
    <3> QED
      BY <2>1, <3>1, <3>2 DEF PlacesOK
  <2>5. ASSUME NEW q \in Requests, pc'[q] \in {"refuse"} \union Accepted
        PROVE  q <= env'.asks /\ home'[q] \in Instances /\ user'[q] \in Users
    BY <2>1, <2>5 DEF PlacesOK
  <2> QED
    BY <2>2, <2>3, <2>4, <2>5 DEF PlacesOK
<1>8. ASSUME UNCHANGED <<env, queue, pc, home, user>>
      PROVE  PlacesOK'
  BY <1>8 DEF PlacesOK, QueueHolds
<1>9. ASSUME NEW i \in Instances, Close(i)
      PROVE  PlacesOK'
  BY <1>8, <1>9 DEF Close
<1>10. ASSUME NEW r \in Requests, Disconnect(r)
       PROVE  PlacesOK'
  BY <1>8, <1>10 DEF Disconnect
<1>11. ASSUME NEW u \in Users, SetStopMarker(u) \/ UserExpires(u) \/ MarkerExpires(u)
       PROVE  PlacesOK'
  BY <1>8, <1>11 DEF SetStopMarker, UserExpires, MarkerExpires
<1>12. CASE GateExpires
  BY <1>8, <1>12 DEF GateExpires
<1>13. CASE UNCHANGED vars
  BY <1>8, <1>13 DEF vars
<1> QED
  BY <1>1, <1>2, <1>3, <1>4, <1>5, <1>6, <1>7, <1>9, <1>10, <1>11, <1>12, <1>13
  DEF Next, Insert, WorkerStep

-----------------------------------------------------------------------------
(* Requests in and out of the handler *)

\* A request that reached the handler, or left, does not come back to the queue.
LEMMA EarlyIsLeft ==
  ASSUME TypeOK, PlacesOK, [Next]_vars
  PROVE  env' = env /\ \A q \in Requests : pc[q] \notin Early => pc'[q] \notin Early
<1> USE DEF TypeOK, Early
<1>1. ASSUME NEW r \in Requests, NEW i \in Instances, NEW u \in Users, redisCheckAndIncrUser(r, i, u)
      PROVE  env' = env /\ \A q \in Requests : pc[q] \notin Early => pc'[q] \notin Early
  BY <1>1 DEF redisCheckAndIncrUser
<1>2. ASSUME NEW r \in Requests, Insert(r) \/ WorkerStep(r) \/ Disconnect(r)
      PROVE  env' = env /\ \A q \in Requests : pc[q] \notin Early => pc'[q] \notin Early
  <2>1. CASE Insert(r)
    BY <2>1 DEF Insert, Refuse, Enqueue
  <2>2. CASE dequeue(r) \/ Discard(r) \/ Proceed(r) \/ acquireGlobalGate(r) \/ GiveUp(r)
    BY <2>2 DEF dequeue, Discard, Proceed, acquireGlobalGate, GiveUp
  <2>3. CASE Start(r) \/ checkAndClearStopMarker(r) \/ Return(r) \/ releaseGlobalGate(r) \/ Finish(r)
    BY <2>3 DEF Start, checkAndClearStopMarker, Return, releaseGlobalGate, Finish
  <2>4. CASE Disconnect(r)
    BY <2>4 DEF Disconnect
  <2> QED
    BY <1>2, <2>1, <2>2, <2>3, <2>4 DEF WorkerStep
<1>3. ASSUME NEW i \in Instances, NEW u \in Users, Stop(i, u)
      PROVE  env' = env /\ \A q \in Requests : pc[q] \notin Early => pc'[q] \notin Early
  BY <1>3 DEF Stop, RemoveQueued, CancelInflight
<1>4. ASSUME NEW i \in Instances, Close(i) \/ Crash(i)
      PROVE  env' = env /\ \A q \in Requests : pc[q] \notin Early => pc'[q] \notin Early
  BY <1>4 DEF Close, Crash
<1>5. ASSUME NEW u \in Users, SetStopMarker(u) \/ UserExpires(u) \/ MarkerExpires(u)
      PROVE  env' = env /\ \A q \in Requests : pc[q] \notin Early => pc'[q] \notin Early
  BY <1>5 DEF SetStopMarker, UserExpires, MarkerExpires
<1>6. CASE GateExpires
  BY <1>6 DEF GateExpires
<1>7. CASE UNCHANGED vars
  BY <1>7 DEF vars
<1> QED
  BY <1>1, <1>2, <1>3, <1>4, <1>5, <1>6, <1>7 DEF Next

\* An entry of inflight is an old one, or that of a request the handler starts.
LEMMA EntriesMove ==
  ASSUME TypeOK, PlacesOK, [Next]_vars, NEW j \in Instances, NEW v \in Users
  PROVE  \/ inflight'[j][v] = inflight[j][v]
         \/ inflight'[j][v] = None
         \/ inflight'[j][v] \in Requests /\ pc'[inflight'[j][v]] \notin Early
<1> USE DEF TypeOK
<1> DEFINE Moves == \/ inflight'[j][v] = inflight[j][v]
                    \/ inflight'[j][v] = None
                    \/ inflight'[j][v] \in Requests /\ pc'[inflight'[j][v]] \notin Early
<1>1. ASSUME NEW r \in Requests, Start(r) PROVE Moves
  <2>1. pc'[r] = "check" /\ home[r] \in Instances /\ user[r] \in Users
    BY <1>1 DEF Start, PlacesOK
  <2>2. inflight' = [inflight EXCEPT ![home[r]][user[r]] = r]
    BY <1>1 DEF Start
  <2>3. inflight'[j][v] = inflight[j][v] \/ inflight'[j][v] = r
    BY <2>1, <2>2
  <2> QED
    BY <2>1, <2>3 DEF Early
<1>2. ASSUME NEW r \in Requests, DeleteEntry(r) PROVE Moves
  BY <1>2 DEF DeleteEntry
<1>3. ASSUME NEW i \in Instances, NEW u \in Users, CancelInflight(i, u) PROVE Moves
  BY <1>3 DEF CancelInflight
<1>4. ASSUME NEW i \in Instances, Crash(i) PROVE Moves
  BY <1>4 DEF Crash
<1>5. ASSUME UNCHANGED inflight PROVE Moves
  BY <1>5
<1>6. ASSUME NEW r \in Requests, Insert(r) \/ WorkerStep(r) \/ Disconnect(r) PROVE Moves
  <2>1. CASE Insert(r) \/ Disconnect(r)
    BY <1>5, <2>1 DEF Insert, Refuse, Enqueue, Disconnect
  <2>2. CASE dequeue(r) \/ Discard(r) \/ Proceed(r) \/ acquireGlobalGate(r) \/ GiveUp(r)
    BY <1>5, <2>2 DEF dequeue, Discard, Proceed, acquireGlobalGate, GiveUp
  <2>3. CASE releaseGlobalGate(r) \/ Finish(r)
    BY <1>5, <2>3 DEF releaseGlobalGate, Finish
  <2>4. CASE checkAndClearStopMarker(r) \/ Return(r)
    BY <1>2, <1>5, <2>4 DEF checkAndClearStopMarker, Return
  <2> QED
    BY <1>1, <1>6, <2>1, <2>2, <2>3, <2>4 DEF WorkerStep
<1>7. ASSUME NEW i \in Instances, NEW u \in Users, Stop(i, u) PROVE Moves
  BY <1>3, <1>5, <1>7 DEF Stop, RemoveQueued
<1>8. ASSUME NEW u \in Users, SetStopMarker(u) \/ UserExpires(u) \/ MarkerExpires(u) PROVE Moves
  BY <1>5, <1>8 DEF SetStopMarker, UserExpires, MarkerExpires
<1>9. CASE GateExpires \/ UNCHANGED vars
  BY <1>5, <1>9 DEF GateExpires, vars
<1>10. ASSUME NEW r \in Requests, NEW i \in Instances, NEW u \in Users, redisCheckAndIncrUser(r, i, u)
       PROVE  Moves
  BY <1>5, <1>10 DEF redisCheckAndIncrUser
<1>11. ASSUME NEW i \in Instances, Close(i) PROVE Moves
  BY <1>5, <1>11 DEF Close
<1> QED
  BY <1>4, <1>6, <1>7, <1>8, <1>9, <1>10, <1>11 DEF Next

LEMMA CancelsStep ==
  ASSUME TypeOK, PlacesOK, CancelsOK, [Next]_vars
  PROVE  CancelsOK'
<1> USE DEF TypeOK
<1>1. env' = env /\ \A q \in Requests : pc[q] \notin Early => pc'[q] \notin Early
  BY EarlyIsLeft
<1>2. ASSUME NEW j \in Instances, NEW v \in Users, inflight'[j][v] # None
      PROVE  pc'[inflight'[j][v]] \notin Early
  <2>1. inflight[j][v] \in Requests \union {None}
    OBVIOUS
  <2>2. \/ inflight'[j][v] = inflight[j][v]
        \/ inflight'[j][v] \in Requests /\ pc'[inflight'[j][v]] \notin Early
    BY <1>2, EntriesMove
  <2> QED
    BY <1>1, <1>2, <2>1, <2>2 DEF CancelsOK
<1>3. ASSUME Without({"cancel"}), NEW q \in cancelled'
      PROVE  q \in Requests /\ pc'[q] \notin Early
  <2>1. CASE q \in cancelled
    BY <1>1, <1>3, <2>1 DEF CancelsOK
  <2>2. ASSUME NEW i \in Instances, NEW u \in Users, Stop(i, u), q \notin cancelled
        PROVE  q \in Requests /\ pc'[q] \notin Early
    <3>1. CASE RemoveQueued(i, u)
      <4>1. queue[i][FirstOf(i, u)] \in Requests
        BY <3>1, RemovedIs
      <4>2. q = queue[i][FirstOf(i, u)] /\ pc'[queue[i][FirstOf(i, u)]] = "removed"
        BY <1>3, <2>2, <3>1, <4>1 DEF RemoveQueued
      <4> QED
        BY <4>1, <4>2 DEF Early
    <3>2. CASE CancelInflight(i, u)
      <4>1. q = inflight[i][u] /\ q # None /\ inflight[i][u] \in Requests \union {None}
        BY <1>3, <2>2, <3>2 DEF CancelInflight
      <4> QED
        BY <1>1, <4>1 DEF CancelsOK
    <3> QED
      BY <2>2, <3>1, <3>2 DEF Stop
  <2>3. ASSUME NEW r \in Requests, Disconnect(r) PROVE FALSE
    BY <1>3, <2>3 DEF Disconnect, Without
  <2>4. ASSUME NEW r \in Requests, Insert(r) \/ WorkerStep(r) PROVE cancelled' = cancelled
    <3>1. CASE Insert(r)
      BY <3>1 DEF Insert, Refuse, Enqueue
    <3>2. CASE dequeue(r) \/ Discard(r) \/ Proceed(r) \/ acquireGlobalGate(r) \/ GiveUp(r)
      BY <3>2 DEF dequeue, Discard, Proceed, acquireGlobalGate, GiveUp
    <3>3. CASE Start(r) \/ checkAndClearStopMarker(r) \/ Return(r) \/ releaseGlobalGate(r) \/ Finish(r)
      BY <3>3 DEF Start, checkAndClearStopMarker, Return, releaseGlobalGate, Finish
    <3> QED
      BY <2>4, <3>1, <3>2, <3>3 DEF WorkerStep
  <2>5. ASSUME NEW r \in Requests, NEW i \in Instances, NEW u \in Users, redisCheckAndIncrUser(r, i, u)
        PROVE  cancelled' = cancelled
    BY <2>5 DEF redisCheckAndIncrUser
  <2>6. ASSUME NEW i \in Instances, Close(i) \/ Crash(i) PROVE cancelled' = cancelled
    BY <2>6 DEF Close, Crash
  <2>7. ASSUME NEW u \in Users, SetStopMarker(u) \/ UserExpires(u) \/ MarkerExpires(u)
        PROVE  cancelled' = cancelled
    BY <2>7 DEF SetStopMarker, UserExpires, MarkerExpires
  <2>8. CASE GateExpires \/ UNCHANGED vars
    BY <1>3, <2>1, <2>8 DEF GateExpires, vars
  <2> QED
    BY <1>3, <2>1, <2>2, <2>3, <2>4, <2>5, <2>6, <2>7, <2>8 DEF Next
<1> QED
  BY <1>1, <1>2, <1>3 DEF CancelsOK, Without

-----------------------------------------------------------------------------
(* Counting requests *)

One(b) == IF b THEN 1 ELSE 0

\* Only request r changes its place, and env stays.
MovesOnly(r) ==
  env' = env /\ \A q \in Requests \ {r} : pc'[q] = pc[q] /\ home'[q] = home[q] /\ user'[q] = user[q]

\* Two sets that differ in r at most.
LEMMA CardMoves ==
  ASSUME NEW S, IsFiniteSet(S), NEW T, NEW r, S \ {r} = T \ {r}
  PROVE  /\ IsFiniteSet(T) /\ Cardinality(S) \in Nat /\ Cardinality(T) \in Nat
         /\ Cardinality(T) = Cardinality(S) + One(r \in T) - One(r \in S)
<1>1. IsFiniteSet(S \ {r})
      /\ Cardinality(S \ {r}) = IF r \in S THEN Cardinality(S) - 1 ELSE Cardinality(S)
  BY FS_RemoveElement
<1>2. IsFiniteSet(T)
  <2>1. IsFiniteSet((T \ {r}) \union {r})
    BY <1>1, FS_AddElement
  <2>2. T \in SUBSET ((T \ {r}) \union {r})
    OBVIOUS
  <2> QED
    BY <2>1, <2>2, FS_Subset
<1>3. Cardinality(T \ {r}) = IF r \in T THEN Cardinality(T) - 1 ELSE Cardinality(T)
  BY <1>2, FS_RemoveElement
<1>4. Cardinality(S) \in Nat /\ Cardinality(T) \in Nat
  BY <1>2, FS_CardinalityType
<1> QED
  BY <1>1, <1>2, <1>3, <1>4 DEF One

LEMMA SetsFinite ==
  ASSUME TypeOK, PlacesOK
  PROVE  /\ \A u : IsFiniteSet(Taken(u)) /\ IsFiniteSet(UnderWay(u))
         /\ IsFiniteSet(Holding)
         /\ \A i, u : IsFiniteSet(QueuedAt(i, u))
<1> DEFINE All == {r \in Requests : pc[r] \in {"refuse"} \union Accepted}
<1>1. All \in SUBSET Nat /\ env.asks \in Nat
  BY RequestsAssumption, EnvironmentsAssumption DEF TypeOK
<1>2. \A r \in All : r <= env.asks
  BY DEF PlacesOK
<1>3. IsFiniteSet(All)
  BY <1>1, <1>2, FS_BoundedSetOfNaturals
<1>4. /\ \A u : Taken(u) \in SUBSET All /\ UnderWay(u) \in SUBSET All
      /\ Holding \in SUBSET All
      /\ \A i, u : QueuedAt(i, u) \in SUBSET All
  BY DEF Taken, UnderWay, Asked, Holding, QueuedAt
<1> HIDE DEF All
<1> QED
  BY <1>3, <1>4, FS_Subset

\* What a move changes in the number of requests of each kind.
LEMMA NumbersMove ==
  ASSUME TypeOK, PlacesOK, NEW r \in Requests, MovesOnly(r)
  PROVE  /\ \A u : /\ Cardinality(Taken(u)) \in Nat /\ Cardinality(Taken(u)') \in Nat
                   /\ Cardinality(Taken(u)') = Cardinality(Taken(u)) + One(r \in Taken(u)') - One(r \in Taken(u))
         /\ \A u : /\ Cardinality(UnderWay(u)) \in Nat /\ Cardinality(UnderWay(u)') \in Nat
                   /\ Cardinality(UnderWay(u)')
                        = Cardinality(UnderWay(u)) + One(r \in UnderWay(u)') - One(r \in UnderWay(u))
         /\ /\ Cardinality(Holding) \in Nat /\ Cardinality(Holding') \in Nat
            /\ Cardinality(Holding') = Cardinality(Holding) + One(r \in Holding') - One(r \in Holding)
         /\ \A i, u : /\ Cardinality(QueuedAt(i, u)) \in Nat /\ Cardinality(QueuedAt(i, u)') \in Nat
                      /\ Cardinality(QueuedAt(i, u)')
                           = Cardinality(QueuedAt(i, u)) + One(r \in QueuedAt(i, u)') - One(r \in QueuedAt(i, u))
<1>1. /\ \A u : Taken(u) \ {r} = Taken(u)' \ {r} /\ UnderWay(u) \ {r} = UnderWay(u)' \ {r}
      /\ Holding \ {r} = Holding' \ {r}
      /\ \A i, u : QueuedAt(i, u) \ {r} = QueuedAt(i, u)' \ {r}
  BY DEF MovesOnly, Taken, UnderWay, Asked, Holding, QueuedAt
<1>2. /\ \A u : IsFiniteSet(Taken(u)) /\ IsFiniteSet(UnderWay(u))
      /\ IsFiniteSet(Holding)
      /\ \A i, u : IsFiniteSet(QueuedAt(i, u))
  BY SetsFinite
<1>3. \A u : /\ Cardinality(Taken(u)) \in Nat /\ Cardinality(Taken(u)') \in Nat
             /\ Cardinality(Taken(u)') = Cardinality(Taken(u)) + One(r \in Taken(u)') - One(r \in Taken(u))
  BY <1>1, <1>2, CardMoves, Zenon
<1>4. \A u : /\ Cardinality(UnderWay(u)) \in Nat /\ Cardinality(UnderWay(u)') \in Nat
             /\ Cardinality(UnderWay(u)')
                  = Cardinality(UnderWay(u)) + One(r \in UnderWay(u)') - One(r \in UnderWay(u))
  BY <1>1, <1>2, CardMoves, Zenon
<1>5. /\ Cardinality(Holding) \in Nat /\ Cardinality(Holding') \in Nat
      /\ Cardinality(Holding') = Cardinality(Holding) + One(r \in Holding') - One(r \in Holding)
  BY <1>1, <1>2, CardMoves, Zenon
<1>6. \A i, u : /\ Cardinality(QueuedAt(i, u)) \in Nat /\ Cardinality(QueuedAt(i, u)') \in Nat
                /\ Cardinality(QueuedAt(i, u)')
                     = Cardinality(QueuedAt(i, u)) + One(r \in QueuedAt(i, u)') - One(r \in QueuedAt(i, u))
  BY <1>1, <1>2, CardMoves, Zenon
<1> QED
  BY <1>3, <1>4, <1>5, <1>6

\* The requests under way are among those counted.
LEMMA UnderWayTaken ==
  ASSUME TypeOK, PlacesOK, NEW u
  PROVE  Cardinality(UnderWay(u)) <= Cardinality(Taken(u))
<1>1. UnderWay(u) \in SUBSET Taken(u)
  BY DEF Taken
<1> QED
  BY <1>1, SetsFinite, FS_Subset

-----------------------------------------------------------------------------
(* The counter of each user *)

\* A counted request stays counted, or leaves and gives back its unit.
LEMMA CountMoves ==
  ASSUME TypeOK, PlacesOK, CountOK, env.redis, Without({"redis", "slow"}),
         NEW r \in Requests, pc[r] \in {"refuse"} \union Accepted,
         NEW place, pc' = [pc EXCEPT ![r] = place], UNCHANGED <<env, home, user>>,
         \/ place \in Accepted /\ pc[r] \in Accepted /\ count' = count
         \/ place \in Ended /\ count' = Add(user[r], -1)
  PROVE  CountOK'
<1> USE DEF TypeOK
<1>1. MovesOnly(r)
  BY DEF MovesOnly
<1>2. user[r] \in Users
  BY DEF PlacesOK
<1>3. ASSUME NEW u \in Users
      PROVE  /\ Cardinality(Taken(u))' <= count'[u]
             /\ Cardinality(UnderWay(u))' <= MaxPerUser
             /\ Without({"crash"}) => Cardinality(Taken(u))' = count'[u]
  <2>1. /\ Cardinality(Taken(u)) \in Nat /\ Cardinality(UnderWay(u)) \in Nat
        /\ Cardinality(Taken(u)') = Cardinality(Taken(u)) + One(r \in Taken(u)') - One(r \in Taken(u))
        /\ Cardinality(UnderWay(u)')
             = Cardinality(UnderWay(u)) + One(r \in UnderWay(u)') - One(r \in UnderWay(u))
    BY <1>1, NumbersMove
  <2>2. /\ Cardinality(Taken(u)) <= count[u] /\ Cardinality(UnderWay(u)) <= MaxPerUser
        /\ Without({"crash"}) => Cardinality(Taken(u)) = count[u]
    BY DEF CountOK
  <2>3. r \in Taken(u) <=> user[r] = u
    BY DEF Taken, UnderWay, Asked
  <2>4. CASE place \in Accepted /\ pc[r] \in Accepted /\ count' = count
    <3>1. (r \in Taken(u)' <=> user[r] = u) /\ (r \in UnderWay(u)' <=> r \in UnderWay(u))
      BY <2>4 DEF Taken, UnderWay, Asked
    <3> QED
      BY <2>1, <2>2, <2>3, <2>4, <3>1, SizesAssumption DEF One
  <2>5. CASE place \in Ended /\ count' = Add(user[r], -1)
    <3>1. r \notin Taken(u)' /\ r \notin UnderWay(u)'
      BY <2>5 DEF Taken, UnderWay, Asked
    <3>2. count'[u] = IF user[r] = u THEN count[u] - 1 ELSE count[u]
      BY <1>2, <2>5 DEF Add
    <3> QED
      BY <2>1, <2>2, <2>3, <3>1, <3>2, SizesAssumption DEF One
  <2> QED
    BY <2>4, <2>5
<1> QED
  BY <1>3 DEF CountOK, Without

\* The first step of a request counts it and compares in one go.
LEMMA CountEnters ==
  ASSUME TypeOK, PlacesOK, CountOK, env.redis, Without({"redis", "slow"}),
         NEW r \in Requests, NEW i \in Instances, NEW v \in Users, redisCheckAndIncrUser(r, i, v)
  PROVE  CountOK'
<1> USE DEF TypeOK
<1>1. /\ env' = env /\ pc[r] = "new" /\ user' = [user EXCEPT ![r] = v]
      /\ home' = [home EXCEPT ![r] = i] /\ count' = Add(v, 1)
      /\ pc' = [pc EXCEPT ![r] = IF OverLimit(count[v] + 1) THEN "refuse" ELSE "insert"]
  BY DEF redisCheckAndIncrUser, Fails, Without
<1>2. MovesOnly(r)
  BY <1>1 DEF MovesOnly
<1>3. ASSUME NEW u \in Users
      PROVE  /\ Cardinality(Taken(u))' <= count'[u]
             /\ Cardinality(UnderWay(u))' <= MaxPerUser
             /\ Without({"crash"}) => Cardinality(Taken(u))' = count'[u]
  <2>1. /\ Cardinality(Taken(u)) \in Nat /\ Cardinality(UnderWay(u)) \in Nat
        /\ Cardinality(Taken(u)') = Cardinality(Taken(u)) + One(r \in Taken(u)') - One(r \in Taken(u))
        /\ Cardinality(UnderWay(u)')
             = Cardinality(UnderWay(u)) + One(r \in UnderWay(u)') - One(r \in UnderWay(u))
    BY <1>2, NumbersMove
  <2>2. /\ Cardinality(Taken(u)) <= count[u] /\ Cardinality(UnderWay(u)) <= MaxPerUser
        /\ Without({"crash"}) => Cardinality(Taken(u)) = count[u]
    BY DEF CountOK
  <2>3. Cardinality(UnderWay(u)) <= Cardinality(Taken(u))
    BY UnderWayTaken
  <2>4. r \notin Taken(u) /\ r \notin UnderWay(u)
    BY <1>1 DEF Taken, UnderWay, Asked
  <2>5. r \in Taken(u)' <=> u = v
    BY <1>1 DEF Taken, UnderWay, Asked
  <2>6. r \in UnderWay(u)' => u = v /\ count[v] + 1 <= MaxPerUser
    BY <1>1, SizesAssumption DEF UnderWay, Asked, OverLimit
  <2>7. count'[u] = IF u = v THEN count[u] + 1 ELSE count[u]
    BY <1>1 DEF Add
  <2> QED
    BY <2>1, <2>2, <2>3, <2>4, <2>5, <2>6, <2>7, SizesAssumption DEF One
<1> QED
  BY <1>1, <1>3 DEF CountOK, Without

\* A crash takes requests and leaves the counters.
LEMMA CountCrash ==
  ASSUME TypeOK, PlacesOK, CountOK, NEW i \in Instances, Crash(i)
  PROVE  CountOK'
<1> USE DEF TypeOK
<1>1. /\ UNCHANGED <<env, count, home, user>> /\ "crash" \in env.events
      /\ \A q \in Requests : pc'[q] = pc[q] \/ pc'[q] = "lost"
  BY DEF Crash
<1>2. ASSUME NEW u
      PROVE  /\ Cardinality(Taken(u))' <= Cardinality(Taken(u))
             /\ Cardinality(UnderWay(u))' <= Cardinality(UnderWay(u))
             /\ Cardinality(Taken(u)) \in Nat /\ Cardinality(Taken(u))' \in Nat
             /\ Cardinality(UnderWay(u)) \in Nat /\ Cardinality(UnderWay(u))' \in Nat
  <2>1. Taken(u)' \in SUBSET Taken(u) /\ UnderWay(u)' \in SUBSET UnderWay(u)
    BY <1>1 DEF Taken, UnderWay, Asked
  <2>2. IsFiniteSet(Taken(u)) /\ IsFiniteSet(UnderWay(u))
    BY SetsFinite
  <2> QED
    BY <2>1, <2>2, FS_Subset, FS_CardinalityType
<1>3. ~ Without({"crash"})
  BY <1>1 DEF Without
<1>4. ASSUME env.redis, Without({"redis", "slow"}), NEW u \in Users
      PROVE  Cardinality(Taken(u))' <= count'[u] /\ Cardinality(UnderWay(u))' <= MaxPerUser
  BY <1>1, <1>2, <1>4, SizesAssumption DEF CountOK
<1> QED
  BY <1>1, <1>3, <1>4 DEF CountOK, Without

LEMMA CountStep ==
  ASSUME TypeOK, PlacesOK, CountOK, [Next]_vars
  PROVE  CountOK'
<1>0. env' = env
  BY EarlyIsLeft
<1>1. SUFFICES ASSUME env.redis, Without({"redis", "slow"})
      PROVE  CountOK'
  BY <1>0 DEF CountOK, Without
<1>2. ~ Fails /\ "slow" \notin env.events
  BY <1>1 DEF Without, Fails
<1>3. ASSUME UNCHANGED <<pc, user, count>>
      PROVE  CountOK'
  BY <1>0, <1>3 DEF CountOK, Taken, UnderWay, Asked, Without
<1>4. ASSUME NEW r \in Requests, Insert(r) \/ WorkerStep(r) \/ Disconnect(r)
      PROVE  CountOK'
  <2>1. CASE Refuse(r) \/ Discard(r) \/ GiveUp(r) \/ Finish(r)
    <3>1. PICK place \in Ended : pc' = [pc EXCEPT ![r] = place]
      BY <2>1 DEF Refuse, Discard, GiveUp, Finish
    <3>2. pc[r] \in {"refuse"} \union Accepted /\ count' = Add(user[r], -1)
          /\ UNCHANGED <<env, home, user>>
      BY <1>1, <1>2, <2>1 DEF Refuse, Discard, GiveUp, Finish, redisDecrUser
    <3> QED
      BY <1>1, <3>1, <3>2, CountMoves
  <2>2. CASE Enqueue(r)
    <3>1. pc[r] = "insert" /\ UNCHANGED <<env, home, user>>
      BY <2>2 DEF Enqueue
    <3>2. CASE Rejects(home[r], user[r])
      <4>1. pc' = [pc EXCEPT ![r] = "rejected"] /\ count' = Add(user[r], -1)
        BY <1>1, <1>2, <2>2, <3>2 DEF Enqueue, redisDecrUser
      <4> QED
        BY <1>1, <3>1, <4>1, CountMoves
    <3>3. CASE ~ Rejects(home[r], user[r])
      <4>1. pc' = [pc EXCEPT ![r] = "queued"] /\ count' = count
        BY <2>2, <3>3 DEF Enqueue
      <4> QED
        BY <1>1, <3>1, <4>1, CountMoves
    <3> QED
      BY <3>2, <3>3
  <2>3. CASE dequeue(r) \/ Proceed(r) \/ acquireGlobalGate(r) \/ releaseGlobalGate(r)
    <3>1. PICK place \in {"picked", "gate", "start", "free"} : pc' = [pc EXCEPT ![r] = place]
      BY <2>3 DEF dequeue, Proceed, acquireGlobalGate, releaseGlobalGate
    <3>2. pc[r] \in Accepted /\ count' = count /\ UNCHANGED <<env, home, user>>
      BY <2>3 DEF dequeue, Proceed, acquireGlobalGate, releaseGlobalGate
    <3> QED
      BY <1>1, <3>1, <3>2, CountMoves
  <2>4. CASE Start(r) \/ checkAndClearStopMarker(r) \/ Return(r)
    <3>1. PICK place \in {"check", "release", "run"} : pc' = [pc EXCEPT ![r] = place]
      BY <2>4 DEF Start, checkAndClearStopMarker, Return
    <3>2. pc[r] \in Accepted /\ count' = count /\ UNCHANGED <<env, home, user>>
      BY <2>4 DEF Start, checkAndClearStopMarker, Return
    <3> QED
      BY <1>1, <3>1, <3>2, CountMoves
  <2>5. CASE Disconnect(r)
    BY <1>3, <2>5 DEF Disconnect
  <2> QED
    BY <1>4, <2>1, <2>2, <2>3, <2>4, <2>5 DEF Insert, WorkerStep
<1>5. ASSUME NEW i \in Instances, NEW u \in Users, Stop(i, u)
      PROVE  CountOK'
  <2>1. CASE RemoveQueued(i, u)
    <3>1. PICK r \in Requests : r = queue[i][FirstOf(i, u)] /\ user[r] = u /\ pc[r] = "queued"
      BY <2>1, RemovedIs
    <3>2. /\ pc' = [pc EXCEPT ![r] = "removed"] /\ count' = Add(user[r], -1)
          /\ UNCHANGED <<env, home, user>>
      BY <1>1, <1>2, <1>5, <2>1, <3>1 DEF Stop, RemoveQueued, DecrRemoved, redisDecrUser
    <3> QED
      BY <1>1, <3>1, <3>2, CountMoves
  <2>2. CASE CancelInflight(i, u)
    BY <1>3, <1>5, <2>2 DEF Stop, CancelInflight
  <2> QED
    BY <1>5, <2>1, <2>2 DEF Stop
<1>6. ASSUME NEW i \in Instances, Close(i)
      PROVE  CountOK'
  BY <1>3, <1>6 DEF Close
<1>7. ASSUME NEW v \in Users, UserExpires(v)
      PROVE  CountOK'
  <2> USE DEF TypeOK
  <2>1. Taken(v) = {}
    BY <1>2, <1>7 DEF UserExpires, Taken, UnderWay
  <2>2. Cardinality(Taken(v)) = 0
    BY <2>1, FS_EmptySet
  <2>3. UNCHANGED <<pc, user>> /\ count' = [count EXCEPT ![v] = 0]
    BY <1>7 DEF UserExpires
  <2>4. \A u \in Users : Taken(u)' = Taken(u) /\ UnderWay(u)' = UnderWay(u)
    BY <2>3 DEF Taken, UnderWay, Asked
  <2>5. ASSUME NEW u \in Users
        PROVE  /\ Cardinality(Taken(u)) <= count'[u]
               /\ Cardinality(UnderWay(u)) <= MaxPerUser
               /\ Without({"crash"}) => Cardinality(Taken(u)) = count'[u]
    BY <1>1, <2>2, <2>3 DEF CountOK
  <2> QED
    BY <1>0, <2>4, <2>5 DEF CountOK, Without
<1>8. ASSUME NEW u \in Users, SetStopMarker(u) \/ MarkerExpires(u)
      PROVE  CountOK'
  BY <1>3, <1>8 DEF SetStopMarker, MarkerExpires
<1>9. CASE GateExpires \/ UNCHANGED vars
  BY <1>3, <1>9 DEF GateExpires, vars
<1>10. ASSUME NEW r \in Requests, NEW i \in Instances, NEW u \in Users, redisCheckAndIncrUser(r, i, u)
       PROVE  CountOK'
  BY <1>1, <1>10, CountEnters
<1>11. ASSUME NEW i \in Instances, Crash(i)
       PROVE  CountOK'
  BY <1>11, CountCrash
<1> QED
  BY <1>4, <1>5, <1>6, <1>7, <1>8, <1>9, <1>10, <1>11 DEF Next

-----------------------------------------------------------------------------
(* The global gate *)

\* A request that holds a slot before and after, or neither.
LEMMA GateStays ==
  ASSUME TypeOK, PlacesOK, GateOK, NEW r \in Requests, MovesOnly(r), gate' = gate,
         pc[r] \in Running <=> pc'[r] \in Running
  PROVE  GateOK'
<1>1. Holding' = Holding
  BY DEF MovesOnly, Holding
<1> QED
  BY <1>1 DEF GateOK, GateUsed, Without, MovesOnly

LEMMA GateStep ==
  ASSUME TypeOK, PlacesOK, CancelsOK, GateOK, [Next]_vars
  PROVE  GateOK'
<1> USE DEF TypeOK
<1>0. env' = env
  BY EarlyIsLeft
<1>1. SUFFICES ASSUME GateUsed, Without({"redis", "slow", "cancel"})
      PROVE  GateOK'
  BY <1>0 DEF GateOK, GateUsed, Without
<1>2. ~ Fails /\ "slow" \notin env.events /\ Without({"cancel"})
  BY <1>1 DEF Without, Fails
<1>3. ASSUME UNCHANGED <<pc, gate>>
      PROVE  GateOK'
  BY <1>0, <1>3 DEF GateOK, Holding, GateUsed, Without
<1>4. ASSUME NEW r \in Requests, acquireGlobalGate(r)
      PROVE  GateOK'
  <2>1. pc[r] = "gate" /\ pc' = [pc EXCEPT ![r] = "start"] /\ UNCHANGED <<env, home, user>>
    BY <1>4 DEF acquireGlobalGate
  <2>2. r \notin cancelled
    BY <1>2, <2>1 DEF CancelsOK, Early
  <2>3. gate + 1 <= GlobalMax /\ gate' = gate + 1
    BY <1>2, <1>4, <2>2 DEF acquireGlobalGate, Admits
  <2>4. MovesOnly(r)
    BY <2>1 DEF MovesOnly
  <2>5. /\ Cardinality(Holding) \in Nat
        /\ Cardinality(Holding') = Cardinality(Holding) + One(r \in Holding') - One(r \in Holding)
    BY <2>4, NumbersMove
  <2>6. r \in Holding' /\ r \notin Holding
    BY <2>1 DEF Holding
  <2>7. /\ Cardinality(Holding) <= gate
        /\ Without({"crash"}) => Cardinality(Holding) = gate
    BY <1>1 DEF GateOK
  <2>8. /\ Cardinality(Holding') <= gate' /\ Cardinality(Holding') <= GlobalMax
        /\ Without({"crash"}) => Cardinality(Holding') = gate'
    BY <2>3, <2>5, <2>6, <2>7, SizesAssumption DEF One
  <2> QED
    BY <1>0, <2>8 DEF GateOK, GateUsed, Without
<1>5. ASSUME NEW r \in Requests, releaseGlobalGate(r)
      PROVE  GateOK'
  <2>1. /\ pc[r] = "release" /\ pc' = [pc EXCEPT ![r] = "free"] /\ UNCHANGED <<env, home, user>>
        /\ gate' = gate - 1
    BY <1>1, <1>2, <1>5 DEF releaseGlobalGate, ReleaseSlot
  <2>4. MovesOnly(r)
    BY <2>1 DEF MovesOnly
  <2>5. /\ Cardinality(Holding) \in Nat
        /\ Cardinality(Holding') = Cardinality(Holding) + One(r \in Holding') - One(r \in Holding)
    BY <2>4, NumbersMove
  <2>6. r \notin Holding' /\ r \in Holding
    BY <2>1 DEF Holding
  <2>7. /\ Cardinality(Holding) <= gate /\ Cardinality(Holding) <= GlobalMax
        /\ Without({"crash"}) => Cardinality(Holding) = gate
    BY <1>1 DEF GateOK
  <2>8. /\ Cardinality(Holding') <= gate' /\ Cardinality(Holding') <= GlobalMax
        /\ Without({"crash"}) => Cardinality(Holding') = gate'
    BY <2>1, <2>5, <2>6, <2>7, SizesAssumption DEF One
  <2> QED
    BY <1>0, <2>8 DEF GateOK, GateUsed, Without
<1>6. ASSUME NEW r \in Requests, Insert(r)
      PROVE  GateOK'
  <2>1. /\ \E place \in {"rejected", "queued"} : pc' = [pc EXCEPT ![r] = place]
        /\ pc[r] \in {"refuse", "insert"} /\ UNCHANGED <<env, home, user, gate>>
    BY <1>6 DEF Insert, Refuse, Enqueue
  <2>2. MovesOnly(r) /\ (pc[r] \in Running <=> pc'[r] \in Running)
    BY <2>1 DEF MovesOnly
  <2> QED
    BY <2>1, <2>2, GateStays
<1>7. ASSUME NEW r \in Requests, dequeue(r) \/ Discard(r) \/ GiveUp(r) \/ Finish(r)
      PROVE  GateOK'
  <2>1. /\ \E place \in {"picked", "dropped", "done"} : pc' = [pc EXCEPT ![r] = place]
        /\ pc[r] \in {"queued", "picked", "gate", "free"} /\ UNCHANGED <<env, home, user, gate>>
    BY <1>7 DEF dequeue, Discard, GiveUp, Finish
  <2>2. MovesOnly(r) /\ (pc[r] \in Running <=> pc'[r] \in Running)
    BY <2>1 DEF MovesOnly
  <2> QED
    BY <2>1, <2>2, GateStays
<1>8. ASSUME NEW r \in Requests, Proceed(r)
      PROVE  GateOK'
  <2>1. /\ pc' = [pc EXCEPT ![r] = "gate"] /\ pc[r] = "picked" /\ UNCHANGED <<env, home, user, gate>>
    BY <1>1, <1>8 DEF Proceed
  <2>2. MovesOnly(r) /\ (pc[r] \in Running <=> pc'[r] \in Running)
    BY <2>1 DEF MovesOnly
  <2> QED
    BY <2>1, <2>2, GateStays
<1>9. ASSUME NEW r \in Requests, Start(r) \/ checkAndClearStopMarker(r) \/ Return(r)
      PROVE  GateOK'
  <2>1. /\ \E place \in {"check", "run", "release"} : pc' = [pc EXCEPT ![r] = place]
        /\ pc[r] \in Running /\ UNCHANGED <<env, home, user, gate>>
    BY <1>9 DEF Start, checkAndClearStopMarker, Return
  <2>2. MovesOnly(r) /\ (pc[r] \in Running <=> pc'[r] \in Running)
    BY <2>1 DEF MovesOnly
  <2> QED
    BY <2>1, <2>2, GateStays
<1>10. ASSUME NEW r \in Requests, NEW i \in Instances, NEW u \in Users, redisCheckAndIncrUser(r, i, u)
       PROVE  GateOK'
  <2>1. /\ \E place \in {"insert", "refuse"} : pc' = [pc EXCEPT ![r] = place]
        /\ pc[r] = "new" /\ UNCHANGED <<env, gate>>
        /\ home' = [home EXCEPT ![r] = i] /\ user' = [user EXCEPT ![r] = u]
    BY <1>10 DEF redisCheckAndIncrUser
  <2>2. MovesOnly(r) /\ (pc[r] \in Running <=> pc'[r] \in Running)
    BY <2>1 DEF MovesOnly
  <2> QED
    BY <2>1, <2>2, GateStays
<1>11. ASSUME NEW i \in Instances, NEW u \in Users, Stop(i, u)
       PROVE  GateOK'
  <2>1. CASE RemoveQueued(i, u)
    <3>1. PICK r \in Requests : r = queue[i][FirstOf(i, u)] /\ pc[r] = "queued"
      BY <2>1, RemovedIs
    <3>2. pc' = [pc EXCEPT ![r] = "removed"] /\ UNCHANGED <<env, home, user, gate>>
      BY <1>11, <2>1, <3>1 DEF Stop, RemoveQueued
    <3>3. MovesOnly(r) /\ (pc[r] \in Running <=> pc'[r] \in Running)
      BY <3>1, <3>2 DEF MovesOnly
    <3> QED
      BY <3>2, <3>3, GateStays
  <2>2. CASE CancelInflight(i, u)
    BY <1>3, <1>11, <2>2 DEF Stop, CancelInflight
  <2> QED
    BY <1>11, <2>1, <2>2 DEF Stop
<1>12. ASSUME NEW i \in Instances, Crash(i)
       PROVE  GateOK'
  <2>1. gate' = gate /\ "crash" \in env.events
        /\ \A q \in Requests : pc'[q] = pc[q] \/ pc'[q] = "lost"
    BY <1>12 DEF Crash
  <2>2. Holding' \in SUBSET Holding
    BY <2>1 DEF Holding
  <2>3. IsFiniteSet(Holding)
    BY SetsFinite
  <2>4. Cardinality(Holding') <= Cardinality(Holding)
        /\ Cardinality(Holding) \in Nat /\ Cardinality(Holding') \in Nat
    BY <2>2, <2>3, FS_Subset, FS_CardinalityType
  <2>5. Cardinality(Holding') <= gate' /\ Cardinality(Holding') <= GlobalMax
    BY <1>1, <2>1, <2>4, SizesAssumption DEF GateOK
  <2>6. ~ Without({"crash"})
    BY <2>1 DEF Without
  <2> QED
    BY <1>0, <2>5, <2>6 DEF GateOK, GateUsed, Without
<1>13. CASE GateExpires
  <2>1. Holding = {} /\ Holding' = {} /\ gate' = 0
    BY <1>2, <1>13 DEF GateExpires, Holding
  <2>2. Cardinality(Holding') = 0
    BY <2>1, FS_EmptySet
  <2> QED
    BY <1>0, <2>1, <2>2, SizesAssumption DEF GateOK, GateUsed, Without
<1>14. ASSUME NEW r \in Requests, Disconnect(r)
       PROVE  GateOK'
  BY <1>3, <1>14 DEF Disconnect
<1>15. ASSUME NEW i \in Instances, Close(i)
       PROVE  GateOK'
  BY <1>3, <1>15 DEF Close
<1>16. ASSUME NEW u \in Users, SetStopMarker(u) \/ UserExpires(u) \/ MarkerExpires(u)
       PROVE  GateOK'
  BY <1>3, <1>16 DEF SetStopMarker, UserExpires, MarkerExpires
<1>17. CASE UNCHANGED vars
  BY <1>3, <1>17 DEF vars
<1> QED
  BY <1>4, <1>5, <1>6, <1>7, <1>8, <1>9, <1>10, <1>11, <1>12, <1>13, <1>14, <1>15, <1>16, <1>17
  DEF Next, WorkerStep

-----------------------------------------------------------------------------
(* The counters of an instance without Redis *)

\* A request that waits in a queue before and after, or neither.
LEMMA LocalStays ==
  ASSUME TypeOK, PlacesOK, LocalOK, NEW r \in Requests, MovesOnly(r), perUser' = perUser,
         pc[r] # "queued", pc'[r] # "queued"
  PROVE  LocalOK'
<1>1. \A i, u : QueuedAt(i, u)' = QueuedAt(i, u)
  BY DEF MovesOnly, QueuedAt, Asked
<1> QED
  BY <1>1 DEF LocalOK, MovesOnly

\* A request leaves the queue it waits in.
LEMMA LocalLeaves ==
  ASSUME TypeOK, PlacesOK, LocalOK, NEW r \in Requests, pc[r] = "queued", NEW place,
         place # "queued", pc' = [pc EXCEPT ![r] = place], UNCHANGED <<env, home, user>>,
         Forget(home[r], user[r])
  PROVE  LocalOK'
<1> USE DEF TypeOK
<1>1. SUFFICES ASSUME ~ env.redis
      PROVE  LocalOK'
  BY DEF LocalOK
<1>2. PICK h \in Instances, v \in Users : h = home[r] /\ v = user[r]
  BY DEF PlacesOK
<1>3. MovesOnly(r)
  BY DEF MovesOnly
<1>4. ASSUME NEW i \in Instances, NEW u \in Users
      PROVE  perUser'[i][u] = Cardinality(QueuedAt(i, u)') /\ perUser'[i][u] <= MaxPerUser
  <2>1. /\ Cardinality(QueuedAt(i, u)) \in Nat /\ Cardinality(QueuedAt(i, u)') \in Nat
        /\ Cardinality(QueuedAt(i, u)')
             = Cardinality(QueuedAt(i, u)) + One(r \in QueuedAt(i, u)') - One(r \in QueuedAt(i, u))
    BY <1>3, NumbersMove
  <2>2. r \notin QueuedAt(i, u)' /\ (r \in QueuedAt(i, u) <=> i = h /\ u = v)
    BY <1>2 DEF QueuedAt, Asked
  <2>3. perUser[i][u] = Cardinality(QueuedAt(i, u)) /\ perUser[i][u] <= MaxPerUser
    BY <1>1 DEF LocalOK
  <2>4. perUser' = IF perUser[h][v] = 0 THEN perUser ELSE [perUser EXCEPT ![h][v] = @ - 1]
    BY <1>1, <1>2 DEF Forget
  <2>5. CASE i = h /\ u = v
    <3>1. perUser[h][v] # 0
      BY <2>1, <2>2, <2>3, <2>5 DEF One
    <3>2. perUser'[i][u] = perUser[i][u] - 1
      BY <1>2, <2>4, <2>5, <3>1
    <3> QED
      BY <2>1, <2>2, <2>3, <2>5, <3>2, SizesAssumption DEF One
  <2>6. CASE ~ (i = h /\ u = v)
    <3>1. perUser'[i][u] = perUser[i][u]
      BY <1>2, <2>4, <2>6
    <3> QED
      BY <2>1, <2>2, <2>3, <2>6, <3>1 DEF One
  <2> QED
    BY <2>5, <2>6
<1> QED
  BY <1>4 DEF LocalOK

LEMMA LocalJoins ==
  ASSUME TypeOK, PlacesOK, LocalOK, NEW r \in Requests, Enqueue(r), ~ Rejects(home[r], user[r])
  PROVE  LocalOK'
<1> USE DEF TypeOK
<1>0. /\ pc[r] = "insert" /\ pc' = [pc EXCEPT ![r] = "queued"] /\ UNCHANGED <<env, home, user>>
      /\ perUser' = IF env.redis THEN perUser ELSE [perUser EXCEPT ![home[r]][user[r]] = @ + 1]
  BY DEF Enqueue
<1>1. SUFFICES ASSUME ~ env.redis
      PROVE  LocalOK'
  BY <1>0 DEF LocalOK
<1>2. PICK h \in Instances, v \in Users : h = home[r] /\ v = user[r]
  BY <1>0 DEF PlacesOK
<1>3. MovesOnly(r)
  BY <1>0 DEF MovesOnly
<1>4. ASSUME NEW i \in Instances, NEW u \in Users
      PROVE  perUser'[i][u] = Cardinality(QueuedAt(i, u)') /\ perUser'[i][u] <= MaxPerUser
  <2>1. /\ Cardinality(QueuedAt(i, u)) \in Nat /\ Cardinality(QueuedAt(i, u)') \in Nat
        /\ Cardinality(QueuedAt(i, u)')
             = Cardinality(QueuedAt(i, u)) + One(r \in QueuedAt(i, u)') - One(r \in QueuedAt(i, u))
    BY <1>3, NumbersMove
  <2>2. r \notin QueuedAt(i, u) /\ (r \in QueuedAt(i, u)' <=> i = h /\ u = v)
    BY <1>0, <1>2 DEF QueuedAt, Asked
  <2>3. perUser[i][u] = Cardinality(QueuedAt(i, u)) /\ perUser[i][u] <= MaxPerUser
    BY <1>1 DEF LocalOK
  <2>4. perUser' = [perUser EXCEPT ![h][v] = @ + 1] /\ ~ (perUser[h][v] >= MaxPerUser)
    BY <1>0, <1>1, <1>2 DEF Rejects
  <2>5. CASE i = h /\ u = v
    <3>1. perUser'[i][u] = perUser[i][u] + 1
      BY <1>2, <2>4, <2>5
    <3> QED
      BY <2>1, <2>2, <2>3, <2>4, <2>5, <3>1, SizesAssumption DEF One
  <2>6. CASE ~ (i = h /\ u = v)
    <3>1. perUser'[i][u] = perUser[i][u]
      BY <1>2, <2>4, <2>6
    <3> QED
      BY <2>1, <2>2, <2>3, <2>6, <3>1 DEF One
  <2> QED
    BY <2>5, <2>6
<1> QED
  BY <1>4 DEF LocalOK

LEMMA LocalStep ==
  ASSUME TypeOK, PlacesOK, LocalOK, [Next]_vars
  PROVE  LocalOK'
<1> USE DEF TypeOK
<1>1. ASSUME UNCHANGED <<env, pc, home, user, perUser>>
      PROVE  LocalOK'
  BY <1>1 DEF LocalOK, QueuedAt, Asked
<1>2. ASSUME NEW r \in Requests,
             \/ Refuse(r) \/ Discard(r) \/ Proceed(r) \/ acquireGlobalGate(r) \/ GiveUp(r)
             \/ Start(r) \/ checkAndClearStopMarker(r) \/ Return(r) \/ releaseGlobalGate(r) \/ Finish(r)
      PROVE  LocalOK'
  <2>1. PICK place \in {"rejected", "dropped", "gate", "start", "check", "release", "run", "free", "done"} :
          pc' = [pc EXCEPT ![r] = place]
    BY <1>2 DEF Refuse, Discard, Proceed, acquireGlobalGate, GiveUp, Start, checkAndClearStopMarker,
                Return, releaseGlobalGate, Finish
  <2>2. pc[r] # "queued" /\ UNCHANGED <<env, home, user, perUser>>
    BY <1>2 DEF Refuse, Discard, Proceed, acquireGlobalGate, GiveUp, Start, checkAndClearStopMarker,
                Return, releaseGlobalGate, Finish
  <2>3. MovesOnly(r) /\ pc'[r] # "queued"
    BY <2>1, <2>2 DEF MovesOnly
  <2> QED
    BY <2>2, <2>3, LocalStays
<1>3. ASSUME NEW r \in Requests, Enqueue(r)
      PROVE  LocalOK'
  <2>1. CASE Rejects(home[r], user[r])
    <3>1. /\ pc[r] = "insert" /\ pc' = [pc EXCEPT ![r] = "rejected"]
          /\ UNCHANGED <<env, home, user, perUser>>
      BY <1>3, <2>1 DEF Enqueue
    <3>2. MovesOnly(r) /\ pc'[r] # "queued"
      BY <3>1 DEF MovesOnly
    <3> QED
      BY <3>1, <3>2, LocalStays
  <2> QED
    BY <1>3, <2>1, LocalJoins
<1>4. ASSUME NEW r \in Requests, dequeue(r)
      PROVE  LocalOK'
  <2>1. /\ pc[r] = "queued" /\ pc' = [pc EXCEPT ![r] = "picked"] /\ UNCHANGED <<env, home, user>>
        /\ Forget(home[r], user[r])
    BY <1>4 DEF dequeue
  <2> QED
    BY <2>1, LocalLeaves
<1>5. ASSUME NEW i \in Instances, NEW u \in Users, Stop(i, u)
      PROVE  LocalOK'
  <2>1. CASE RemoveQueued(i, u)
    <3>1. PICK r \in Requests :
            r = queue[i][FirstOf(i, u)] /\ pc[r] = "queued" /\ home[r] = i /\ user[r] = u
      BY <2>1, RemovedIs
    <3>2. /\ pc' = [pc EXCEPT ![r] = "removed"] /\ UNCHANGED <<env, home, user>>
          /\ Forget(home[r], user[r])
      BY <1>5, <2>1, <3>1 DEF Stop, RemoveQueued
    <3> QED
      BY <3>1, <3>2, LocalLeaves
  <2>2. CASE CancelInflight(i, u)
    BY <1>1, <1>5, <2>2 DEF Stop, CancelInflight
  <2> QED
    BY <1>5, <2>1, <2>2 DEF Stop
<1>6. ASSUME NEW i \in Instances, Crash(i)
      PROVE  LocalOK'
  <2>1. /\ UNCHANGED <<env, home, user>> /\ perUser' = [perUser EXCEPT ![i] = [u \in Users |-> 0]]
        /\ \A q \in Requests : pc'[q] = IF home[q] = i /\ pc[q] \notin Ended THEN "lost" ELSE pc[q]
    BY <1>6 DEF Crash
  <2>2. ASSUME ~ env.redis, NEW j \in Instances, NEW u \in Users
        PROVE  perUser'[j][u] = Cardinality(QueuedAt(j, u)') /\ perUser'[j][u] <= MaxPerUser
    <3>1. CASE j = i
      <4>1. QueuedAt(j, u)' = {}
        BY <2>1, <3>1 DEF QueuedAt, Asked
      <4>2. Cardinality(QueuedAt(j, u)') = 0 /\ perUser'[j][u] = 0
        BY <2>1, <3>1, <4>1, FS_EmptySet
      <4> QED
        BY <4>2, SizesAssumption
    <3>2. CASE j # i
      <4>1. QueuedAt(j, u)' = QueuedAt(j, u) /\ perUser'[j][u] = perUser[j][u]
        BY <2>1, <3>2 DEF QueuedAt, Asked
      <4> QED
        BY <2>2, <4>1 DEF LocalOK
    <3> QED
      BY <3>1, <3>2
  <2> QED
    BY <2>1, <2>2 DEF LocalOK
<1>7. ASSUME NEW r \in Requests, NEW i \in Instances, NEW u \in Users, redisCheckAndIncrUser(r, i, u)
      PROVE  LocalOK'
  <2>1. /\ \E place \in {"insert", "refuse"} : pc' = [pc EXCEPT ![r] = place]
        /\ pc[r] = "new" /\ UNCHANGED <<env, perUser>>
        /\ home' = [home EXCEPT ![r] = i] /\ user' = [user EXCEPT ![r] = u]
    BY <1>7 DEF redisCheckAndIncrUser
  <2>2. MovesOnly(r) /\ pc'[r] # "queued" /\ pc[r] # "queued"
    BY <2>1 DEF MovesOnly
  <2> QED
    BY <2>1, <2>2, LocalStays
<1>8. ASSUME NEW r \in Requests, Disconnect(r)
      PROVE  LocalOK'
  BY <1>1, <1>8 DEF Disconnect
<1>9. ASSUME NEW i \in Instances, Close(i)
      PROVE  LocalOK'
  BY <1>1, <1>9 DEF Close
<1>10. ASSUME NEW u \in Users, SetStopMarker(u) \/ UserExpires(u) \/ MarkerExpires(u)
       PROVE  LocalOK'
  BY <1>1, <1>10 DEF SetStopMarker, UserExpires, MarkerExpires
<1>11. CASE GateExpires \/ UNCHANGED vars
  BY <1>1, <1>11 DEF GateExpires, vars
<1> QED
  BY <1>2, <1>3, <1>4, <1>5, <1>6, <1>7, <1>8, <1>9, <1>10, <1>11 DEF Next, Insert, WorkerStep

-----------------------------------------------------------------------------
(* The theorems *)

LEMMA InitHolds ==
  ASSUME Init
  PROVE  IInv
<1>1. TypeOK
  <2>1. << >> \in Seq(Requests) /\ Len(<< >>) = 0
    OBVIOUS
  <2> QED
    BY <2>1, SizesAssumption DEF Init, TypeOK
<1>2. PlacesOK
  BY DEF Init, PlacesOK, QueueHolds
<1>3. CancelsOK
  BY DEF Init, CancelsOK
<1>4. /\ \A u : Taken(u) = {} /\ UnderWay(u) = {} /\ Holding = {}
      /\ \A i, u : QueuedAt(i, u) = {}
  BY DEF Init, Taken, UnderWay, Asked, Holding, QueuedAt
<1>5. Cardinality({}) = 0
  BY FS_EmptySet
<1>6. CountOK
  <2>1. \A u \in Users : count[u] = 0 /\ 0 <= MaxPerUser
    BY SizesAssumption DEF Init
  <2> QED
    BY <1>4, <1>5, <2>1 DEF CountOK
<1>7. GateOK
  <2>1. gate = 0 /\ 0 <= GlobalMax
    BY SizesAssumption DEF Init
  <2> QED
    BY <1>4, <1>5, <2>1 DEF GateOK
<1>8. LocalOK
  <2>1. \A i \in Instances, u \in Users : perUser[i][u] = 0 /\ 0 <= MaxPerUser
    BY SizesAssumption DEF Init
  <2> QED
    BY <1>4, <1>5, <2>1 DEF LocalOK
<1> QED
  BY <1>1, <1>2, <1>3, <1>6, <1>7, <1>8 DEF IInv

LEMMA InvHolds ==
  Spec => []IInv
<1>1. Init => IInv
  BY InitHolds
<1>2. IInv /\ [Next]_vars => IInv'
  BY TypeStep, PlacesStep, CancelsStep, CountStep, GateStep, LocalStep DEF IInv
<1> QED
  BY <1>1, <1>2, PTL DEF Spec

\* Every variable keeps its type: the queues stay within their places and no
\* local counter of a user falls below zero (Enqueue, removeLocked of qaqueue.go).
THEOREM TypeCorrect ==
  Spec => []TypeOK
<1>1. IInv => TypeOK
  BY DEF IInv
<1> QED
  BY <1>1, InvHolds, PTL

\* Whatever /stop, time-outs, full queues, shutdowns and, without Redis, crashes
\* do to requests, each counter is the number of requests it stands for: every
\* way out of the queue gives back what it took, exactly once.
THEOREM CountersHold ==
  Spec => []CountersMatch
<1>1. IInv => CountersMatch
  <2> SUFFICES ASSUME IInv, Without({"redis", "slow", "crash"})
               PROVE  CountersMatch
    BY DEF CountersMatch
  <2>1. Without({"redis", "slow"}) /\ Without({"crash"})
    BY DEF Without
  <2>2. env.redis => \A u \in Users : count[u] = Cardinality(Taken(u))
    BY <2>1 DEF IInv, CountOK
  <2>3. Without({"cancel"}) => Without({"redis", "slow", "cancel"})
    BY <2>1 DEF Without
  <2>4. GateUsed /\ Without({"cancel"}) => gate = Cardinality(Holding)
    BY <2>1, <2>3 DEF IInv, GateOK
  <2>5. ~ env.redis => \A i \in Instances, u \in Users : perUser[i][u] = Cardinality(QueuedAt(i, u))
    BY DEF IInv, LocalOK
  <2> QED
    BY <2>2, <2>4, <2>5 DEF CountersMatch, Taken, QueuedAt
<1> QED
  BY <1>1, InvHolds, PTL

\* No user exceeds the per-user limit and no more than GlobalMax requests run in
\* all instances, crashes and shutdowns included: the checks that admit a request
\* (redisCheckAndIncrUser, acquireGlobalGate, Enqueue without Redis) suffice.
THEOREM LimitsHolds ==
  Spec => []LimitsHold
<1>1. IInv => LimitsHold
  <2> SUFFICES ASSUME IInv
               PROVE  LimitsHold
    OBVIOUS
  <2>1. env.redis /\ Without({"redis", "slow"}) =>
          \A u \in Users : Cardinality(UnderWay(u)) <= MaxPerUser
    BY DEF IInv, CountOK
  <2>2. GateUsed /\ Without({"redis", "slow", "cancel"}) => Cardinality(Holding) <= GlobalMax
    BY DEF IInv, GateOK
  <2>3. ~ env.redis => \A i \in Instances, u \in Users : Cardinality(QueuedAt(i, u)) <= MaxPerUser
    BY DEF IInv, LocalOK
  <2> QED
    BY <2>1, <2>2, <2>3 DEF LimitsHold, QueuedAt
<1> QED
  BY <1>1, InvHolds, PTL
=============================================================================
