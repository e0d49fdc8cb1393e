---------------------------- MODULE MetricsProofs ----------------------------
(***************************************************************************)
(* Proofs about Metrics, for any number of batches, results and families,  *)
(* any numbers loaded in any order, any key, and loads that are any number *)
(* of stores behind.                                                       *)
(*                                                                         *)
(* A scrape takes no lock of the write path, which goes on as if nobody    *)
(* looked: what was proved about it holds here too.  A counter's stores    *)
(* only grow and a load never goes back in them, so a load may come late   *)
(* but never shows less than the one before.  Nothing is said of two       *)
(* numbers together: Relaxed orders each of them alone.                    *)
(***************************************************************************)
EXTENDS Metrics, WritePathProofs

(***************************************************************************)
(* The handler.                                                            *)
(***************************************************************************)
HandlerTypes ==
    /\ results \in [Probes -> Nat]
    /\ at \in {"answered", "waiting"} \cup Rendering
    /\ families \in Seq([Probes -> Nat])
    /\ loaded \in 0 .. Len(Loads)
    /\ visible \in [Numbers -> Seq(Nat)]
    /\ numbers \in [Numbers -> Nat]

\* A family that was rendered shows what `results` still holds: nobody else has the lock.
FamiliesAreCurrent ==
    /\ \A i \in 1 .. Len(families) : families[i] = results
    /\ at \notin Rendering => families = <<>>

Ascending(s) == \A i, j \in 1 .. Len(s) : i <= j => s[i] <= s[j]

\* A load always finds a store, and the newest one is the number itself.
NewestIsCurrent ==
    \A n \in Numbers :
        /\ Len(visible[n]) >= 1
        /\ n # LastWrite => visible[n][Len(visible[n])] = stats[n]

\* The stores to a counter go up, and what was loaded of it, for this response or an
\* earlier one, is not after any that can still be loaded.
LoadedBefore ==
    \A n \in Counters : Ascending(visible[n]) /\ numbers[n] <= visible[n][1]

MetricsInv ==
    /\ QueueInv
    /\ HandlerTypes
    /\ OnlyWithKey
    /\ FamiliesAreCurrent
    /\ NewestIsCurrent
    /\ LoadedBefore

(***************************************************************************)
(* The counters.                                                           *)
(***************************************************************************)
LEMMA StatsAreNumbers ==
    ASSUME QueueInv, NEW n \in Counters
    PROVE  stats[n] \in Nat
  BY DEF QueueInv, TypeOK, StatsType, Counters

\* record_written raises its two counters and lowers none.
LEMMA WrittenOnly ==
    ASSUME NEW s \in StatsType, NEW n \in Nat, NEW c \in Counters
    PROVE  [s EXCEPT !.writtenBatches = @ + 1, !.writtenBytes = @ + n][c] >= s[c]
<1>1. DOMAIN s = {"depthBatches", "depthBytes", "droppedBatches", "droppedBytes",
                  "writtenBatches", "writtenBytes", "rejectedBatches"}
      /\ s.writtenBatches \in Nat /\ s.writtenBytes \in Nat /\ s[c] \in Nat
  BY DEF StatsType, Counters
<1>2. CASE c = "writtenBatches" \/ c = "writtenBytes"
  <2>1. CASE c = "writtenBatches"
    BY <1>1, <2>1
  <2>2. CASE c = "writtenBytes"
    BY <1>1, <2>2
  <2> QED
    BY <1>2, <2>1, <2>2
<1>3. CASE c # "writtenBatches" /\ c # "writtenBytes"
  <2>1. ASSUME NEW i \in Nat, NEW j \in Nat
        PROVE  [s EXCEPT !.writtenBatches = i, !.writtenBytes = j][c] = s[c]
    BY <1>1, <1>3 DEF Counters
  <2>2. s.writtenBatches + 1 \in Nat /\ s.writtenBytes + n \in Nat
    BY <1>1
  <2>3. [s EXCEPT !.writtenBatches = s.writtenBatches + 1, !.writtenBytes = s.writtenBytes + n][c]
          = s[c]
    BY <2>1, <2>2
  <2> QED
    BY <1>1, <2>3
<1> QED
  BY <1>2, <1>3

\* No step of the write path lowers a counter.
LEMMA CountersGrow ==
    ASSUME QueueInv, [Next]_vars
    PROVE  \A n \in Counters : stats'[n] >= stats[n]
<1>0. /\ stats \in StatsType /\ queue \in Seq(Batches) /\ Len(queue) \in Nat
      /\ \A n \in Counters : stats[n] \in Nat
  BY StatsAreNumbers DEF QueueInv, TypeOK
<1>1. CASE EvictOldest
  <2>1. queue # <<>> /\ Size(Head(queue)) \in Nat
    BY <1>1, RemoveFront, SizePositive DEF EvictOldest, MustEvict
  <2> DEFINE k == Size(Head(queue))
  <2>2. stats' = [stats EXCEPT !.droppedBatches = @ + 1, !.droppedBytes = @ + k] /\ k \in Nat
    BY <1>1, <2>1 DEF EvictOldest
  <2> HIDE DEF k
  <2> DEFINE i == stats.droppedBatches + 1
             j == stats.droppedBytes + k
  <2>3. /\ i \in Nat /\ j \in Nat /\ i >= stats.droppedBatches /\ j >= stats.droppedBytes
        /\ stats' = [stats EXCEPT !.droppedBatches = i, !.droppedBytes = j]
    <3>1. stats.droppedBatches \in Nat /\ stats.droppedBytes \in Nat
      BY <1>0 DEF StatsType
    <3> QED
      BY <2>2, <3>1
  <2> HIDE DEF i, j
  <2>4. /\ stats'.droppedBatches = i /\ stats'.droppedBytes = j
        /\ \A n \in Counters \ {"droppedBatches", "droppedBytes"} : stats'[n] = stats[n]
    BY <1>0, <2>3 DEF StatsType, Counters
  <2>5. ASSUME NEW n \in Counters PROVE stats'[n] >= stats[n]
    <3>1. CASE n \in {"droppedBatches", "droppedBytes"}
      BY <2>3, <2>4, <3>1
    <3>2. CASE n \notin {"droppedBatches", "droppedBytes"}
      BY <1>0, <2>4, <3>2
    <3> QED
      BY <3>1, <3>2
  <2> QED
    BY <2>5
<1>2. CASE PushBack
  <2>1. bytes + Size(pushed + 1) \in Nat
    <3>1. pushed + 1 \in Batches /\ bytes \in Nat
      BY <1>2, WritePathAssumption DEF PushBack, QueueInv, TypeOK, Locked, Batches
    <3> QED
      BY <3>1, SizePositive
  <2> DEFINE m == Len(queue) + 1
             k == bytes + Size(pushed + 1)
  <2>2. stats' = [stats EXCEPT !.depthBatches = m, !.depthBytes = k] /\ m \in Nat /\ k \in Nat
    BY <1>0, <1>2, <2>1 DEF PushBack
  <2> HIDE DEF m, k
  <2>3. \A n \in Counters : stats'[n] = stats[n]
    BY <1>0, <2>2 DEF StatsType, Counters
  <2> QED
    BY <1>0, <2>3
<1>3. CASE PopIfFront
  <2>1. CASE queue # <<>> /\ Head(queue) = held
    <3>1. QueueInv' /\ bytes' = bytes - Size(held)
      BY <1>3, <2>1, QueueNext DEF PopIfFront
    <3> DEFINE m == Len(queue) - 1
               k == bytes - Size(held)
    <3>2. k \in Nat
      BY <3>1 DEF QueueInv, TypeOK
    <3>3. m \in Nat
      BY <1>0, <2>1
    <3>4. stats' = [stats EXCEPT !.depthBatches = m, !.depthBytes = k]
      BY <1>3, <2>1 DEF PopIfFront
    <3> HIDE DEF m, k
    <3>5. \A n \in Counters : stats'[n] = stats[n]
      BY <1>0, <3>2, <3>3, <3>4 DEF StatsType, Counters
    <3> QED
      BY <1>0, <3>5
  <2>2. CASE ~(queue # <<>> /\ Head(queue) = held)
    <3>1. stats' = stats
      BY <1>3, <2>2 DEF PopIfFront
    <3> QED
      BY <1>0, <3>1
  <2> QED
    BY <2>1, <2>2
<1>4. CASE WriteOk
  <2>1. held \in Batches
    BY <1>4 DEF WriteOk, QueueInv, HeldMatches, TypeOK, Retrying
  <2> QED
    BY <1>0, <1>4, <2>1, SizePositive, WrittenOnly DEF WriteOk
<1>5. CASE WriteRefused
  BY <1>0, <1>5 DEF WriteRefused, StatsType, Counters
<1>6. CASE ~(EvictOldest \/ WriteOk \/ WriteRefused \/ PushBack \/ PopIfFront)
  <2>1. stats' = stats
    BY <1>6
    DEF Next, Batcher, PushLock, NotifyOne, Close, NotifyWaiters, Writer, Wait, Peek, CheckClosed,
        Register, Recheck, RecheckClosed, PeekOr, ClosedOr, Poll, Wake, Write, WriteFailed,
        BackoffElapsed, BackoffShutdown, Signal, Finished, vars
  <2> QED
    BY <1>0, <2>1
<1> QED
  BY <1>1, <1>2, <1>3, <1>4, <1>5, <1>6

(***************************************************************************)
(* The stores and the loads.                                               *)
(***************************************************************************)

\* A store is the newest one, and leaves the others in their order.
LEMMA StoreIsNewest ==
    ASSUME NEW s \in Seq(Nat), Len(s) >= 1, NEW v \in Nat
    PROVE  /\ Store(s, v) \in Seq(Nat) /\ Len(Store(s, v)) >= 1
           /\ Store(s, v)[Len(Store(s, v))] = v
           /\ Ascending(s) /\ v >= s[Len(s)]
                 => Ascending(Store(s, v)) /\ Store(s, v)[1] >= s[1]
<1>0. Len(s) \in Nat /\ \A i \in 1 .. Len(s) : s[i] \in Nat
  OBVIOUS
<1>1. CASE v = s[Len(s)]
  <2>1. Store(s, v) = s
    BY <1>1 DEF Store
  <2> QED
    BY <1>0, <1>1, <2>1
<1>2. CASE v # s[Len(s)] /\ ~(Len(s) > MaxLag)
  <2>1. Store(s, v) = Append(s, v)
    BY <1>2 DEF Store
  <2>2. /\ Append(s, v) \in Seq(Nat) /\ Len(Append(s, v)) = Len(s) + 1
        /\ Append(s, v)[Len(s) + 1] = v /\ \A i \in 1 .. Len(s) : Append(s, v)[i] = s[i]
    OBVIOUS
  <2>3. ASSUME Ascending(s), v >= s[Len(s)] PROVE Ascending(Append(s, v))
    <3> SUFFICES ASSUME NEW i \in 1 .. Len(s) + 1, NEW j \in 1 .. Len(s) + 1, i <= j
                 PROVE  Append(s, v)[i] <= Append(s, v)[j]
      BY <2>2 DEF Ascending
    <3>1. CASE j <= Len(s)
      BY <1>0, <2>2, <2>3, <3>1 DEF Ascending
    <3>2. CASE j = Len(s) + 1 /\ i <= Len(s)
      <4>1. s[i] <= s[Len(s)] /\ s[Len(s)] \in Nat
        BY <1>0, <2>3, <3>2 DEF Ascending
      <4> QED
        BY <1>0, <2>2, <2>3, <3>2, <4>1
    <3>3. CASE i = Len(s) + 1
      BY <1>0, <2>2, <3>3
    <3> QED
      BY <1>0, <3>1, <3>2, <3>3
  <2> QED
    BY <1>0, <2>1, <2>2, <2>3
<1>3. CASE v # s[Len(s)] /\ Len(s) > MaxLag
  <2> DEFINE t == Tail(s)
  <2>1. Store(s, v) = Append(t, v)
    BY <1>3 DEF Store
  <2>2. /\ t \in Seq(Nat) /\ Len(t) = Len(s) - 1
        /\ \A i \in 1 .. Len(s) - 1 : t[i] = s[i + 1]
    BY <1>0
  <2>3. /\ Append(t, v) \in Seq(Nat) /\ Len(Append(t, v)) = Len(s)
        /\ Append(t, v)[Len(s)] = v
        /\ \A i \in 1 .. Len(s) - 1 : Append(t, v)[i] = s[i + 1]
    <3> HIDE DEF t
    <3> QED
      BY <1>0, <2>2
  <2>4. ASSUME Ascending(s), v >= s[Len(s)]
        PROVE  Ascending(Append(t, v)) /\ Append(t, v)[1] >= s[1]
    <3> HIDE DEF t
    <3>1. ASSUME NEW i \in 1 .. Len(s) PROVE s[i] <= v /\ s[i] \in Nat
      <4>1. s[i] <= s[Len(s)] /\ s[Len(s)] \in Nat /\ s[i] \in Nat
        BY <1>0, <2>4 DEF Ascending
      <4> QED
        BY <2>4, <4>1
    <3>2. ASSUME NEW i \in 1 .. Len(s), NEW j \in 1 .. Len(s), i <= j
          PROVE  Append(t, v)[i] <= Append(t, v)[j]
      <4>1. CASE j = Len(s) /\ i = Len(s)
        BY <2>3, <4>1
      <4>2. CASE j = Len(s) /\ i # Len(s)
        <5>1. i + 1 \in 1 .. Len(s) /\ i \in 1 .. Len(s) - 1
          BY <1>0, <4>2
        <5> QED
          BY <2>3, <3>1, <4>2, <5>1
      <4>3. CASE j # Len(s)
        <5>1. /\ i \in 1 .. Len(s) - 1 /\ j \in 1 .. Len(s) - 1
              /\ i + 1 \in 1 .. Len(s) /\ j + 1 \in 1 .. Len(s) /\ i + 1 <= j + 1
          BY <1>0, <3>2, <4>3
        <5> QED
          BY <2>3, <2>4, <5>1 DEF Ascending
      <4> QED
        BY <4>1, <4>2, <4>3
    <3>3. Append(t, v)[1] >= s[1]
      <4>1. CASE Len(s) = 1
        BY <2>3, <3>1, <4>1
      <4>2. CASE Len(s) # 1
        <5>1. 1 \in 1 .. Len(s) - 1 /\ 2 \in 1 .. Len(s) /\ 1 \in 1 .. Len(s)
          <6>1. Len(s) \in Nat
            BY <1>0
          <6>2. \A k \in Nat : k >= 1 /\ k # 1 => 1 \in 1 .. k - 1 /\ 2 \in 1 .. k /\ 1 \in 1 .. k
            OBVIOUS
          <6> QED
            BY <4>2, <6>1, <6>2
        <5>2. Append(t, v)[1] = s[2] /\ s[1] <= s[2] /\ s[1] \in Nat /\ s[2] \in Nat
          BY <1>0, <2>3, <2>4, <5>1 DEF Ascending
        <5> QED
          BY <5>2
      <4> QED
        BY <4>1, <4>2
    <3> QED
      BY <2>3, <3>2, <3>3 DEF Ascending
  <2> HIDE DEF t
  <2> QED
    BY <1>0, <2>1, <2>3, <2>4
<1> QED
  BY <1>1, <1>2, <1>3

\* A load that returns store i leaves it and the later ones for the next load.
LEMMA LoadKeepsLater ==
    ASSUME NEW s \in Seq(Nat), NEW i \in 1 .. Len(s)
    PROVE  /\ SubSeq(s, i, Len(s)) \in Seq(Nat) /\ Len(SubSeq(s, i, Len(s))) >= 1
           /\ SubSeq(s, i, Len(s))[Len(SubSeq(s, i, Len(s)))] = s[Len(s)]
           /\ SubSeq(s, i, Len(s))[1] = s[i]
           /\ Ascending(s) => Ascending(SubSeq(s, i, Len(s)))
<1> DEFINE r == SubSeq(s, i, Len(s))
<1>1. /\ r \in Seq(Nat) /\ Len(r) = Len(s) - i + 1 /\ Len(s) \in Nat
      /\ \A k \in 1 .. Len(s) - i + 1 : r[k] = s[i + k - 1]
  OBVIOUS
<1> HIDE DEF r
<1>2. Len(r) >= 1 /\ r[Len(r)] = s[Len(s)] /\ r[1] = s[i]
  <2>1. 1 \in 1 .. Len(s) - i + 1 /\ Len(r) \in 1 .. Len(s) - i + 1
    BY <1>1
  <2>2. i + 1 - 1 = i /\ i + Len(r) - 1 = Len(s)
    BY <1>1
  <2>3. r[1] = s[i + 1 - 1] /\ r[Len(r)] = s[i + Len(r) - 1]
    BY <1>1, <2>1
  <2> QED
    BY <1>1, <2>1, <2>2, <2>3
<1>3. ASSUME Ascending(s) PROVE Ascending(r)
  <2> SUFFICES ASSUME NEW j \in 1 .. Len(r), NEW k \in 1 .. Len(r), j <= k
               PROVE  r[j] <= r[k]
    BY DEF Ascending
  <2>1. /\ i + j - 1 \in 1 .. Len(s) /\ i + k - 1 \in 1 .. Len(s) /\ i + j - 1 <= i + k - 1
        /\ r[j] = s[i + j - 1] /\ r[k] = s[i + k - 1]
    BY <1>1
  <2> QED
    BY <1>3, <2>1 DEF Ascending
<1> QED
  BY <1>1, <1>2, <1>3 DEF r

\* What a step of the write path leaves in a number is a number.
LEMMA StoredIsNumber ==
    ASSUME QueueInv', HandlerTypes, NewestIsCurrent, NEW n \in Numbers, NEW now \in Clock
    PROVE  Stored(n, now) \in Nat
<1>1. CASE n # LastWrite
  <2>1. stats' \in StatsType /\ n \in {"depthBatches", "depthBytes"} \cup Counters
    BY <1>1 DEF QueueInv, TypeOK, Numbers, Gauges
  <2> QED
    BY <1>1, <2>1 DEF Stored, StatsType, Counters
<1>2. CASE n = LastWrite
  <2>1. visible[n] \in Seq(Nat) /\ Len(visible[n]) >= 1
    BY DEF HandlerTypes, NewestIsCurrent
  <2>2. visible[n][Len(visible[n])] \in Nat /\ now \in Nat
    BY <2>1, MetricsAssumption
  <2> QED
    BY <1>2, <2>2 DEF Stored
<1> QED
  BY <1>1, <1>2

(***************************************************************************)
(* The handler.                                                            *)
(***************************************************************************)

\* Nobody who scrapes moves the write path.
LEMMA WritePathIsAlone ==
    ASSUME [MetricsNext]_metricsVars
    PROVE  [Next]_vars /\ (WritePathStep \/ UNCHANGED vars)
<1>1. CASE WritePathStep
  BY <1>1 DEF WritePathStep
<1>2. CASE ~WritePathStep
  BY <1>2 DEF MetricsNext, InsertResult, Unauthorized, Authorized, Handle, ReadLock, RenderFamily,
              RenderWritePath, LoadNumber, Respond, metricsVars
<1> QED
  BY <1>1, <1>2

\* Nobody has asked yet.
LEMMA MetricsInvInit == MetricsInit => MetricsInv
<1> SUFFICES ASSUME MetricsInit PROVE MetricsInv
  OBVIOUS
<1>1. QueueInv
  BY QueueInit DEF MetricsInit
<1>2. HandlerTypes
  <2>1. results \in [Probes -> Nat] /\ numbers \in [Numbers -> Nat] /\ visible \in [Numbers -> Seq(Nat)]
    BY DEF MetricsInit
  <2>2. families \in Seq([Probes -> Nat]) /\ Len(Loads) \in Nat
    BY MetricsAssumption DEF MetricsInit
  <2> QED
    BY <2>1, <2>2 DEF MetricsInit, HandlerTypes
<1>3. OnlyWithKey /\ FamiliesAreCurrent
  BY DEF MetricsInit, OnlyWithKey, FamiliesAreCurrent, Rendering
<1>4. \A n \in Numbers : visible[n] = <<0>> /\ numbers[n] = 0
  BY DEF MetricsInit
<1>5. NewestIsCurrent
  BY <1>4 DEF NewestIsCurrent, MetricsInit, Init, Numbers, Gauges, Counters, LastWrite
<1>6. LoadedBefore
  BY <1>4 DEF LoadedBefore, Ascending, Numbers
<1> QED
  BY <1>1, <1>2, <1>3, <1>5, <1>6 DEF MetricsInv

\* The handler keeps its types, and what can be loaded keeps its.
LEMMA HandlerTypesNext ==
    ASSUME QueueInv, HandlerTypes, NewestIsCurrent, [MetricsNext]_metricsVars
    PROVE  HandlerTypes'
<1> USE DEF HandlerTypes
<1>0. Len(Loads) \in Nat /\ \A i \in 1 .. Len(Loads) : Loads[i] \in Numbers
  BY MetricsAssumption
<1>1. CASE WritePathStep
  <2>1. UNCHANGED <<results, at, header, families, loaded, numbers>>
    BY <1>1 DEF WritePathStep, handlerVars
  <2>2. PICK now \in Clock :
            visible' = [n \in Numbers |-> Store(visible[n], Stored(n, now))]
    BY <1>1 DEF WritePathStep
  <2>3. ASSUME NEW n \in Numbers PROVE Store(visible[n], Stored(n, now)) \in Seq(Nat)
    <3>1. QueueInv'
      BY WritePathIsAlone, QueueNext
    <3>2. Stored(n, now) \in Nat
      BY <3>1, StoredIsNumber
    <3>3. visible[n] \in Seq(Nat) /\ Len(visible[n]) >= 1
      BY DEF NewestIsCurrent
    <3> QED
      BY <3>2, <3>3, StoreIsNewest
  <2> QED
    BY <2>1, <2>2, <2>3
<1>2. ASSUME NEW p \in Probes, InsertResult(p) PROVE HandlerTypes'
  BY <1>2 DEF InsertResult, handlerVars
<1>3. ASSUME NEW h \in Headers, Unauthorized(h) \/ Authorized(h) PROVE HandlerTypes'
  BY <1>3 DEF Unauthorized, Authorized, metricsVars, handlerVars
<1>4. CASE ReadLock
  BY <1>4 DEF ReadLock, Rendering
<1>5. CASE RenderFamily
  <2>1. families' \in Seq([Probes -> Nat])
    BY <1>5 DEF RenderFamily
  <2> QED
    BY <1>5, <2>1 DEF RenderFamily
<1>6. CASE RenderWritePath
  BY <1>0, <1>6 DEF RenderWritePath, Rendering
<1>7. CASE LoadNumber
  <2> DEFINE n == Loads[loaded + 1]
  <2>1. /\ loaded + 1 \in 1 .. Len(Loads) /\ n \in Numbers /\ loaded' = loaded + 1
        /\ UNCHANGED <<results, at, header, families>>
    BY <1>0, <1>7 DEF LoadNumber
  <2>2. PICK i \in 1 .. Len(visible[n]) :
            /\ numbers' = [numbers EXCEPT ![n] = visible[n][i]]
            /\ visible' = [visible EXCEPT ![n] = SubSeq(visible[n], i, Len(visible[n]))]
    BY <1>7, <2>1 DEF LoadNumber
  <2> HIDE DEF n
  <2>3. visible[n] \in Seq(Nat) /\ visible[n][i] \in Nat
    BY <2>1
  <2>4. SubSeq(visible[n], i, Len(visible[n])) \in Seq(Nat)
    BY <2>3, LoadKeepsLater
  <2>5. visible' \in [Numbers -> Seq(Nat)] /\ numbers' \in [Numbers -> Nat]
    BY <2>1, <2>2, <2>3, <2>4
  <2> QED
    BY <1>0, <2>1, <2>5
<1>8. CASE Respond
  <2>1. numbers' \in [Numbers -> Nat]
    BY <1>8 DEF Respond
  <2>2. families' \in Seq([Probes -> Nat])
    BY <1>8 DEF Respond
  <2> QED
    BY <1>0, <1>8, <2>1, <2>2 DEF Respond
<1>9. CASE UNCHANGED metricsVars
  BY <1>9 DEF metricsVars, handlerVars
<1> QED
  BY <1>1, <1>2, <1>3, <1>4, <1>5, <1>6, <1>7, <1>8, <1>9 DEF MetricsNext, Handle

\* constant_time_eq is equality.
LEMMA ConstantTimeEqIsEquality ==
    ASSUME NEW a \in Seq(Byte), NEW b \in Seq(Byte), ConstantTimeEq(a, b)
    PROVE  a = b
<1>1. Len(a) = Len(b) /\ DOMAIN a = 1 .. Len(a) /\ DOMAIN b = 1 .. Len(b)
  BY DEF ConstantTimeEq
<1>2. ASSUME NEW i \in 1 .. Len(a) PROVE a[i] = b[i]
  <2>1. XorBits(a[i], b[i]) = {}
    BY <1>1 DEF ConstantTimeEq
  <2>2. a[i] \subseteq 0 .. 7 /\ b[i] \subseteq 0 .. 7
    <3>1. a[i] \in Byte /\ b[i] \in Byte
      BY <1>1
    <3> QED
      BY <3>1 DEF Byte
  <2> QED
    BY <2>1, <2>2 DEF XorBits
<1> QED
  BY <1>1, <1>2

\* The handler renders after a request that presented the key, and for no other.
LEMMA KeyNext == OnlyWithKey /\ [MetricsNext]_metricsVars => OnlyWithKey'
<1> SUFFICES ASSUME OnlyWithKey, [MetricsNext]_metricsVars PROVE OnlyWithKey'
  OBVIOUS
<1>1. ASSUME NEW h \in Headers, Authorized(h) PROVE OnlyWithKey'
  <2>1. CASE ApiKey = NoKey
    BY <2>1 DEF OnlyWithKey
  <2>2. CASE ApiKey # NoKey
    <3>1. /\ h \in [scheme : STRING, token : Seq(Byte)] /\ ApiKey \in Seq(Byte)
          /\ h.scheme = "Bearer" /\ ConstantTimeEq(h.token, ApiKey)
      BY <1>1, <2>2, MetricsAssumption DEF Authorized, RequestIsAuthorized
    <3>2. h.token = ApiKey
      BY <3>1, ConstantTimeEqIsEquality
    <3>3. h = [scheme |-> "Bearer", token |-> ApiKey]
      BY <3>1, <3>2
    <3> QED
      BY <1>1, <3>3 DEF Authorized, OnlyWithKey
  <2> QED
    BY <2>1, <2>2
<1>2. CASE ReadLock \/ RenderFamily \/ RenderWritePath \/ LoadNumber
  BY <1>2 DEF ReadLock, RenderFamily, RenderWritePath, LoadNumber, OnlyWithKey, Rendering
<1>3. CASE Respond
  BY <1>3 DEF Respond, OnlyWithKey, Rendering
<1>4. CASE UNCHANGED <<at, header>>
  BY <1>4 DEF OnlyWithKey
<1> QED
  BY <1>1, <1>2, <1>3, <1>4
  DEF MetricsNext, Handle, WritePathStep, InsertResult, Unauthorized, metricsVars, handlerVars

\* While the read lock is held no result is inserted.
LEMMA FamiliesNext ==
    HandlerTypes /\ FamiliesAreCurrent /\ [MetricsNext]_metricsVars => FamiliesAreCurrent'
<1> SUFFICES ASSUME HandlerTypes, FamiliesAreCurrent, [MetricsNext]_metricsVars
             PROVE  FamiliesAreCurrent'
  OBVIOUS
<1>0. Len(families) \in Nat /\ families \in Seq([Probes -> Nat]) /\ results \in [Probes -> Nat]
  BY DEF HandlerTypes
<1>1. CASE RenderFamily
  <2>1. /\ Len(families') = Len(families) + 1 /\ families'[Len(families) + 1] = results
        /\ \A i \in 1 .. Len(families) : families'[i] = families[i]
    BY <1>0, <1>1 DEF RenderFamily
  <2>2. \A i \in 1 .. Len(families') : families'[i] = results
    BY <1>0, <2>1 DEF FamiliesAreCurrent
  <2> QED
    BY <1>1, <2>2 DEF RenderFamily, FamiliesAreCurrent, Rendering
<1>2. ASSUME NEW p \in Probes, InsertResult(p) PROVE FamiliesAreCurrent'
  <2>1. families = <<>> /\ families' = families
    BY <1>2 DEF InsertResult, FamiliesAreCurrent, handlerVars
  <2> QED
    BY <2>1 DEF FamiliesAreCurrent
<1>3. CASE Respond
  BY <1>3 DEF Respond, FamiliesAreCurrent
<1>4. CASE ReadLock \/ RenderWritePath
  BY <1>4 DEF ReadLock, RenderWritePath, FamiliesAreCurrent, Rendering
<1>5. ASSUME NEW h \in Headers, Authorized(h) PROVE FamiliesAreCurrent'
  BY <1>5 DEF Authorized, FamiliesAreCurrent, Rendering
<1>6. CASE UNCHANGED <<at, families, results>>
  BY <1>6 DEF FamiliesAreCurrent
<1> QED
  BY <1>1, <1>2, <1>3, <1>4, <1>5, <1>6
  DEF MetricsNext, Handle, WritePathStep, LoadNumber, Unauthorized, metricsVars, handlerVars

\* The stores of a step of the write path, and a load, keep the order of the stores, and
\* no counter that was loaded is taken back.
LEMMA LoadedNext ==
    ASSUME QueueInv, HandlerTypes, NewestIsCurrent, LoadedBefore, [MetricsNext]_metricsVars
    PROVE  /\ NewestIsCurrent' /\ LoadedBefore'
           /\ \A n \in Counters : numbers'[n] >= numbers[n]
<1>0. /\ Counters \subseteq Numbers /\ LastWrite \notin Counters
      /\ Len(Loads) \in Nat /\ \A i \in 1 .. Len(Loads) : Loads[i] \in Numbers
  BY MetricsAssumption DEF Numbers, Counters, LastWrite
<1>1. \A n \in Numbers : visible[n] \in Seq(Nat) /\ Len(visible[n]) >= 1 /\ numbers[n] \in Nat
  BY DEF HandlerTypes, NewestIsCurrent
<1>2. CASE WritePathStep
  <2>1. PICK now \in Clock :
            visible' = [n \in Numbers |-> Store(visible[n], Stored(n, now))]
    BY <1>2 DEF WritePathStep
  <2>2. numbers' = numbers /\ [Next]_vars /\ QueueInv'
    BY <1>2, QueueNext DEF WritePathStep, handlerVars
  <2>3. ASSUME NEW n \in Numbers
        PROVE  /\ Stored(n, now) \in Nat /\ visible'[n] = Store(visible[n], Stored(n, now))
               /\ n # LastWrite => Stored(n, now) = stats'[n]
    BY <2>1, <2>2, StoredIsNumber DEF Stored
  <2>4. NewestIsCurrent'
    <3> SUFFICES ASSUME NEW n \in Numbers
                 PROVE  /\ Len(visible'[n]) >= 1
                        /\ n # LastWrite => visible'[n][Len(visible'[n])] = stats'[n]
      BY DEF NewestIsCurrent
    <3> QED
      BY <1>1, <2>3, StoreIsNewest
  <2>5. ASSUME NEW n \in Counters PROVE Ascending(visible'[n]) /\ numbers'[n] <= visible'[n][1]
    <3>1. n \in Numbers /\ n # LastWrite
      BY <1>0
    <3>2. visible[n][Len(visible[n])] = stats[n] /\ stats'[n] >= stats[n]
      BY <2>2, <3>1, CountersGrow DEF NewestIsCurrent
    <3>3. Ascending(visible'[n]) /\ visible'[n][1] >= visible[n][1]
      BY <1>1, <2>3, <3>1, <3>2, StoreIsNewest DEF LoadedBefore
    <3>4. visible[n][1] \in Nat /\ numbers[n] <= visible[n][1] /\ numbers[n] \in Nat
      BY <1>1, <3>1 DEF LoadedBefore
    <3>5. visible'[n][1] \in Nat
      <4>1. visible'[n] \in Seq(Nat) /\ Len(visible'[n]) >= 1
        BY <1>1, <2>3, <3>1, StoreIsNewest
      <4> QED
        BY <4>1
    <3> QED
      BY <2>2, <3>3, <3>4, <3>5
  <2>6. LoadedBefore'
    BY <2>5 DEF LoadedBefore
  <2> QED
    BY <1>0, <1>1, <2>2, <2>4, <2>6
<1>3. CASE LoadNumber
  <2> DEFINE l == Loads[loaded + 1]
  <2>1. l \in Numbers /\ stats' = stats
    <3>1. loaded + 1 \in 1 .. Len(Loads)
      BY <1>0, <1>3 DEF LoadNumber, HandlerTypes
    <3> QED
      BY <1>0, <1>3, <3>1 DEF LoadNumber, vars
  <2>2. PICK i \in 1 .. Len(visible[l]) :
            /\ numbers' = [numbers EXCEPT ![l] = visible[l][i]]
            /\ visible' = [visible EXCEPT ![l] = SubSeq(visible[l], i, Len(visible[l]))]
    BY <1>3, <2>1 DEF LoadNumber
  <2> HIDE DEF l
  <2>3. visible \in [Numbers -> Seq(Nat)] /\ numbers \in [Numbers -> Nat]
    BY DEF HandlerTypes
  <2>4. /\ visible'[l] = SubSeq(visible[l], i, Len(visible[l])) /\ numbers'[l] = visible[l][i]
        /\ \A n \in Numbers \ {l} : visible'[n] = visible[n] /\ numbers'[n] = numbers[n]
    BY <2>1, <2>2, <2>3
  <2>5. /\ Len(visible'[l]) >= 1 /\ visible'[l][Len(visible'[l])] = visible[l][Len(visible[l])]
        /\ visible'[l][1] = visible[l][i]
        /\ Ascending(visible[l]) => Ascending(visible'[l])
    BY <1>1, <2>1, <2>4, LoadKeepsLater
  <2>6. NewestIsCurrent'
    BY <2>1, <2>4, <2>5 DEF NewestIsCurrent
  <2>7. ASSUME NEW n \in Counters
        PROVE  /\ Ascending(visible'[n]) /\ numbers'[n] <= visible'[n][1]
               /\ numbers'[n] >= numbers[n]
    <3>1. n \in Numbers /\ Ascending(visible[n]) /\ numbers[n] <= visible[n][1]
      BY <1>0 DEF LoadedBefore
    <3>2. CASE n = l
      <4>1. visible[l] \in Seq(Nat) /\ numbers[l] \in Nat
        BY <1>1, <2>1
      <4>2. visible[l][1] <= visible[l][i] /\ visible[l][1] \in Nat /\ visible[l][i] \in Nat
        BY <3>1, <3>2, <4>1 DEF Ascending
      <4>3. numbers'[l] <= visible'[l][1]
        BY <2>4, <2>5, <4>2
      <4>4. numbers'[l] >= numbers[l]
        BY <2>4, <3>1, <3>2, <4>1, <4>2
      <4> QED
        BY <2>5, <3>1, <3>2, <4>3, <4>4
    <3>3. CASE n # l
      BY <1>1, <2>4, <3>1, <3>3
    <3> QED
      BY <3>2, <3>3
  <2> QED
    BY <2>6, <2>7 DEF LoadedBefore
<1>4. CASE Respond
  <2>1. UNCHANGED <<stats, visible>> /\ \A n \in Counters : numbers'[n] = numbers[n]
    <3>1. \A n \in Counters : n \in Numbers /\ n \notin Gauges
      BY DEF Numbers, Gauges, Counters, LastWrite
    <3> QED
      BY <1>4, <3>1 DEF Respond, vars
  <2> QED
    BY <1>0, <1>1, <2>1 DEF NewestIsCurrent, LoadedBefore
<1>5. CASE UNCHANGED <<stats, visible, numbers>>
  BY <1>0, <1>1, <1>5 DEF NewestIsCurrent, LoadedBefore
<1> QED
  BY <1>2, <1>3, <1>4, <1>5
  DEF MetricsNext, Handle, InsertResult, Unauthorized, Authorized, ReadLock, RenderFamily,
      RenderWritePath, metricsVars, handlerVars, vars

\* No step of the write path, the event loop or the handler breaks any of the parts.
LEMMA MetricsInvNext == MetricsInv /\ [MetricsNext]_metricsVars => MetricsInv'
<1> SUFFICES ASSUME MetricsInv, [MetricsNext]_metricsVars PROVE MetricsInv'
  OBVIOUS
<1>1. QueueInv' /\ HandlerTypes' /\ OnlyWithKey' /\ FamiliesAreCurrent'
  BY WritePathIsAlone, QueueNext, HandlerTypesNext, KeyNext, FamiliesNext DEF MetricsInv
<1>2. NewestIsCurrent' /\ LoadedBefore'
  BY LoadedNext DEF MetricsInv
<1> QED
  BY <1>1, <1>2 DEF MetricsInv

\* The invariant holds at all times.
LEMMA AlwaysMetricsInv == MetricsSpec => []MetricsInv
  BY MetricsInvInit, MetricsInvNext, PTL DEF MetricsSpec

(***************************************************************************)
(* What it establishes.                                                    *)
(***************************************************************************)

\* Scraping is invisible to the write path: with the endpoint beside it, it behaves as
\* the specification it was proved about (render_write_path only loads).
THEOREM ScrapingIsPassive == MetricsSpec => Spec
<1>1. MetricsInit => Init
  BY DEF MetricsInit
<1>2. [MetricsNext]_metricsVars => [Next]_vars
  BY WritePathIsAlone
<1> QED
  BY <1>1, <1>2, PTL DEF MetricsSpec, Spec

\* From one response to the next no counter falls, however many stores the Relaxed loads
\* of render_write_path are behind.
THEOREM CountersAreMonotone == MetricsSpec => CountersNeverFall
<1> DEFINE Grow == \A n \in Counters : numbers'[n] >= numbers[n]
<1>1. MetricsInv /\ [MetricsNext]_metricsVars => [Grow]_metricsVars
  BY LoadedNext DEF MetricsInv
<1>2. MetricsSpec => [][Grow]_metricsVars
  BY <1>1, AlwaysMetricsInv, PTL DEF MetricsSpec
<1> QED
  BY <1>2 DEF CountersNeverFall

\* All per-probe families of a response show the same results (render holds the guard of
\* results.read()).
THEOREM FamiliesShowOneMoment == MetricsSpec => []FamiliesAgree
<1>1. MetricsInv => FamiliesAgree
  <2> SUFFICES ASSUME MetricsInv PROVE FamiliesAgree
    OBVIOUS
  <2>1. families \in Seq([Probes -> Nat]) /\ \A i \in 1 .. Len(families) : families[i] = results
    BY DEF MetricsInv, HandlerTypes, FamiliesAreCurrent
  <2> QED
    BY <2>1 DEF FamiliesAgree
<1> QED
  BY <1>1, AlwaysMetricsInv, PTL

\* With a key configured, nothing is rendered for a request that does not present exactly
\* this key: constant_time_eq decides equality, for keys of any length.
THEOREM KeyIsRequired == MetricsSpec => []OnlyWithKey
<1>1. MetricsInv => OnlyWithKey
  BY DEF MetricsInv
<1> QED
  BY <1>1, AlwaysMetricsInv, PTL
==============================================================================
