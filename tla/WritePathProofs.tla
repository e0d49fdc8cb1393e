--------------------------- MODULE WritePathProofs ---------------------------
(***************************************************************************)
(* Proofs about WritePath, for every number and size of batches and every  *)
(* capacity.  The inductive invariant is built in layers: the queue as a   *)
(* window of batch numbers, the protocol of the two tasks, what became of  *)
(* each batch.                                                             *)
(***************************************************************************)
EXTENDS WritePath, FiniteSetTheorems, TLAPS

\* The number of the oldest batch in the queue (pushed + 1 when it is empty).
First == pushed - Len(queue) + 1

(***************************************************************************)
(* Layer 1: the queue is a window, its byte count is exact, the batcher    *)
(* only starts a push it has a batch for, and the writer holds a batch     *)
(* exactly while it is in its retry loop.                                  *)
(***************************************************************************)
HeldMatches == wpc \in Retrying <=> held # None

QueueInv ==
    /\ TypeOK
    /\ Len(queue) <= pushed
    /\ Locked => pushed < NBatches
    /\ HeldMatches
    /\ MostRecentWindow
    /\ ByteAccounting

\* Removing the front of a window leaves a window that starts one later.
LEMMA TailWindow ==
    ASSUME NEW s \in Seq(Batches), s # <<>>
    PROVE  /\ Tail(s) \in Seq(Batches)
           /\ Len(s) \in Nat /\ Len(s) >= 1
           /\ Len(Tail(s)) = Len(s) - 1
           /\ \A i \in 1 .. Len(Tail(s)) : Tail(s)[i] = s[i + 1]
           /\ Head(s) = s[1] /\ Head(s) \in Batches
  OBVIOUS

\* Appending keeps the old elements in place and puts the new one last.
LEMMA AppendWindow ==
    ASSUME NEW s \in Seq(Batches), NEW b \in Batches
    PROVE  /\ Append(s, b) \in Seq(Batches)
           /\ Len(Append(s, b)) = Len(s) + 1
           /\ Append(s, b)[Len(s) + 1] = b
           /\ \A i \in 1 .. Len(s) : Append(s, b)[i] = s[i]
  OBVIOUS

\* The size of a batch, and of what remains behind it, is never negative.
LEMMA SizePositive ==
    ASSUME NEW b \in Batches
    PROVE  /\ Size(b) \in Nat
           /\ Size(b) > 0
           /\ Offset[b] \in Nat /\ Offset[b + 1] \in Nat
           /\ \A c \in b + 1 .. NBatches + 1 :
                  Offset[c] \in Nat /\ Offset[c] >= Offset[b + 1]
  BY WritePathAssumption DEF Size, Batches

\* The gauges and counters stay natural numbers under the updates the code makes.
LEMMA DepthUpdate ==
    ASSUME NEW s \in StatsType, NEW m \in Nat, NEW n \in Nat
    PROVE  [s EXCEPT !.depthBatches = m, !.depthBytes = n] \in StatsType
  BY DEF StatsType

\* The record_* functions keep the statistics numbers.
LEMMA CounterUpdates ==
    ASSUME NEW s \in StatsType, NEW n \in Nat
    PROVE  /\ [s EXCEPT !.droppedBatches = @ + 1, !.droppedBytes = @ + n] \in StatsType
           /\ [s EXCEPT !.writtenBatches = @ + 1, !.writtenBytes = @ + n] \in StatsType
           /\ [s EXCEPT !.rejectedBatches = @ + 1] \in StatsType
<1>1. ASSUME NEW i \in Nat, NEW j \in Nat
      PROVE  /\ [s EXCEPT !.droppedBatches = i, !.droppedBytes = j] \in StatsType
             /\ [s EXCEPT !.writtenBatches = i, !.writtenBytes = j] \in StatsType
  <2>1. [s EXCEPT !.droppedBatches = i, !.droppedBytes = j] \in StatsType
    BY DEF StatsType
  <2>2. [s EXCEPT !.writtenBatches = i, !.writtenBytes = j] \in StatsType
    BY DEF StatsType
  <2> QED
    BY <2>1, <2>2
<1>2. /\ s.droppedBatches + 1 \in Nat /\ s.droppedBytes + n \in Nat
      /\ s.writtenBatches + 1 \in Nat /\ s.writtenBytes + n \in Nat
  BY DEF StatsType
<1>3. [s EXCEPT !.rejectedBatches = @ + 1] \in StatsType
  BY DEF StatsType
<1> QED
  BY <1>1, <1>2, <1>3

\* The queue starts empty.
LEMMA QueueInit == Init => QueueInv
<1> SUFFICES ASSUME Init PROVE QueueInv
  OBVIOUS
<1>1. TypeOK
  <2>1. queue \in Seq(Batches)
    BY DEF Init
  <2>2. stats \in StatsType
    BY DEF Init, StatsType
  <2>3. pushed \in 0 .. NBatches
    BY WritePathAssumption DEF Init
  <2> QED
    BY <2>1, <2>2, <2>3 DEF Init, TypeOK, Waiting, None
<1>2. /\ Len(queue) = 0 /\ Len(queue) <= pushed /\ ~Locked /\ MostRecentWindow
      /\ HeldMatches
  BY DEF Init, MostRecentWindow, Locked, Retrying, HeldMatches
<1>3. ByteAccounting
  BY <1>2, WritePathAssumption DEF Init, ByteAccounting
<1> QED
  BY <1>1, <1>2, <1>3 DEF QueueInv

(***************************************************************************)
(* The three steps that change the queue, and everything else.             *)
(***************************************************************************)

\* What the front of a window is, and what the byte count is once it is gone.
LEMMA RemoveFront ==
    ASSUME QueueInv, queue # <<>>
    PROVE  /\ Head(queue) = First
           /\ First \in Batches /\ First <= pushed
           /\ Tail(queue) \in Seq(Batches)
           /\ Len(queue) \in Nat /\ Len(queue) >= 1
           /\ Len(Tail(queue)) = Len(queue) - 1
           /\ \A i \in 1 .. Len(Tail(queue)) : Tail(queue)[i] = pushed - Len(Tail(queue)) + i
           /\ bytes - Size(First) \in Nat
           /\ bytes - Size(First) = Offset[pushed + 1] - Offset[pushed + 1 - Len(Tail(queue))]
           /\ Size(First) \in Nat
<1> USE DEF QueueInv
<1>1. /\ queue \in Seq(Batches) /\ pushed \in 0 .. NBatches /\ bytes \in Nat
      /\ Len(queue) <= pushed /\ NBatches \in Nat
  BY WritePathAssumption DEF TypeOK
<1>2. /\ Tail(queue) \in Seq(Batches)
      /\ Len(queue) \in Nat /\ Len(queue) >= 1
      /\ Len(Tail(queue)) = Len(queue) - 1
      /\ \A i \in 1 .. Len(Tail(queue)) : Tail(queue)[i] = queue[i + 1]
      /\ Head(queue) = queue[1]
  BY <1>1, TailWindow
<1>3. \A i \in 1 .. Len(queue) : queue[i] = pushed - Len(queue) + i
  BY DEF MostRecentWindow
<1>4. Head(queue) = First /\ First \in Batches /\ First <= pushed
  BY <1>1, <1>2, <1>3 DEF First, Batches
<1>5. \A i \in 1 .. Len(Tail(queue)) : Tail(queue)[i] = pushed - Len(Tail(queue)) + i
  BY <1>1, <1>2, <1>3
<1>6. /\ Size(First) \in Nat /\ Offset[First] \in Nat /\ Offset[First + 1] \in Nat
      /\ Offset[pushed + 1] \in Nat /\ Offset[pushed + 1] >= Offset[First + 1]
  <2>1. pushed + 1 \in First + 1 .. NBatches + 1
    BY <1>1, <1>4 DEF Batches
  <2> QED BY <1>4, <2>1, SizePositive
<1>7. bytes = Offset[pushed + 1] - Offset[First]
  BY <1>1, <1>2 DEF ByteAccounting, First
<1>8. bytes - Size(First) = Offset[pushed + 1] - Offset[First + 1]
  BY <1>6, <1>7 DEF Size
<1>9. First + 1 = pushed + 1 - Len(Tail(queue))
  BY <1>1, <1>2 DEF First
<1> QED
  BY <1>2, <1>4, <1>5, <1>6, <1>8, <1>9

\* The writer enters its retry loop with a batch and leaves it without.
LEMMA HeldMatchesNext == QueueInv /\ [Next]_vars => HeldMatches'
<1> SUFFICES ASSUME QueueInv, [Next]_vars PROVE HeldMatches'
  OBVIOUS
<1>0. HeldMatches /\ TypeOK
  BY DEF QueueInv
<1>1. queue # <<>> => Head(queue) # None
  BY <1>0, TailWindow DEF TypeOK, None, Batches
<1>2. CASE Batcher \/ Signal \/ Finished \/ UNCHANGED vars
  BY <1>0, <1>2
  DEF HeldMatches, Batcher, PushLock, EvictOldest, PushBack, NotifyOne, Close, NotifyWaiters,
      Signal, Finished, vars, writerVars
<1>3. CASE Peek \/ Recheck
  BY <1>0, <1>1, <1>3 DEF HeldMatches, Peek, Recheck, PeekOr, Retrying
<1>4. CASE CheckClosed \/ Register \/ RecheckClosed \/ Poll \/ Wake
  BY <1>0, <1>4
  DEF HeldMatches, CheckClosed, Register, RecheckClosed, ClosedOr, Poll, Wake, Retrying
<1>5. CASE Write \/ PopIfFront \/ BackoffElapsed \/ BackoffShutdown
  BY <1>0, <1>5
  DEF HeldMatches, Write, WriteOk, WriteRefused, WriteFailed, PopIfFront, BackoffElapsed,
      BackoffShutdown, Retrying
<1> QED
  BY <1>2, <1>3, <1>4, <1>5 DEF Next, Writer, Wait

\* A step that leaves the queue alone and the lock as it was keeps the window.
LEMMA QueueUnchanged ==
    ASSUME QueueInv, UNCHANGED <<queue, bytes, pushed>>, TypeOK',
           bpc' # "evict" \/ bpc' = bpc,
           HeldMatches'
    PROVE  QueueInv'
  BY DEF QueueInv, MostRecentWindow, ByteAccounting, Locked

\* Taking the lock for a push changes no batch.
LEMMA QueueStepPushLock == QueueInv /\ HeldMatches' /\ PushLock => QueueInv'
  BY DEF QueueInv, PushLock, TypeOK, MostRecentWindow, ByteAccounting, Locked,
         queueVars, writerVars, history

\* An eviction takes the oldest batch and its bytes.
LEMMA QueueStepEvictOldest == QueueInv /\ HeldMatches' /\ EvictOldest => QueueInv'
<1> SUFFICES ASSUME QueueInv, HeldMatches', EvictOldest PROVE QueueInv'
  OBVIOUS
<1>1. queue # <<>>
  BY DEF EvictOldest, MustEvict
<1>2. /\ queue' = Tail(queue) /\ bytes' = bytes - Size(First) /\ pushed' = pushed /\ bpc' = bpc
      /\ evicted' = evicted \cup {First}
  BY <1>1, RemoveFront DEF EvictOldest, batcherVars
<1>3. stats' \in StatsType
  BY <1>1, RemoveFront, CounterUpdates DEF EvictOldest, QueueInv, TypeOK
<1>4. TypeOK'
  BY <1>1, <1>2, <1>3, RemoveFront
  DEF EvictOldest, QueueInv, TypeOK, batcherVars, writerVars
<1>5. MostRecentWindow' /\ ByteAccounting' /\ (Len(queue) <= pushed)'
  BY <1>1, <1>2, RemoveFront DEF QueueInv, TypeOK, MostRecentWindow, ByteAccounting
<1> QED
  BY <1>2, <1>4, <1>5 DEF QueueInv, Locked

\* A push adds the next batch and its bytes.
LEMMA QueueStepPushBack == QueueInv /\ HeldMatches' /\ PushBack => QueueInv'
<1> SUFFICES ASSUME QueueInv, HeldMatches', PushBack PROVE QueueInv'
  OBVIOUS
<1>1. /\ queue \in Seq(Batches) /\ pushed \in Nat /\ bytes \in Nat /\ NBatches \in Nat
      /\ pushed < NBatches /\ Len(queue) <= pushed /\ Len(queue) \in Nat
  BY WritePathAssumption DEF QueueInv, TypeOK, PushBack, Locked
<1>2. pushed + 1 \in Batches
  BY <1>1 DEF Batches
<1>3. /\ queue' = Append(queue, pushed + 1) /\ pushed' = pushed + 1
      /\ bytes' = bytes + Size(pushed + 1) /\ bpc' = "notify"
  BY DEF PushBack
<1>4. /\ queue' \in Seq(Batches) /\ Len(queue') = Len(queue) + 1
      /\ queue'[Len(queue) + 1] = pushed + 1
      /\ \A i \in 1 .. Len(queue) : queue'[i] = queue[i]
  BY <1>1, <1>2, <1>3, AppendWindow
<1>5. Size(pushed + 1) \in Nat
  BY <1>2, SizePositive
<1>6. stats' \in StatsType
  <2>1. Len(queue) + 1 \in Nat /\ bytes + Size(pushed + 1) \in Nat /\ stats \in StatsType
    BY <1>1, <1>5 DEF QueueInv, TypeOK
  <2>2. [stats EXCEPT !.depthBatches = Len(queue) + 1,
                      !.depthBytes = bytes + Size(pushed + 1)] \in StatsType
    BY <2>1, DepthUpdate
  <2> QED
    BY <2>2 DEF PushBack
<1>7. TypeOK'
  BY <1>1, <1>3, <1>4, <1>5, <1>6 DEF PushBack, QueueInv, TypeOK, writerVars, history
<1>8. MostRecentWindow'
  <2>1. \A i \in 1 .. Len(queue) : queue[i] = pushed - Len(queue) + i
    BY DEF QueueInv, MostRecentWindow
  <2>2. ASSUME NEW i \in 1 .. Len(queue') PROVE queue'[i] = pushed' - Len(queue') + i
    <3>1. CASE i = Len(queue) + 1
      BY <1>1, <1>3, <1>4, <3>1
    <3>2. CASE i \in 1 .. Len(queue)
      BY <1>1, <1>3, <1>4, <2>1, <3>2
    <3> QED
      BY <1>1, <1>4, <3>1, <3>2
  <2> QED
    BY <2>2 DEF MostRecentWindow
<1>9. ByteAccounting'
  <2>1. bytes = Offset[pushed + 1] - Offset[pushed + 1 - Len(queue)]
    BY DEF QueueInv, ByteAccounting
  <2>2. pushed + 1 - Len(queue) \in 1 .. NBatches + 1 /\ pushed + 2 \in 1 .. NBatches + 1
    BY <1>1
  <2>3. /\ Offset[pushed + 1] \in Nat /\ Offset[pushed + 2] \in Nat
        /\ Offset[pushed + 1 - Len(queue)] \in Nat
    BY <1>1, <2>2, WritePathAssumption
  <2>4. pushed' + 1 = pushed + 2 /\ pushed' + 1 - Len(queue') = pushed + 1 - Len(queue)
    BY <1>1, <1>3, <1>4
  <2>5. Size(pushed + 1) = Offset[pushed + 2] - Offset[pushed + 1]
    BY <1>1 DEF Size
  <2> QED
    BY <1>3, <2>1, <2>3, <2>4, <2>5 DEF ByteAccounting
<1> QED
  BY <1>1, <1>3, <1>4, <1>7, <1>8, <1>9 DEF QueueInv, Locked

\* A pop takes the held batch if it is still in front.
LEMMA QueueStepPopIfFront == QueueInv /\ HeldMatches' /\ PopIfFront => QueueInv'
<1> SUFFICES ASSUME QueueInv, HeldMatches', PopIfFront PROVE QueueInv'
  OBVIOUS
<1>1. CASE queue # <<>> /\ Head(queue) = held
  <2>1. /\ queue' = Tail(queue) /\ bytes' = bytes - Size(First) /\ pushed' = pushed
        /\ bpc' = bpc
    BY <1>1, RemoveFront DEF PopIfFront, batcherVars
  <2>2. Len(queue) - 1 \in Nat /\ bytes - Size(held) \in Nat
    BY <1>1, RemoveFront
  <2>21. stats' \in StatsType
    <3>1. [stats EXCEPT !.depthBatches = Len(queue) - 1,
                        !.depthBytes = bytes - Size(held)] \in StatsType
      BY <2>2, DepthUpdate DEF QueueInv, TypeOK
    <3> QED
      BY <1>1, <3>1 DEF PopIfFront
  <2>3. TypeOK'
    BY <1>1, <2>1, <2>21, RemoveFront
    DEF PopIfFront, QueueInv, TypeOK, batcherVars, history, None, Waiting
  <2>4. MostRecentWindow' /\ ByteAccounting' /\ (Len(queue) <= pushed)'
    BY <1>1, <2>1, RemoveFront DEF QueueInv, TypeOK, MostRecentWindow, ByteAccounting
  <2> QED
    BY <2>1, <2>3, <2>4 DEF QueueInv, Locked
<1>2. CASE ~(queue # <<>> /\ Head(queue) = held)
  <2>1. TypeOK' /\ UNCHANGED <<queue, bytes, pushed>> /\ bpc' = bpc
    BY <1>2 DEF PopIfFront, QueueInv, TypeOK, batcherVars, history, None, Waiting
  <2> QED
    BY <2>1, QueueUnchanged
<1> QED
  BY <1>1, <1>2

\* The other steps of the two tasks.
LEMMA QueueStepOther ==
    ASSUME QueueInv, HeldMatches',
           NotifyOne \/ Close \/ NotifyWaiters \/ Wait \/ Write \/ BackoffElapsed
             \/ BackoffShutdown \/ Signal \/ UNCHANGED vars
    PROVE  QueueInv'
<1>0. TypeOK
  BY DEF QueueInv
<1>1. CASE NotifyOne \/ Close \/ NotifyWaiters
  <2>1. TypeOK' /\ UNCHANGED <<queue, bytes, pushed>> /\ bpc' # "evict"
    BY <1>0, <1>1 DEF NotifyOne, Close, NotifyWaiters, TypeOK, writerVars, history
  <2> QED
    BY <2>1, QueueUnchanged
<1>2. CASE Peek \/ Recheck
  <2>1. queue # <<>> => Head(queue) \in Batches
    BY <1>0, TailWindow DEF TypeOK
  <2>2. TypeOK' /\ UNCHANGED <<queue, bytes, pushed>> /\ bpc' = bpc
    BY <1>0, <1>2, <2>1
    DEF Peek, Recheck, PeekOr, TypeOK, Waiting, Retrying, batcherVars, history
  <2> QED
    BY <2>2, QueueUnchanged
<1>3. CASE CheckClosed \/ Register \/ RecheckClosed \/ Poll \/ Wake
  <2>1. TypeOK' /\ UNCHANGED <<queue, bytes, pushed>> /\ bpc' = bpc
    BY <1>0, <1>3
    DEF CheckClosed, Register, RecheckClosed, ClosedOr, Poll, Wake, TypeOK, Waiting, Returned,
        batcherVars, history
  <2> QED
    BY <2>1, QueueUnchanged
<1>4. CASE Write
  <2>0. wpc = "write" /\ held \in Batches /\ Size(held) \in Nat
    BY <1>0, <1>4, SizePositive
    DEF QueueInv, HeldMatches, TypeOK, Retrying, Write, WriteOk, WriteRefused, WriteFailed
  <2>1. stats' \in StatsType
    BY <1>0, <1>4, <2>0, CounterUpdates DEF TypeOK, Write, WriteOk, WriteRefused, WriteFailed
  <2>2. TypeOK' /\ UNCHANGED <<queue, bytes, pushed>> /\ bpc' = bpc
    BY <1>0, <1>4, <2>0, <2>1
    DEF Write, WriteOk, WriteRefused, WriteFailed, TypeOK, Retrying, batcherVars, queueVars
  <2> QED
    BY <2>2, QueueUnchanged
<1>5. CASE BackoffElapsed \/ BackoffShutdown \/ Signal \/ UNCHANGED vars
  <2>1. TypeOK' /\ UNCHANGED <<queue, bytes, pushed>> /\ bpc' = bpc
    BY <1>0, <1>5
    DEF BackoffElapsed, BackoffShutdown, Signal, TypeOK, Retrying, Returned, None, batcherVars,
        queueVars, writerVars, history, vars
  <2> QED
    BY <2>1, QueueUnchanged
<1> QED
  BY <1>1, <1>2, <1>3, <1>4, <1>5 DEF Wait

\* Every step keeps the queue a window with an exact byte count.
LEMMA QueueNext == QueueInv /\ [Next]_vars => QueueInv'
<1> SUFFICES ASSUME QueueInv, [Next]_vars PROVE QueueInv'
  OBVIOUS
<1>0. HeldMatches'
  BY HeldMatchesNext
<1>1. CASE PushLock
  BY <1>0, <1>1, QueueStepPushLock
<1>2. CASE EvictOldest
  BY <1>0, <1>2, QueueStepEvictOldest
<1>3. CASE PushBack
  BY <1>0, <1>3, QueueStepPushBack
<1>4. CASE PopIfFront
  BY <1>0, <1>4, QueueStepPopIfFront
<1>5. CASE \/ NotifyOne \/ Close \/ NotifyWaiters \/ Wait \/ Write \/ BackoffElapsed
           \/ BackoffShutdown \/ Signal \/ UNCHANGED vars
  BY <1>0, <1>5, QueueStepOther
<1> QED
  BY <1>1, <1>2, <1>3, <1>4, <1>5 DEF Next, Batcher, Writer, Finished

\* The queue invariant holds in every reachable state.
THEOREM QueueInvariant == Spec => []QueueInv
<1> QED
  BY QueueInit, QueueNext, PTL DEF Spec

\* Every variable keeps its type.  This needs the window and the byte accounting: they
\* are why the two unsigned subtractions from inner.bytes never go below zero.
THEOREM TypeCorrect == Spec => []TypeOK
<1>1. QueueInv => TypeOK
  BY DEF QueueInv
<1> QED
  BY <1>1, QueueInvariant, PTL

\* Whatever the interleaving of pushes, evictions and pops, the queue is the unbroken run
\* of the most recent batches (RetryQueue::push drops the oldest, pop_if_front the front).
THEOREM QueueIsMostRecentWindow == Spec => []MostRecentWindow
<1>1. QueueInv => MostRecentWindow
  BY DEF QueueInv
<1> QED
  BY <1>1, QueueInvariant, PTL

\* inner.bytes is the size of exactly the batches in the queue.
THEOREM BytesAreExact == Spec => []ByteAccounting
<1>1. QueueInv => ByteAccounting
  BY DEF QueueInv
<1> QED
  BY <1>1, QueueInvariant, PTL

(***************************************************************************)
(* Layer 2: the wakeup protocol.  A push that the writer did not see in    *)
(* its second peek has left a permit or is about to; a close it did not    *)
(* see reaches its Notified future.                                        *)
(***************************************************************************)
WakeupInv ==
    /\ closed <=> bpc \in {"wake", "done"}
    /\ wpc = "parked" => waiter \in {"parked", "notified"}
    /\ wpc \in {"recheck", "recheckClosed", "poll"} => waiter \in {"created", "notified"}
    /\ wpc \notin {"recheck", "recheckClosed", "poll", "parked"} => waiter = "none"
    /\ waiter = "parked" => ~permit
    /\ (wpc \in {"recheckClosed", "poll"} /\ queue # <<>>) => (permit \/ bpc = "notify")
    /\ (wpc = "poll" /\ closed) => (waiter = "notified" \/ bpc = "wake")
    /\ NoLostWakeup

\* The writer starts outside its wait, and there is no permit.
LEMMA WakeupInit == Init => WakeupInv
  BY DEF Init, WakeupInv, NoLostWakeup

\* A push or a close during the wait leaves a permit or a notified future.
LEMMA WakeupNext == QueueInv /\ WakeupInv /\ [Next]_vars => WakeupInv'
<1> SUFFICES ASSUME QueueInv, WakeupInv, [Next]_vars PROVE WakeupInv'
  OBVIOUS
<1>0. TypeOK
  BY DEF QueueInv
<1> USE DEF WakeupInv, NoLostWakeup
<1>1. CASE PushLock
  BY <1>0, <1>1 DEF PushLock, queueVars, writerVars, TypeOK
<1>2. CASE EvictOldest
  <2>1. queue # <<>>
    BY <1>2 DEF EvictOldest, MustEvict
  <2> QED
    BY <1>0, <1>2, <2>1 DEF EvictOldest, batcherVars, writerVars, TypeOK
<1>3. CASE PushBack
  BY <1>0, <1>3 DEF PushBack, writerVars, TypeOK
<1>4. CASE NotifyOne
  BY <1>0, <1>4 DEF NotifyOne, writerVars, TypeOK
<1>5. CASE Close
  BY <1>0, <1>5 DEF Close, writerVars, TypeOK
<1>6. CASE NotifyWaiters
  BY <1>0, <1>6 DEF NotifyWaiters, writerVars, TypeOK
<1>7. CASE Peek \/ Recheck
  BY <1>0, <1>7 DEF Peek, Recheck, PeekOr, batcherVars, TypeOK
<1>8. CASE CheckClosed \/ RecheckClosed
  BY <1>0, <1>8 DEF CheckClosed, RecheckClosed, ClosedOr, batcherVars, TypeOK
<1>9. CASE Register \/ Poll \/ Wake
  BY <1>0, <1>9 DEF Register, Poll, Wake, batcherVars, TypeOK
<1>10. CASE Write
  BY <1>0, <1>10 DEF Write, WriteOk, WriteRefused, WriteFailed, queueVars, batcherVars, TypeOK
<1>11. CASE PopIfFront
  BY <1>0, <1>11 DEF PopIfFront, batcherVars, TypeOK
<1>12. CASE BackoffElapsed \/ BackoffShutdown
  BY <1>0, <1>12 DEF BackoffElapsed, BackoffShutdown, queueVars, batcherVars, TypeOK
<1>13. CASE Signal \/ Finished \/ UNCHANGED vars
  BY <1>0, <1>13 DEF Signal, Finished, vars, queueVars, batcherVars, writerVars, TypeOK
<1> QED
  BY <1>1, <1>2, <1>3, <1>4, <1>5, <1>6, <1>7, <1>8, <1>9, <1>10, <1>11, <1>12, <1>13
  DEF Next, Batcher, Writer, Wait

\* No wakeup is ever lost: a parked writer with work or a close to see stands opposite a
\* batcher that has its notify still to do (RetryQueue::wait_for_batch against push, close).
THEOREM WakeupNeverLost == Spec => []NoLostWakeup
<1>1. WakeupInv => NoLostWakeup
  BY DEF WakeupInv
<1>2. Spec => []WakeupInv
  BY WakeupInit, WakeupNext, QueueInvariant, PTL DEF Spec
<1> QED
  BY <1>1, <1>2, PTL

(***************************************************************************)
(* The byte budget and the published gauges.                               *)
(***************************************************************************)
BudgetInv == CapacityBound /\ DepthPublished

\* The empty queue is within the budget.
LEMMA BudgetInit == Init => BudgetInv
  BY WritePathAssumption DEF Init, BudgetInv, CapacityBound, DepthPublished, Locked

\* The eviction loop ends when the new batch fits, or nothing else is left.
LEMMA BudgetNext == QueueInv /\ BudgetInv /\ [Next]_vars => BudgetInv'
<1> SUFFICES ASSUME QueueInv, BudgetInv, [Next]_vars PROVE BudgetInv'
  OBVIOUS
<1>0. /\ bytes \in Nat /\ Len(queue) \in Nat /\ Capacity \in Nat /\ stats \in StatsType
      /\ queue \in Seq(Batches)
  BY WritePathAssumption DEF QueueInv, TypeOK
<1> USE DEF BudgetInv, CapacityBound, DepthPublished, Locked
<1>1. CASE EvictOldest
  <2>1. queue # <<>>
    BY <1>1 DEF EvictOldest, MustEvict
  <2>2. queue' = Tail(queue) /\ bytes' = bytes - Size(First) /\ bpc' = "evict"
    BY <1>1, <2>1, RemoveFront DEF EvictOldest, batcherVars
  <2> QED
    BY <1>0, <2>1, <2>2, RemoveFront
<1>2. CASE PushBack
  <2>1. pushed + 1 \in Batches
    BY <1>2, WritePathAssumption DEF PushBack, QueueInv, TypeOK, Batches
  <2>2. Len(queue') = Len(queue) + 1 /\ bytes' = bytes + Size(pushed + 1)
    BY <1>0, <1>2, <2>1, AppendWindow DEF PushBack
  <2>3. CapacityBound'
    BY <1>0, <1>2, <2>1, <2>2, SizePositive DEF PushBack, MustEvict
  <2>4. stats'.depthBatches = Len(queue) + 1 /\ stats'.depthBytes = bytes + Size(pushed + 1)
    BY <1>0, <1>2 DEF PushBack, StatsType
  <2> QED
    BY <2>2, <2>3, <2>4
<1>3. CASE PopIfFront /\ queue # <<>> /\ Head(queue) = held
  <2>1. queue' = Tail(queue) /\ bytes' = bytes - Size(First)
    BY <1>3, RemoveFront DEF PopIfFront
  <2>2. CapacityBound'
    BY <1>0, <1>3, <2>1, RemoveFront
  <2>3. stats'.depthBatches = Len(queue) - 1 /\ stats'.depthBytes = bytes - Size(held)
    BY <1>0, <1>3 DEF PopIfFront, StatsType
  <2> QED
    BY <1>3, <2>1, <2>2, <2>3, RemoveFront
<1>4. CASE PopIfFront /\ ~(queue # <<>> /\ Head(queue) = held)
  BY <1>4 DEF PopIfFront, batcherVars
<1>5. CASE PushLock \/ NotifyOne \/ Close \/ NotifyWaiters
  BY <1>5 DEF PushLock, NotifyOne, Close, NotifyWaiters, queueVars
<1>6. CASE Wait
  BY <1>6 DEF Wait, Peek, CheckClosed, Register, Recheck, RecheckClosed, PeekOr, ClosedOr, Poll,
              Wake, batcherVars
<1>7. CASE Write
  <2>1. UNCHANGED <<queue, bytes, bpc>>
    BY <1>7 DEF Write, WriteOk, WriteRefused, WriteFailed, queueVars, batcherVars
  <2>2. UNCHANGED <<stats.depthBatches, stats.depthBytes>>
    BY <1>0, <1>7 DEF Write, WriteOk, WriteRefused, WriteFailed, StatsType
  <2> QED
    BY <2>1, <2>2
<1>8. CASE BackoffElapsed \/ BackoffShutdown \/ Signal \/ Finished \/ UNCHANGED vars
  BY <1>8 DEF BackoffElapsed, BackoffShutdown, Signal, Finished, vars, queueVars, batcherVars
<1> QED
  BY <1>1, <1>2, <1>3, <1>4, <1>5, <1>6, <1>7, <1>8 DEF Next, Batcher, Writer

\* The budget holds at all times.
LEMMA BudgetInvariant == Spec => []BudgetInv
  BY BudgetInit, BudgetNext, QueueInvariant, PTL DEF Spec

\* Only a batch that is alone in the queue may exceed max_buffered_bytes.
THEOREM MemoryIsBounded == Spec => []CapacityBound
<1>1. BudgetInv => CapacityBound
  BY DEF BudgetInv
<1> QED
  BY <1>1, BudgetInvariant, PTL

\* Outside push's critical section the gauges are those of the queue.
THEOREM GaugesMatchQueue == Spec => []DepthPublished
<1>1. BudgetInv => DepthPublished
  BY DEF BudgetInv
<1> QED
  BY <1>1, BudgetInvariant, PTL

(***************************************************************************)
(* Layer 3: what became of each batch.  Batches older than the queue have  *)
(* a fate; the one the writer holds is the front one or older; nothing     *)
(* newer than it has a verdict or has reached InfluxDB.                    *)
(***************************************************************************)
Judged == acked \cup refused

FateInv ==
    /\ \A b \in evicted : b < First
    /\ \A b \in 1 .. First - 1 : b \in evicted \cup Judged
    /\ wpc \in Waiting => \A b \in Judged \cup stored : b < First
    /\ held # None => held <= First /\ held <= pushed
    /\ wpc \in Retrying => \A b \in Judged \cup stored : b <= held
    /\ wpc \in {"write", "backoff"} => held \notin Judged
    /\ wpc = "pop" => held \in Judged
    /\ \A b \in Judged : b <= pushed

\* No batch has met its fate yet.
LEMMA FateInit == Init => FateInv
  BY DEF Init, FateInv, First, Judged, Retrying, None

\* How the oldest queued number moves: a removal from the front advances it by one, a
\* push leaves it where it is.
LEMMA FirstMoves ==
    ASSUME QueueInv
    PROVE  /\ First \in Nat /\ First >= 1 /\ First <= pushed + 1 /\ pushed \in Nat
           /\ queue # <<>> => Head(queue) = First /\ First <= pushed
           /\ queue = <<>> => First = pushed + 1
           /\ EvictOldest => First' = First + 1 /\ pushed' = pushed
           /\ PushBack => First' = First /\ pushed' = pushed + 1
           /\ PopIfFront => IF queue # <<>> /\ First = held THEN First' = First + 1
                                                             ELSE First' = First
<1>0. /\ queue \in Seq(Batches) /\ Len(queue) \in Nat /\ pushed \in Nat /\ Len(queue) <= pushed
      /\ NBatches \in Nat /\ pushed <= NBatches
  BY WritePathAssumption DEF QueueInv, TypeOK
<1>1. First \in Nat /\ First >= 1 /\ First <= pushed + 1
  BY <1>0 DEF First
<1>2. queue # <<>> => Head(queue) = First /\ First <= pushed
  BY RemoveFront
<1>3. queue = <<>> => First = pushed + 1
  BY <1>0 DEF First
<1>4. ASSUME EvictOldest PROVE First' = First + 1 /\ pushed' = pushed
  BY <1>0, <1>4, RemoveFront DEF EvictOldest, MustEvict, batcherVars, First
<1>5. ASSUME PushBack PROVE First' = First /\ pushed' = pushed + 1
  <2>1. pushed + 1 \in Batches
    BY <1>0, <1>5 DEF PushBack, QueueInv, Locked, Batches
  <2>2. Len(queue') = Len(queue) + 1 /\ pushed' = pushed + 1
    BY <1>0, <1>5, <2>1, AppendWindow DEF PushBack
  <2> QED
    BY <1>0, <2>2 DEF First
<1>6. ASSUME PopIfFront
      PROVE  IF queue # <<>> /\ First = held THEN First' = First + 1 ELSE First' = First
  <2>1. pushed' = pushed
    BY <1>6 DEF PopIfFront, batcherVars
  <2>2. CASE queue # <<>> /\ First = held
    BY <1>0, <1>6, <2>1, <2>2, RemoveFront DEF PopIfFront, First
  <2>3. CASE ~(queue # <<>> /\ First = held)
    <3>1. queue' = queue
      BY <1>2, <1>6, <2>3 DEF PopIfFront
    <3> QED
      BY <2>1, <2>3, <3>1 DEF First
  <2> QED
    BY <2>2, <2>3
<1> QED
  BY <1>0, <1>1, <1>2, <1>3, <1>4, <1>5, <1>6

\* Every step gives a batch a fate at most where the others allow it.
LEMMA FateNext == QueueInv /\ FateInv /\ [Next]_vars => FateInv'
<1> SUFFICES ASSUME QueueInv, FateInv, [Next]_vars PROVE FateInv'
  OBVIOUS
<1>0. /\ First \in Nat /\ First >= 1 /\ First <= pushed + 1 /\ pushed \in Nat
      /\ held \in Nat /\ evicted \subseteq Nat /\ Judged \subseteq Nat /\ stored \subseteq Nat
      /\ wpc \in Waiting \cup Retrying \cup Returned
  BY FirstMoves DEF QueueInv, TypeOK, Batches, None, Judged
<1>00. HeldMatches
  BY DEF QueueInv
<1>1. CASE EvictOldest
  <2>1. /\ First' = First + 1 /\ pushed' = pushed /\ evicted' = evicted \cup {First}
        /\ UNCHANGED <<acked, refused, stored, wpc, held>> /\ Judged' = Judged
    BY <1>1, FirstMoves DEF EvictOldest, MustEvict, writerVars, Judged
  <2> QED
    BY <1>0, <2>1 DEF FateInv
<1>2. CASE PushBack
  <2>1. /\ First' = First /\ pushed' = pushed + 1 /\ Judged' = Judged
        /\ UNCHANGED <<evicted, acked, refused, stored, wpc, held>>
    BY <1>2, FirstMoves DEF PushBack, writerVars, history, Judged
  <2> QED
    BY <1>0, <2>1 DEF FateInv
<1>3. CASE PopIfFront
  <2>1. /\ wpc = "pop" /\ wpc' = "peek" /\ held' = None /\ pushed' = pushed /\ held # None
        /\ UNCHANGED <<evicted, acked, refused, stored>> /\ Judged' = Judged
        /\ held <= First /\ held <= pushed /\ held \in Judged
    BY <1>00, <1>3 DEF PopIfFront, batcherVars, history, Judged, FateInv, HeldMatches, Retrying
  <2>2. CASE queue # <<>> /\ First = held
    <3>1. First' = First + 1
      BY <1>3, <2>2, FirstMoves
    <3> QED
      BY <1>0, <2>1, <2>2, <3>1 DEF FateInv, Retrying, Waiting
  <2>3. CASE ~(queue # <<>> /\ First = held)
    <3>1. First' = First /\ held < First
      BY <1>0, <1>3, <2>1, <2>3, FirstMoves
    <3> QED
      BY <1>0, <2>1, <3>1 DEF FateInv, Retrying, Waiting
  <2> QED
    BY <2>2, <2>3
<1>4. CASE Peek \/ Recheck
  <2>1. /\ UNCHANGED <<queue, pushed, evicted, acked, refused, stored>>
        /\ First' = First /\ Judged' = Judged
    BY <1>4 DEF Peek, Recheck, PeekOr, batcherVars, history, First, Judged
  <2>2. \A b \in Judged \cup stored : b < First
    BY <1>4 DEF Peek, Recheck, FateInv, Waiting
  <2>3. CASE queue = <<>>
    <3>1. wpc' \in Waiting /\ wpc' \notin Retrying /\ held' = held
      BY <1>4, <2>3 DEF Peek, Recheck, PeekOr, Waiting, Retrying
    <3> QED
      BY <1>0, <2>1, <2>2, <3>1 DEF FateInv, Retrying
  <2>4. CASE queue # <<>>
    <3>1. wpc' = "write" /\ held' = First /\ First <= pushed
      BY <1>4, <2>4, FirstMoves DEF Peek, Recheck, PeekOr
    <3> QED
      BY <1>0, <2>1, <2>2, <3>1 DEF FateInv, Retrying, Waiting
  <2> QED
    BY <2>3, <2>4
<1>5. CASE CheckClosed \/ Register \/ RecheckClosed \/ Poll \/ Wake
  <2>1. /\ UNCHANGED <<queue, pushed, held, evicted, acked, refused, stored>>
        /\ First' = First /\ Judged' = Judged
        /\ wpc \in Waiting /\ wpc' \notin Retrying
    BY <1>5
    DEF CheckClosed, Register, RecheckClosed, ClosedOr, Poll, Wake, batcherVars, history, First,
        Judged, Waiting, Retrying
  <2> QED
    BY <1>0, <2>1 DEF FateInv, Retrying
<1>6. CASE Write
  <2>1. /\ wpc = "write" /\ wpc' \in {"pop", "backoff"} /\ UNCHANGED <<queue, pushed, held, evicted>>
        /\ First' = First /\ held # None /\ held \in Nat
    BY <1>0, <1>00, <1>6
    DEF Write, WriteOk, WriteRefused, WriteFailed, queueVars, batcherVars, First, HeldMatches,
        Retrying
  <2>2. /\ held <= First /\ held <= pushed /\ held \notin Judged
        /\ \A b \in Judged \cup stored : b <= held
    BY <2>1 DEF FateInv, Retrying
  <2>3. CASE WriteOk \/ WriteRefused
    <3>1. /\ wpc' = "pop" /\ Judged' = Judged \cup {held}
          /\ stored' \in {stored, stored \cup {held}}
      BY <2>3 DEF WriteOk, WriteRefused, Judged
    <3> QED
      BY <1>0, <2>1, <2>2, <3>1 DEF FateInv, Retrying, Waiting
  <2>4. CASE WriteFailed
    <3>1. /\ wpc' = "backoff" /\ Judged' = Judged
          /\ stored' \in {stored, stored \cup {held}}
      BY <2>4 DEF WriteFailed, Judged
    <3> QED
      BY <1>0, <2>1, <2>2, <3>1 DEF FateInv, Retrying, Waiting
  <2> QED
    BY <1>6, <2>3, <2>4 DEF Write
<1>7. CASE BackoffElapsed \/ BackoffShutdown
  <2>1. /\ UNCHANGED <<queue, pushed, evicted, acked, refused, stored>>
        /\ First' = First /\ Judged' = Judged /\ wpc = "backoff"
        /\ \/ wpc' = "write" /\ held' = held
           \/ wpc' = "abandoned" /\ held' = None
    BY <1>7 DEF BackoffElapsed, BackoffShutdown, queueVars, batcherVars, history, First, Judged
  <2> QED
    BY <1>0, <2>1 DEF FateInv, Retrying, Waiting
<1>8. CASE PushLock \/ NotifyOne \/ Close \/ NotifyWaiters \/ Signal \/ Finished
           \/ UNCHANGED vars
  <2>1. /\ UNCHANGED <<queue, pushed, held, wpc, evicted, acked, refused, stored>>
        /\ First' = First /\ Judged' = Judged
    BY <1>8
    DEF PushLock, NotifyOne, Close, NotifyWaiters, Signal, Finished, vars, queueVars, batcherVars,
        writerVars, history, First, Judged
  <2> QED
    BY <2>1 DEF FateInv
<1> QED
  BY <1>1, <1>2, <1>3, <1>4, <1>5, <1>6, <1>7, <1>8 DEF Next, Batcher, Writer, Wait

\* Each batch has its fate at all times.
LEMMA FateInvariant == Spec => []FateInv
  BY FateInit, FateNext, QueueInvariant, PTL DEF Spec

\* The queue holds the numbers First..pushed.
LEMMA QueueRange == QueueInv => InQueue = First .. pushed
<1> SUFFICES ASSUME QueueInv PROVE InQueue = First .. pushed
  OBVIOUS
<1>0. /\ queue \in Seq(Batches) /\ Len(queue) \in Nat /\ pushed \in Nat /\ Len(queue) <= pushed
      /\ \A i \in 1 .. Len(queue) : queue[i] = pushed - Len(queue) + i
  BY WritePathAssumption DEF QueueInv, TypeOK, MostRecentWindow
<1>1. ASSUME NEW b \in InQueue PROVE b \in First .. pushed
  BY <1>0, <1>1 DEF InQueue, First
<1>2. ASSUME NEW b \in First .. pushed PROVE b \in InQueue
  <2>1. b - First + 1 \in 1 .. Len(queue) /\ queue[b - First + 1] = b
    BY <1>0 DEF First
  <2> QED
    BY <2>1 DEF InQueue
<1> QED
  BY <1>1, <1>2

\* No batch vanishes: each one pushed is queued, was counted as evicted, or had a verdict.
\* An unconditional pop after a write would break this (RetryQueue::pop_if_front).
THEOREM NothingIsLostSilently == Spec => []NoSilentLoss
<1>1. QueueInv /\ FateInv => NoSilentLoss
  <2> SUFFICES ASSUME QueueInv, FateInv, NEW b \in 1 .. pushed
               PROVE  b \in InQueue \cup evicted \cup acked \cup refused
    BY DEF NoSilentLoss
  <2>1. First \in Nat /\ First >= 1 /\ pushed \in Nat
    BY FirstMoves
  <2>2. CASE b < First
    BY <2>1, <2>2 DEF FateInv, Judged
  <2>3. CASE b >= First
    BY <2>1, <2>3, QueueRange
  <2> QED
    BY <2>1, <2>2, <2>3
<1> QED
  BY <1>1, QueueInvariant, FateInvariant, PTL

\* The writer only takes up batches newer than all that reached InfluxDB or had a verdict:
\* points arrive in order and nothing with a verdict is sent again (run_writer).
THEOREM BatchesAreTakenInOrder == Spec => TakenInOrder
<1> DEFINE Step == held' \notin {None, held} => \A b \in acked \cup refused \cup stored : b < held'
<1>1. QueueInv /\ FateInv /\ [Next]_vars => [Step]_vars
  <2> SUFFICES ASSUME QueueInv, FateInv, Next, held' \notin {None, held}
               PROVE  \A b \in acked \cup refused \cup stored : b < held'
    OBVIOUS
  <2>1. CASE Peek \/ Recheck
    <3>1. held' = First /\ wpc \in Waiting
      BY <2>1, FirstMoves DEF Peek, Recheck, PeekOr, Waiting
    <3> QED
      BY <3>1 DEF FateInv, Judged
  <2>2. CASE ~(Peek \/ Recheck)
    <3>1. held' \in {None, held}
      BY <2>2
      DEF Next, Batcher, PushLock, EvictOldest, PushBack, NotifyOne, Close, NotifyWaiters, Writer,
          Wait, CheckClosed, Register, RecheckClosed, ClosedOr, Poll, Wake, Write, WriteOk,
          WriteRefused, WriteFailed, PopIfFront, BackoffElapsed, BackoffShutdown, Signal,
          Finished, vars, writerVars
    <3> QED
      BY <3>1
  <2> QED
    BY <2>1, <2>2
<1>2. Spec => [][Step]_vars
  BY <1>1, QueueInvariant, FateInvariant, PTL DEF Spec
<1> QED
  BY <1>2 DEF TakenInOrder
-----------------------------------------------------------------------------
(***************************************************************************)
(* The counters count, and WritePath implements DropOldestFifo: the two    *)
(* theorems that use every layer of the invariant.                         *)
(***************************************************************************)


(***************************************************************************)
(* The counters of WriteStats against the history of each batch.           *)
(***************************************************************************)
LEMMA FatesAreFinite ==
    ASSUME TypeOK
    PROVE  IsFiniteSet(evicted) /\ IsFiniteSet(acked) /\ IsFiniteSet(refused)
<1>1. IsFiniteSet(Batches)
  BY WritePathAssumption, FS_Interval DEF Batches
<1> QED
  BY <1>1, FS_Subset DEF TypeOK

\* The counters start at zero.
LEMMA CountersInit == Init => CountersAgree
  BY FS_EmptySet DEF Init, CountersAgree

\* A counter rises exactly with the set it counts.
LEMMA CountersNext == QueueInv /\ FateInv /\ CountersAgree /\ [Next]_vars => CountersAgree'
<1> SUFFICES ASSUME QueueInv, FateInv, CountersAgree, [Next]_vars PROVE CountersAgree'
  OBVIOUS
<1>0. /\ stats \in StatsType /\ TypeOK
      /\ IsFiniteSet(evicted) /\ IsFiniteSet(acked) /\ IsFiniteSet(refused)
  BY FatesAreFinite DEF QueueInv, TypeOK
<1>1. CASE EvictOldest
  <2>1. /\ Head(queue) \notin evicted /\ evicted' = evicted \cup {Head(queue)}
        /\ UNCHANGED <<acked, refused>>
    BY <1>1, FirstMoves DEF EvictOldest, MustEvict, FateInv
  <2>2. /\ stats'.droppedBatches = stats.droppedBatches + 1
        /\ stats'.writtenBatches = stats.writtenBatches
        /\ stats'.rejectedBatches = stats.rejectedBatches
    BY <1>0, <1>1 DEF EvictOldest, StatsType
  <2>3. Cardinality(evicted') = Cardinality(evicted) + 1
    BY <1>0, <2>1, FS_AddElement
  <2> QED
    BY <2>1, <2>2, <2>3 DEF CountersAgree
<1>2. CASE WriteOk
  <2>1. held \notin acked /\ acked' = acked \cup {held} /\ UNCHANGED <<evicted, refused>>
    BY <1>2 DEF WriteOk, FateInv, Judged
  <2>2. /\ stats'.writtenBatches = stats.writtenBatches + 1
        /\ stats'.droppedBatches = stats.droppedBatches
        /\ stats'.rejectedBatches = stats.rejectedBatches
    BY <1>0, <1>2 DEF WriteOk, StatsType
  <2>3. Cardinality(acked') = Cardinality(acked) + 1
    BY <1>0, <2>1, FS_AddElement
  <2> QED
    BY <2>1, <2>2, <2>3 DEF CountersAgree
<1>3. CASE WriteRefused
  <2>1. held \notin refused /\ refused' = refused \cup {held} /\ UNCHANGED <<evicted, acked>>
    BY <1>3 DEF WriteRefused, FateInv, Judged
  <2>2. /\ stats'.rejectedBatches = stats.rejectedBatches + 1
        /\ stats'.droppedBatches = stats.droppedBatches
        /\ stats'.writtenBatches = stats.writtenBatches
    BY <1>0, <1>3 DEF WriteRefused, StatsType
  <2>3. Cardinality(refused') = Cardinality(refused) + 1
    BY <1>0, <2>1, FS_AddElement
  <2> QED
    BY <2>1, <2>2, <2>3 DEF CountersAgree
<1>4. CASE PushBack \/ PopIfFront
  <2>1. UNCHANGED <<evicted, acked, refused>>
    BY <1>4 DEF PushBack, PopIfFront, history
  <2>2. UNCHANGED <<stats.droppedBatches, stats.writtenBatches, stats.rejectedBatches>>
    BY <1>0, <1>4 DEF PushBack, PopIfFront, StatsType
  <2> QED
    BY <2>1, <2>2 DEF CountersAgree
<1>5. CASE ~(EvictOldest \/ WriteOk \/ WriteRefused \/ PushBack \/ PopIfFront)
  <2>1. UNCHANGED <<stats, evicted, acked, refused>>
    BY <1>5
    DEF Next, Batcher, PushLock, NotifyOne, Close, NotifyWaiters, Writer, Wait, Peek, CheckClosed,
        Register, Recheck, RecheckClosed, PeekOr, ClosedOr, Poll, Wake, Write, WriteFailed,
        BackoffElapsed, BackoffShutdown, Signal, Finished, vars, history
  <2> QED
    BY <2>1 DEF CountersAgree
<1> QED
  BY <1>1, <1>2, <1>3, <1>4, <1>5

\* Each counter has counted each batch of its kind exactly once, although one batch may
\* be both evicted and written (RetryQueue::push against run_writer, through WriteStats).
THEOREM CountersCount == Spec => []CountersAgree
  BY CountersInit, CountersNext, QueueInvariant, FateInvariant, PTL DEF Spec

(***************************************************************************)
(* The refinement.                                                         *)
(***************************************************************************)

\* The fate of a batch that left the queue by pop_if_front.
FinishedBatches == (acked \cup refused) \ (InQueue \cup evicted)

\* The initial states are initial states of the abstract queue.
LEMMA FifoInit == Init => Fifo!FifoInit
  BY DEF Init, Fifo!FifoInit, InQueue

\* Both specifications mean the same bytes.
LEMMA SizesAgree == ASSUME NEW b PROVE Fifo!Size(b) = Size(b)
  BY DEF Fifo!Size, Size

\* The window is an interval after a step too.
LEMMA QueueRangeNext == QueueInv' => (InQueue = First .. pushed)'
  BY QueueRange, PTL

\* The two specifications decide alike whether the next batch fits.
LEMMA FitsUnlessMustEvict ==
    ASSUME QueueInv, pushed < NBatches
    PROVE  Fifo!Fits <=> ~MustEvict
<1>1. bytes \in Nat /\ Capacity \in Nat /\ pushed \in Nat /\ NBatches \in Nat
  BY WritePathAssumption DEF QueueInv, TypeOK
<1>2. pushed + 1 \in Batches
  BY <1>1 DEF Batches
<1>3. Size(pushed + 1) \in Nat
  BY <1>2, SizePositive
<1> QED
  BY <1>1, <1>3, SizesAgree DEF Fifo!Fits, MustEvict

\* PushBack is Send.
LEMMA FifoPush ==
    ASSUME QueueInv, QueueInv', FateInv, PushBack
    PROVE  Fifo!Send
<1>1. /\ pushed < NBatches /\ ~MustEvict /\ pushed' = pushed + 1
      /\ queue' = Append(queue, pushed + 1) /\ bytes' = bytes + Size(pushed + 1)
      /\ UNCHANGED <<evicted, acked, refused>>
  BY DEF PushBack, QueueInv, Locked, history
<1>2. First' = First /\ First \in Nat /\ pushed \in Nat /\ First <= pushed + 1
  BY FirstMoves
<1>3. InQueue = First .. pushed /\ InQueue' = First .. pushed + 1
  BY <1>1, <1>2, QueueRange, QueueRangeNext
<1>4. \A b \in acked \cup refused : b <= pushed /\ b \in Nat
  BY DEF FateInv, Judged, QueueInv, TypeOK, Batches
<1>5. FinishedBatches' = FinishedBatches
  BY <1>1, <1>2, <1>3, <1>4 DEF FinishedBatches
<1> QED
  BY <1>1, <1>5, SizesAgree, FitsUnlessMustEvict DEF Fifo!Send, FinishedBatches

\* EvictOldest is Lose.
LEMMA FifoEvict ==
    ASSUME QueueInv, QueueInv', FateInv, EvictOldest
    PROVE  Fifo!Lose
<1>1. /\ pushed < NBatches /\ MustEvict /\ pushed' = pushed /\ queue # <<>>
      /\ queue' = Tail(queue) /\ bytes' = bytes - Size(Head(queue))
      /\ evicted' = evicted \cup {Head(queue)} /\ UNCHANGED <<acked, refused>>
  BY DEF EvictOldest, QueueInv, Locked, MustEvict, batcherVars
<1>2. First' = First + 1 /\ First \in Nat /\ pushed \in Nat /\ Head(queue) = First /\ First <= pushed
  BY <1>1, FirstMoves
<1>3. InQueue = First .. pushed /\ InQueue' = First + 1 .. pushed
  BY <1>1, <1>2, QueueRange, QueueRangeNext
<1>4. InQueue' \cup evicted' = InQueue \cup evicted
  BY <1>1, <1>2, <1>3
<1>5. FinishedBatches' = FinishedBatches
  BY <1>1, <1>4 DEF FinishedBatches
<1> QED
  BY <1>1, <1>5, SizesAgree, FitsUnlessMustEvict DEF Fifo!Lose, FinishedBatches

\* PopIfFront finishes the front, or finds it evicted and changes nothing.
LEMMA FifoPop ==
    ASSUME QueueInv, QueueInv', FateInv, PopIfFront
    PROVE  Fifo!Finish \/ UNCHANGED <<pushed, queue, bytes, evicted, FinishedBatches>>
<1>1. wpc = "pop" /\ pushed' = pushed /\ UNCHANGED <<evicted, acked, refused>>
  BY DEF PopIfFront, batcherVars, history
<1>2. CASE queue # <<>> /\ Head(queue) = held
  <2>1. queue' = Tail(queue) /\ bytes' = bytes - Size(Head(queue))
    BY <1>2 DEF PopIfFront
  <2>2. /\ First' = First + 1 /\ First \in Nat /\ pushed \in Nat /\ First <= pushed
        /\ Head(queue) = First
    BY <1>2, FirstMoves
  <2>3. InQueue = First .. pushed /\ InQueue' = First + 1 .. pushed
    BY <1>1, <2>2, QueueRange, QueueRangeNext
  <2>4. First \in acked \cup refused /\ First \notin evicted
    BY <1>1, <1>2, <2>2 DEF FateInv, Judged
  <2>5. InQueue' = InQueue \ {First} /\ First \in InQueue
    BY <2>2, <2>3
  <2>6. FinishedBatches' = FinishedBatches \cup {First}
    BY <1>1, <2>4, <2>5 DEF FinishedBatches
  <2> QED
    BY <1>1, <1>2, <2>1, <2>2, <2>6, SizesAgree DEF Fifo!Finish, FinishedBatches
<1>3. CASE ~(queue # <<>> /\ Head(queue) = held)
  <2>1. UNCHANGED <<queue, bytes>>
    BY <1>3 DEF PopIfFront
  <2> QED
    BY <1>1, <2>1 DEF FinishedBatches, InQueue
<1> QED
  BY <1>2, <1>3

\* A verdict alone finishes nothing: its batch is still queued, or was evicted.
LEMMA FifoVerdict ==
    ASSUME QueueInv, FateInv, WriteOk \/ WriteRefused
    PROVE  UNCHANGED <<pushed, queue, bytes, evicted, FinishedBatches>>
<1>1. /\ wpc = "write" /\ UNCHANGED <<pushed, queue, bytes, evicted>>
      /\ (acked \cup refused)' = acked \cup refused \cup {held}
  BY DEF WriteOk, WriteRefused, queueVars, batcherVars
<1>2. InQueue' = InQueue
  BY <1>1 DEF InQueue
<1>3. held \in InQueue \cup evicted
  <2>1. /\ held # None /\ held <= First /\ held <= pushed /\ held \notin Judged
        /\ held \in Batches
    BY <1>1 DEF QueueInv, HeldMatches, FateInv, TypeOK, Retrying
  <2>2. First \in Nat /\ pushed \in Nat /\ held \in Nat /\ held >= 1 /\ InQueue = First .. pushed
    BY <2>1, FirstMoves, QueueRange DEF Batches
  <2>3. CASE held = First
    BY <2>1, <2>2, <2>3
  <2>4. CASE held < First
    <3>1. held \in 1 .. First - 1
      BY <2>2, <2>4
    <3> QED
      BY <2>1, <3>1 DEF FateInv
  <2> QED
    BY <2>1, <2>2, <2>3, <2>4
<1>4. FinishedBatches' = FinishedBatches
  BY <1>1, <1>2, <1>3 DEF FinishedBatches
<1> QED
  BY <1>1, <1>4

\* Each step is a step of the abstract queue, or a stutter.
LEMMA FifoStep ==
    QueueInv /\ QueueInv' /\ FateInv /\ [Next]_vars => [Fifo!FifoNext]_(Fifo!fifoVars)
<1> SUFFICES ASSUME QueueInv, QueueInv', FateInv, [Next]_vars
             PROVE  Fifo!FifoNext \/ UNCHANGED <<pushed, queue, bytes, evicted, FinishedBatches>>
  BY DEF Fifo!fifoVars, FinishedBatches
<1>1. CASE PushBack
  BY <1>1, FifoPush DEF Fifo!FifoNext
<1>2. CASE EvictOldest
  BY <1>2, FifoEvict DEF Fifo!FifoNext
<1>3. CASE PopIfFront
  BY <1>3, FifoPop DEF Fifo!FifoNext
<1>4. CASE WriteOk \/ WriteRefused
  BY <1>4, FifoVerdict
<1>5. CASE ~(PushBack \/ EvictOldest \/ PopIfFront \/ WriteOk \/ WriteRefused)
  <2>1. UNCHANGED <<pushed, queue, bytes, evicted, acked, refused>>
    BY <1>5
    DEF Next, Batcher, PushLock, NotifyOne, Close, NotifyWaiters, Writer, Wait, Peek, CheckClosed,
        Register, Recheck, RecheckClosed, PeekOr, ClosedOr, Poll, Wake, Write, WriteFailed,
        BackoffElapsed, BackoffShutdown, Signal, Finished, vars, queueVars, batcherVars, history
  <2> QED
    BY <2>1 DEF FinishedBatches, InQueue
<1> QED
  BY <1>1, <1>2, <1>3, <1>4, <1>5

\* The write path is a drop-oldest FIFO with a byte budget: it evicts only what must go to
\* make room and only from the old end, and a batch with a verdict leaves from the old end.
THEOREM WritePathImplementsFifo == Spec => ImplementsFifo
<1>1. Init => Fifo!FifoInit
  BY FifoInit
<1>2. QueueInv /\ QueueInv' /\ FateInv /\ [Next]_vars => [Fifo!FifoNext]_(Fifo!fifoVars)
  BY FifoStep
<1> QED
  BY <1>1, <1>2, QueueInvariant, FateInvariant, PTL DEF Spec, ImplementsFifo, Fifo!FifoSpec
=============================================================================
