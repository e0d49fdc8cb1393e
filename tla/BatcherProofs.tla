---------------------------- MODULE BatcherProofs ----------------------------
(***************************************************************************)
(* Proofs about Batcher, for every number of results, every capacity of    *)
(* the hub, every batch size and every timeout.  BufferInv is about the    *)
(* task alone; EachResultOnce is then inductive on top of it, because      *)
(* every step extends Taken by at most the result after the cursor.        *)
(***************************************************************************)
EXTENDS Batcher, SequenceTheorems, TLAPS

\* Types, a buffer that is never full between two steps, and a clock that is only
\* running while something is buffered.
BufferInv ==
    /\ TypeOK
    /\ Len(buffer) < BatchSize
    /\ buffer = <<>> => waited = 0

\* The next result is one of the results, and lag moves the cursor towards the end.
LEMMA CursorMoves ==
    ASSUME TypeOK
    PROVE  /\ Unread => cursor + 1 \in Results /\ cursor + 1 \in 0 .. sent
           /\ Lagging => /\ sent - Slots \in 0 .. sent
                         /\ cursor < sent - Slots
                         /\ cursor + 1 .. sent - Slots \subseteq Results
  BY BatcherAssumption DEF TypeOK, Unread, Lagging, Results

\* A result joins the buffer.
LEMMA Buffered ==
    ASSUME NEW s \in Seq(Results), NEW r \in Results
    PROVE  /\ Append(s, r) \in Seq(Results)
           /\ Len(Append(s, r)) = Len(s) + 1
           /\ Append(s, r) # <<>>
<1>1. Append(s, r) \in Seq(Results) /\ Len(Append(s, r)) = Len(s) + 1
  OBVIOUS
<1>2. Len(s) \in Nat /\ Len(<<>>) = 0
  OBVIOUS
<1> QED
  BY <1>1, <1>2

\* What is given to the queue are results.
LEMMA Handed ==
    ASSUME NEW s \in Seq(Results), NEW t \in Seq(Results)
    PROVE  /\ s \o t \in Seq(Results)
           /\ Len(s \o t) = Len(s) + Len(t)
  OBVIOUS

\* Enqueue hands over all of its argument, and counts a batch unless it is empty.
LEMMA EnqueueHands ==
    ASSUME TypeOK, NEW s \in Seq(Results), Enqueue(s)
    PROVE  /\ handed' = handed \o s
           /\ handed' \in Seq(Results) /\ batches' \in Nat
           /\ batches' # batches => batches' = batches + 1 /\ s # <<>>
<1>1. handed \in Seq(Results) /\ batches \in Nat
  BY DEF TypeOK
<1>2. handed \o <<>> = handed
  BY <1>1, ConcatEmptySeq
<1>3. handed \o s \in Seq(Results)
  BY <1>1
<1>4. CASE s = <<>>
  BY <1>1, <1>2, <1>4 DEF Enqueue
<1>5. CASE s # <<>>
  <2>1. handed' = handed \o s /\ batches' = batches + 1
    BY <1>5 DEF Enqueue
  <2>2. batches + 1 \in Nat
    BY <1>1
  <2> QED
    BY <1>3, <1>5, <2>1, <2>2, Zenon
<1> QED
  BY <1>4, <1>5

\* The buffer starts empty.
LEMMA BufferInvInit == Init => BufferInv
  BY BatcherAssumption DEF Init, BufferInv, TypeOK, Results

\* A buffer that has grown to a batch is flushed before the next select.
LEMMA BufferInvNext == BufferInv /\ [Next]_vars => BufferInv'
<1> SUFFICES ASSUME BufferInv, [Next]_vars PROVE BufferInv'
  OBVIOUS
<1> USE BatcherAssumption
<1>0. TypeOK
  BY DEF BufferInv
<1>a. <<>> \in Seq(Results) /\ Len(<<>>) = 0
  OBVIOUS
<1>1. CASE Publish
  BY <1>1 DEF Publish, BufferInv, TypeOK
<1>2. CASE DropHub
  BY <1>2 DEF DropHub, hubVars, BufferInv, TypeOK
<1>3. CASE RecvOk
  <2>1. cursor + 1 \in Results /\ cursor + 1 \in 0 .. sent
    BY <1>0, <1>3, CursorMoves DEF RecvOk
  <2>2. buffer \in Seq(Results) /\ Append(buffer, cursor + 1) \in Seq(Results)
        /\ Len(Append(buffer, cursor + 1)) = Len(buffer) + 1
        /\ Append(buffer, cursor + 1) # <<>>
    BY <1>0, <2>1, Buffered DEF TypeOK
  <2>3. CASE Len(buffer) + 1 >= BatchSize
    <3>1. Enqueue(Append(buffer, cursor + 1)) /\ buffer' = <<>> /\ left' = Timeout /\ waited' = 0
      BY <1>3, <2>3 DEF RecvOk
    <3>2. handed' \in Seq(Results) /\ batches' \in Nat
      BY <1>0, <2>2, <3>1, EnqueueHands
    <3> QED
      BY <1>a, <1>3, <2>1, <3>1, <3>2 DEF RecvOk, hubVars, BufferInv, TypeOK
  <2>4. CASE ~(Len(buffer) + 1 >= BatchSize)
    <3>1. /\ cursor' = cursor + 1 /\ buffer' = Append(buffer, cursor + 1)
          /\ UNCHANGED <<sent, open, bpc, left, missed, handed, batches, waited>>
      BY <1>3, <2>4 DEF RecvOk, hubVars
    <3>2. buffer' \in Seq(Results) /\ Len(buffer') < BatchSize /\ buffer' # <<>>
      BY <1>0, <2>2, <2>4, <3>1 DEF BufferInv
    <3> QED
      BY <2>1, <3>1, <3>2 DEF BufferInv, TypeOK
  <2> QED
    BY <2>3, <2>4
<1>4. CASE RecvLagged
  BY <1>0, <1>4, CursorMoves DEF RecvLagged, hubVars, BufferInv, TypeOK
<1>5. CASE RecvClosed
  BY <1>0, <1>a, <1>5, EnqueueHands DEF RecvClosed, hubVars, BufferInv, TypeOK
<1>6. CASE DeadlineFlush
  BY <1>0, <1>a, <1>6, EnqueueHands DEF DeadlineFlush, hubVars, BufferInv, TypeOK
<1>7. CASE Tick
  BY <1>7 DEF Tick, hubVars, BufferInv, TypeOK
<1>8. CASE Finished \/ UNCHANGED vars
  BY <1>8 DEF Finished, vars, hubVars, BufferInv, TypeOK
<1> QED
  BY <1>1, <1>2, <1>3, <1>4, <1>5, <1>6, <1>7, <1>8 DEF Next

\* The invariant holds at all times.
LEMMA AlwaysBufferInv == Spec => []BufferInv
  BY BufferInvInit, BufferInvNext, PTL DEF Spec

\* Every variable keeps its type, and the receiver never runs ahead of the hub.
THEOREM TypeCorrect == Spec => []TypeOK
<1>1. BufferInv => TypeOK
  BY DEF BufferInv
<1> QED
  BY AlwaysBufferInv, <1>1, PTL

\* A batch that run_batcher gives to the queue has between one and batch_size results.
THEOREM BatchSizesAreRight == Spec => BatchesAreBounded
<1>1. ASSUME BufferInv, [Next]_vars
      PROVE  [batches' # batches =>
                 /\ batches' = batches + 1
                 /\ Len(handed') - Len(handed) \in 1 .. BatchSize]_vars
  <2> SUFFICES ASSUME batches' # batches
               PROVE  /\ batches' = batches + 1
                      /\ Len(handed') - Len(handed) \in 1 .. BatchSize
    OBVIOUS
  <2> USE BatcherAssumption
  <2>0. TypeOK /\ batches \in Nat /\ Len(buffer) < BatchSize
        /\ buffer \in Seq(Results) /\ handed \in Seq(Results)
    BY <1>1 DEF BufferInv, TypeOK
  <2>1. ASSUME NEW s \in Seq(Results), Len(s) <= BatchSize, Enqueue(s)
        PROVE  /\ batches' = batches + 1
               /\ Len(handed') - Len(handed) \in 1 .. BatchSize
    <3>1. batches' = batches + 1 /\ s # <<>> /\ handed' = handed \o s
      BY <2>0, <2>1, EnqueueHands
    <3>2. Len(handed \o s) = Len(handed) + Len(s)
      BY <2>0, <2>1, Handed
    <3>3. Len(s) \in Nat /\ Len(s) # 0 /\ Len(handed) \in Nat
      BY <2>0, <3>1
    <3> QED
      BY <2>1, <3>1, <3>2, <3>3
  <2>2. CASE RecvOk
    <3>1. cursor + 1 \in Results
      BY <2>0, <2>2, CursorMoves DEF RecvOk
    <3>2. /\ Append(buffer, cursor + 1) \in Seq(Results)
          /\ Len(Append(buffer, cursor + 1)) = Len(buffer) + 1
      BY <2>0, <3>1, Buffered
    <3>3. Len(Append(buffer, cursor + 1)) <= BatchSize
      BY <2>0, <3>2
    <3>4. Enqueue(Append(buffer, cursor + 1))
      BY <2>2 DEF RecvOk
    <3> QED
      BY <2>1, <3>2, <3>3, <3>4
  <2>3. CASE RecvClosed \/ DeadlineFlush
    <3>1. Enqueue(buffer) /\ Len(buffer) <= BatchSize
      BY <2>0, <2>3 DEF RecvClosed, DeadlineFlush
    <3> QED
      BY <2>0, <2>1, <3>1
  <2>4. CASE Publish \/ DropHub \/ RecvLagged \/ Tick \/ Finished \/ UNCHANGED vars
    BY <2>4 DEF Publish, DropHub, RecvLagged, Tick, Finished, vars
  <2> QED
    BY <1>1, <2>2, <2>3, <2>4 DEF Next
<1> QED
  BY AlwaysBufferInv, <1>1, PTL DEF Spec, BatchesAreBounded

\* The deadline covers every buffered result, for every batch_timeout_ms.
THEOREM NoResultWaitsTooLong == Spec => []FlushedInTime
<1>1. Init => FlushedInTime
  BY DEF Init, FlushedInTime
<1>2. ASSUME BufferInv, FlushedInTime, [Next]_vars PROVE FlushedInTime'
  <2> USE BatcherAssumption
  <2>0. left \in 0 .. Timeout /\ waited \in Nat
    BY <1>2 DEF BufferInv, TypeOK
  <2>1. CASE RecvOk
    <3>1. CASE buffer = <<>>
      BY <1>2, <2>0, <2>1, <3>1 DEF RecvOk, FlushedInTime, BufferInv
    <3>2. CASE buffer # <<>>
      BY <1>2, <2>0, <2>1, <3>2 DEF RecvOk, FlushedInTime
    <3> QED
      BY <3>1, <3>2
  <2>2. CASE RecvClosed \/ DeadlineFlush
    BY <2>2 DEF RecvClosed, DeadlineFlush, FlushedInTime
  <2>3. CASE Tick
    BY <1>2, <2>0, <2>3 DEF Tick, FlushedInTime
  <2>4. CASE Publish \/ DropHub \/ RecvLagged \/ Finished \/ UNCHANGED vars
    BY <1>2, <2>4 DEF Publish, DropHub, RecvLagged, Finished, vars, FlushedInTime
  <2> QED
    BY <1>2, <2>1, <2>2, <2>3, <2>4 DEF Next
<1> QED
  BY AlwaysBufferInv, <1>1, <1>2, PTL DEF Spec

\* A closed queue has been given everything: nothing is buffered or unread, and no
\* publisher is left.
THEOREM ClosedQueueIsComplete == Spec => []CloseMeansFlushed
<1>1. Init => CloseMeansFlushed
  BY DEF Init, CloseMeansFlushed
<1>2. ASSUME BufferInv, CloseMeansFlushed, [Next]_vars PROVE CloseMeansFlushed'
  <2>1. CASE RecvClosed
    <3>1. cursor \in 0 .. sent /\ sent \in Nat
      BY <1>2, BatcherAssumption DEF BufferInv, TypeOK
    <3>2. cursor = sent
      BY <2>1, <3>1 DEF RecvClosed, Unread
    <3> QED
      BY <2>1, <3>2 DEF RecvClosed, hubVars, CloseMeansFlushed
  <2>2. CASE Publish \/ DropHub
    BY <1>2, <2>2 DEF Publish, DropHub, CloseMeansFlushed
  <2>3. CASE RecvOk \/ RecvLagged \/ DeadlineFlush \/ Tick
    BY <2>3 DEF RecvOk, RecvLagged, DeadlineFlush, Tick, CloseMeansFlushed
  <2>4. CASE Finished \/ UNCHANGED vars
    BY <1>2, <2>4 DEF Finished, vars, hubVars, CloseMeansFlushed
  <2> QED
    BY <1>2, <2>1, <2>2, <2>3, <2>4 DEF Next
<1> QED
  BY AlwaysBufferInv, <1>1, <1>2, PTL DEF Spec

\* The elements and the order of a sequence that one more result is appended to.
LEMMA AppendOne ==
    ASSUME NEW s \in Seq(Results), NEW r \in Results
    PROVE  /\ Elements(Append(s, r)) = Elements(s) \cup {r}
           /\ (/\ \A i, j \in 1 .. Len(s) : i < j => s[i] < s[j]
               /\ \A e \in Elements(s) : e < r)
              => \A i, j \in 1 .. Len(Append(s, r)) :
                     i < j => Append(s, r)[i] < Append(s, r)[j]
<1> DEFINE t == Append(s, r)
<1>1. /\ Len(s) \in Nat /\ Len(t) = Len(s) + 1
      /\ \A i \in 1 .. Len(s) : t[i] = s[i]
      /\ t[Len(s) + 1] = r
  OBVIOUS
<1> HIDE DEF t
<1>2. Elements(t) = Elements(s) \cup {r}
  <2>1. Elements(t) \subseteq Elements(s) \cup {r}
    BY <1>1 DEF Elements
  <2>2. Elements(s) \cup {r} \subseteq Elements(t)
    BY <1>1 DEF Elements
  <2> QED
    BY <2>1, <2>2
<1>3. ASSUME \A i, j \in 1 .. Len(s) : i < j => s[i] < s[j],
             \A e \in Elements(s) : e < r,
             NEW i \in 1 .. Len(t), NEW j \in 1 .. Len(t), i < j
      PROVE  t[i] < t[j]
  <2>1. i \in 1 .. Len(s)
    BY <1>1, <1>3
  <2>2. s[i] \in Elements(s)
    BY <2>1 DEF Elements
  <2>3. CASE j \in 1 .. Len(s)
    BY <1>1, <1>3, <2>1, <2>3
  <2>4. CASE j = Len(s) + 1
    BY <1>1, <1>3, <2>1, <2>2, <2>4
  <2> QED
    BY <1>1, <2>3, <2>4
<1> QED
  BY <1>2, <1>3 DEF t

\* Handing a buffer over changes neither what was taken nor its order.
LEMMA FlushKeepsTaken ==
    ASSUME TypeOK, Enqueue(buffer), buffer' = <<>>
    PROVE  Taken' = Taken
<1>1. handed \in Seq(Results) /\ buffer \in Seq(Results)
  BY DEF TypeOK
<1>2. handed' = handed \o buffer
  BY <1>1, EnqueueHands
<1>3. handed \o buffer \in Seq(Results)
  BY <1>1, Handed
<1>4. (handed \o buffer) \o <<>> = handed \o buffer
  BY <1>3, ConcatEmptySeq
<1> QED
  BY <1>2, <1>4 DEF Taken

\* Receiving a result appends it to what was taken, flushed at once or not.
LEMMA RecvExtendsTaken ==
    ASSUME TypeOK, RecvOk
    PROVE  /\ cursor + 1 \in Results
           /\ Taken \in Seq(Results)
           /\ Taken' = Append(Taken, cursor + 1)
<1>1. handed \in Seq(Results) /\ buffer \in Seq(Results) /\ cursor + 1 \in Results
  BY CursorMoves DEF TypeOK, RecvOk
<1> DEFINE more == Append(buffer, cursor + 1)
<1>2. Taken \in Seq(Results) /\ more \in Seq(Results)
  BY <1>1, Handed, Buffered DEF Taken
<1>3. handed \o more = Append(handed \o buffer, cursor + 1)
  <2>1. /\ handed \o more \in Seq(Results)
        /\ Append(handed \o buffer, cursor + 1) \in Seq(Results)
    BY <1>1, <1>2, Handed, Buffered DEF Taken
  <2>2. Len(handed \o more) = Len(Append(handed \o buffer, cursor + 1))
    BY <1>1, <1>2, Handed, Buffered DEF Taken
  <2>3. \A i \in 1 .. Len(handed \o more) :
            (handed \o more)[i] = Append(handed \o buffer, cursor + 1)[i]
    BY <1>1
  <2> QED
    BY <2>1, <2>2, <2>3, SeqEqual
<1>4. CASE Len(buffer) + 1 >= BatchSize
  <2>1. Enqueue(more) /\ buffer' = <<>>
    BY <1>4 DEF RecvOk
  <2>2. handed' = handed \o more
    BY <1>2, <2>1, EnqueueHands
  <2>3. (handed \o more) \o <<>> = handed \o more
    BY <1>1, <1>2, Handed, ConcatEmptySeq
  <2> QED
    BY <1>1, <1>2, <1>3, <2>1, <2>2, <2>3 DEF Taken
<1>5. CASE ~(Len(buffer) + 1 >= BatchSize)
  <2>1. buffer' = more /\ handed' = handed
    BY <1>5 DEF RecvOk
  <2> QED
    BY <1>1, <1>2, <1>3, <2>1 DEF Taken
<1> QED
  BY <1>4, <1>5

\* Whatever flushes and lag it goes through, each result is taken once and in order, or
\* reported as missed.
THEOREM NoResultLostOrRepeated == Spec => []EachResultOnce
<1>1. Init => EachResultOnce
  <2> SUFFICES ASSUME Init PROVE EachResultOnce
    OBVIOUS
  <2>1. Taken = <<>> /\ missed = {} /\ cursor = 0
    BY ConcatEmptySeq DEF Init, Taken
  <2>2. Len(<<>>) = 0 /\ 1 .. 0 = {} /\ Elements(<<>>) = {}
    BY DEF Elements
  <2> QED
    BY <2>1, <2>2 DEF EachResultOnce
<1>2. ASSUME BufferInv, EachResultOnce, [Next]_vars PROVE EachResultOnce'
  <2>0. TypeOK /\ cursor \in Nat
    BY <1>2, BatcherAssumption DEF BufferInv, TypeOK
  <2>1. CASE RecvOk
    <3>1. cursor + 1 \in Results /\ Taken \in Seq(Results)
          /\ Taken' = Append(Taken, cursor + 1)
      BY <2>0, <2>1, RecvExtendsTaken
    <3>2. cursor' = cursor + 1 /\ missed' = missed
      BY <2>1 DEF RecvOk
    <3>3. \A e \in Elements(Taken) \cup missed : e < cursor + 1
      BY <1>2, <2>0 DEF EachResultOnce
    <3>4. \A i, j \in 1 .. Len(Taken') : i < j => Taken'[i] < Taken'[j]
      BY <1>2, <3>1, <3>3, AppendOne DEF EachResultOnce
    <3>5. Elements(Taken') = Elements(Taken) \cup {cursor + 1}
      BY <3>1, AppendOne
    <3>6. Elements(Taken') \cup missed' = 1 .. cursor'
      BY <1>2, <2>0, <3>2, <3>5 DEF EachResultOnce
    <3>7. Elements(Taken') \cap missed' = {}
      BY <1>2, <2>0, <3>2, <3>3, <3>5 DEF EachResultOnce
    <3> QED
      BY <3>4, <3>6, <3>7 DEF EachResultOnce, Elements
  <2>2. CASE RecvLagged
    <3>1. /\ cursor < sent - Slots /\ sent - Slots \in Nat
          /\ cursor' = sent - Slots
          /\ missed' = missed \cup (cursor + 1 .. sent - Slots)
          /\ Taken' = Taken
      BY <2>0, <2>2, CursorMoves, BatcherAssumption DEF RecvLagged, TypeOK, Taken
    <3>2. 1 .. cursor' = 1 .. cursor \cup (cursor + 1 .. sent - Slots)
      BY <2>0, <3>1
    <3>3. Elements(Taken) \cap (cursor + 1 .. sent - Slots) = {}
      BY <1>2, <2>0 DEF EachResultOnce
    <3> QED
      BY <1>2, <3>1, <3>2, <3>3 DEF EachResultOnce, Elements
  <2>3. CASE RecvClosed \/ DeadlineFlush
    <3>1. Taken' = Taken
      BY <2>0, <2>3, FlushKeepsTaken DEF RecvClosed, DeadlineFlush
    <3>2. missed' = missed /\ cursor' = cursor
      BY <2>3 DEF RecvClosed, DeadlineFlush
    <3> QED
      BY <1>2, <3>1, <3>2 DEF EachResultOnce, Elements
  <2>4. CASE Publish \/ DropHub \/ Tick \/ Finished \/ UNCHANGED vars
    <3>1. Taken' = Taken /\ missed' = missed /\ cursor' = cursor
      BY <2>4 DEF Publish, DropHub, Tick, Finished, vars, Taken
    <3> QED
      BY <1>2, <3>1 DEF EachResultOnce, Elements
  <2> QED
    BY <1>2, <2>1, <2>2, <2>3, <2>4 DEF Next
<1> QED
  BY AlwaysBufferInv, <1>1, <1>2, PTL DEF Spec
==============================================================================
