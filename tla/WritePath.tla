------------------------------ MODULE WritePath ------------------------------
(***************************************************************************)
(* The retry queue between the batcher and the InfluxDB writer             *)
(* (huginn-influx/src/queue.rs), the push/close side of run_batcher and    *)
(* the whole of run_writer (huginn-influx/src/writer.rs), at the grain at  *)
(* which the two tasks, which run on different worker threads, can see     *)
(* each other: one step per critical section, atomic access, Notify        *)
(* operation or await.                                                     *)
(*                                                                         *)
(* A batch is its sequence number.  RetryQueue::push holds the mutex over  *)
(* its eviction loop, but every eviction updates the shared counters at    *)
(* once, so the loop is one step per evicted batch (bpc = "evict" is "the  *)
(* batcher holds the mutex"); pop_if_front is one step.                    *)
(***************************************************************************)
EXTENDS Naturals, Sequences, FiniteSets

CONSTANTS
    NBatches,   \* bound: how many batches the batcher hands over
    Offset,     \* Offset[b]: bytes of all batches before batch b
    Capacity    \* max_buffered_bytes

Batches == 1 .. NBatches

Size(b) == Offset[b + 1] - Offset[b]

\* Batches are rendered from a non-empty buffer, so each has at least one byte.
ASSUME WritePathAssumption ==
    /\ NBatches \in Nat
    /\ Capacity \in Nat
    /\ Offset \in [1 .. NBatches + 1 -> Nat]
    /\ \A a, b \in 1 .. NBatches + 1 : a < b => Offset[a] < Offset[b]

VARIABLES
    \* RetryQueue
    queue,      \* inner.batches
    bytes,      \* inner.bytes
    closed,     \* the AtomicBool
    permit,     \* Notify: a notify_one nobody has consumed yet
    waiter,     \* Notify: the writer's Notified future
    \* WriteStats
    stats,
    \* run_batcher
    bpc,
    pushed,     \* batches appended so far; the next one is pushed + 1
    \* run_writer
    wpc,
    held,       \* the batch the writer holds (an Arc clone), 0 for none
    shutdown,   \* shutdown_rx has a message, or its channel is closed
    \* history: what became of each batch
    evicted,    \* removed by push to make room
    acked,      \* record_written was called for it
    refused,    \* record_rejected was called for it
    stored      \* InfluxDB has accepted its points, whether or not the answer arrived

queueVars   == <<queue, bytes, closed, permit, waiter>>
batcherVars == <<bpc, pushed>>
writerVars  == <<wpc, held>>
history     == <<evicted, acked, refused, stored>>
vars        == <<queueVars, stats, batcherVars, writerVars, shutdown, history>>

None == 0

\* The writer's position: inside wait_for_batch, in the retry loop, or returned.
Waiting  == {"peek", "checkClosed", "register", "recheck", "recheckClosed", "poll", "parked"}
Retrying == {"write", "backoff", "pop"}
Returned == {"drained", "abandoned"}

\* bpc = "evict": the batcher is inside push and holds the mutex.
Locked == bpc = "evict"

StatsType == [depthBatches : Nat, depthBytes : Nat, droppedBatches : Nat,
              droppedBytes : Nat, writtenBatches : Nat, writtenBytes : Nat,
              rejectedBatches : Nat]

Init ==
    /\ queue = <<>> /\ bytes = 0 /\ closed = FALSE
    /\ permit = FALSE /\ waiter = "none"
    /\ stats = [depthBatches |-> 0, depthBytes |-> 0, droppedBatches |-> 0,
                droppedBytes |-> 0, writtenBatches |-> 0, writtenBytes |-> 0,
                rejectedBatches |-> 0]
    /\ bpc = "run" /\ pushed = 0
    /\ wpc = "peek" /\ held = None
    /\ shutdown = FALSE
    /\ evicted = {} /\ acked = {} /\ refused = {} /\ stored = {}

-----------------------------------------------------------------------------
(* Faults: variants of the operators below with a plausible bug in them.  None is part *)
(* of Spec; putting one in the place of the operator it is named after breaks the      *)
(* property named in its comment, which shows what that property guards against.       *)

\* MustEvict, the incoming batch is not counted: CapacityBound.
MustEvictTooLate == queue # <<>> /\ bytes > Capacity

\* MustEvict, a batch that fits exactly is refused its room: ImplementsFifo.
MustEvictTooEarly == queue # <<>> /\ bytes + Size(pushed + 1) >= Capacity

\* NotifyOne, like notify_waiters it stores no permit: NoLostWakeup.
NotifyOneNoPermit ==
    /\ bpc = "notify"
    /\ waiter' = IF waiter = "parked" THEN "notified" ELSE waiter
    /\ bpc' = "run"
    /\ UNCHANGED <<queue, bytes, closed, permit, stats, pushed, writerVars, shutdown, history>>

\* NotifyWaiters, reaches only futures that were already polled: ReturnsAfterShutdown.
NotifyWaitersParkedOnly ==
    /\ bpc = "wake"
    /\ waiter' = IF waiter = "parked" THEN "notified" ELSE waiter
    /\ bpc' = "done"
    /\ UNCHANGED <<queue, bytes, closed, permit, stats, pushed, writerVars, shutdown, history>>

\* WriteOk, counts only a batch that is still in front: CountersAgree.
WriteOkCountsFrontOnly ==
    /\ wpc = "write"
    /\ stored' = stored \cup {held}
    /\ acked' = acked \cup {held}
    /\ stats' = IF queue # <<>> /\ Head(queue) = held
                THEN [stats EXCEPT !.writtenBatches = @ + 1, !.writtenBytes = @ + Size(held)]
                ELSE stats
    /\ wpc' = "pop"
    /\ UNCHANGED <<queueVars, batcherVars, held, shutdown, evicted, refused>>

\* WriteRefused, a permanent refusal is retried: LeavesQueueIfOutagesEnd.
WriteRefusedRetried ==
    /\ wpc = "write"
    /\ wpc' = "backoff"
    /\ UNCHANGED <<queueVars, stats, batcherVars, held, shutdown, history>>

\* PopIfFront, pops whatever is in front: NoSilentLoss.
PopWhateverIsFront ==
    /\ wpc = "pop" /\ bpc # "evict"
    /\ IF queue # <<>>
       THEN /\ queue' = Tail(queue)
            /\ bytes' = bytes - Size(Head(queue))
       ELSE UNCHANGED <<queue, bytes>>
    /\ wpc' = "peek" /\ held' = None
    /\ UNCHANGED <<closed, permit, waiter, stats, batcherVars, shutdown, history>>

\* PopIfFront, forgets to update inner.bytes: ByteAccounting.
PopIfFrontKeepsBytes ==
    /\ wpc = "pop" /\ bpc # "evict"
    /\ queue' = IF queue # <<>> /\ Head(queue) = held THEN Tail(queue) ELSE queue
    /\ wpc' = "peek" /\ held' = None
    /\ UNCHANGED <<bytes, closed, permit, waiter, stats, batcherVars, shutdown, history>>

\* PopIfFront is forgotten on the way out of the retry loop: TakenInOrder.
PopForgotten ==
    /\ wpc = "pop"
    /\ wpc' = "peek" /\ held' = None
    /\ UNCHANGED <<queueVars, stats, batcherVars, shutdown, history>>

-----------------------------------------------------------------------------
(* run_batcher: enqueue -> RetryQueue::push, and close *)

\* push takes the mutex.
PushLock ==
    /\ bpc = "run" /\ pushed < NBatches
    /\ bpc' = "evict"
    /\ UNCHANGED <<queueVars, stats, pushed, writerVars, shutdown, history>>

\* The guard of the eviction loop: the next batch does not fit beside what is there.
MustEvict == queue # <<>> /\ bytes + Size(pushed + 1) > Capacity

\* One round of the eviction loop, record_eviction included.
EvictOldest ==
    /\ bpc = "evict"
    /\ MustEvict
    /\ queue' = Tail(queue)
    /\ bytes' = bytes - Size(Head(queue))
    /\ stats' = [stats EXCEPT !.droppedBatches = @ + 1,
                              !.droppedBytes = @ + Size(Head(queue))]
    /\ evicted' = evicted \cup {Head(queue)}
    /\ UNCHANGED <<closed, permit, waiter, batcherVars, writerVars, shutdown,
                   acked, refused, stored>>

\* push_back and set_queue_depth, then the mutex is released.
PushBack ==
    /\ bpc = "evict"
    /\ ~MustEvict
    /\ queue' = Append(queue, pushed + 1)
    /\ bytes' = bytes + Size(pushed + 1)
    /\ stats' = [stats EXCEPT !.depthBatches = Len(queue) + 1,
                              !.depthBytes = bytes + Size(pushed + 1)]
    /\ pushed' = pushed + 1
    /\ bpc' = "notify"
    /\ UNCHANGED <<closed, permit, waiter, writerVars, shutdown, history>>

\* Notify::notify_one, after the mutex was released: a parked waiter is woken,
\* otherwise one permit is stored for the next poll.
NotifyOne ==
    /\ bpc = "notify"
    /\ IF waiter = "parked"
       THEN waiter' = "notified" /\ UNCHANGED permit
       ELSE permit' = TRUE /\ UNCHANGED waiter
    /\ bpc' = "run"
    /\ UNCHANGED <<queue, bytes, closed, stats, pushed, writerVars, shutdown, history>>

\* The channel is closed and the last flush is done: RetryQueue::close stores the flag ...
Close ==
    /\ bpc = "run"
    /\ closed' = TRUE
    /\ bpc' = "wake"
    /\ UNCHANGED <<queue, bytes, permit, waiter, stats, pushed, writerVars, shutdown, history>>

\* ... and wakes every waiter that exists, parked or not yet polled.  No permit is stored.
NotifyWaiters ==
    /\ bpc = "wake"
    /\ waiter' = IF waiter \in {"created", "parked"} THEN "notified" ELSE waiter
    /\ bpc' = "done"
    /\ UNCHANGED <<queue, bytes, closed, permit, stats, pushed, writerVars, shutdown, history>>

Batcher == PushLock \/ EvictOldest \/ PushBack \/ NotifyOne \/ Close \/ NotifyWaiters

-----------------------------------------------------------------------------
(* run_writer: RetryQueue::wait_for_batch *)

\* peek under the mutex: a batch is taken by reference, or the wait goes on at `empty`.
PeekOr(empty) ==
    /\ ~Locked
    /\ IF queue = <<>>
       THEN wpc' = empty /\ UNCHANGED <<held, waiter>>
       ELSE wpc' = "write" /\ held' = Head(queue) /\ waiter' = "none"
    /\ UNCHANGED <<queue, bytes, closed, permit, stats, batcherVars, shutdown, history>>

\* closed.load: return None, or the wait goes on at `open`.
ClosedOr(open) ==
    /\ IF closed
       THEN wpc' = "drained" /\ waiter' = "none"
       ELSE wpc' = open /\ UNCHANGED waiter
    /\ UNCHANGED <<queue, bytes, closed, permit, stats, batcherVars, held, shutdown, history>>

Peek          == wpc = "peek" /\ PeekOr("checkClosed")
CheckClosed   == wpc = "checkClosed" /\ ClosedOr("register")

\* notify.notified(): from here on notify_waiters reaches the future.
Register ==
    /\ wpc = "register"
    /\ waiter' = "created" /\ wpc' = "recheck"
    /\ UNCHANGED <<queue, bytes, closed, permit, stats, batcherVars, held, shutdown, history>>

Recheck       == wpc = "recheck" /\ PeekOr("recheckClosed")
RecheckClosed == wpc = "recheckClosed" /\ ClosedOr("poll")

\* notified.await, first poll: a stored permit is consumed, a notification that
\* already arrived completes it, otherwise the task parks.
Poll ==
    /\ wpc = "poll"
    /\ IF permit \/ waiter = "notified"
       THEN wpc' = "peek" /\ waiter' = "none" /\ permit' = FALSE
       ELSE wpc' = "parked" /\ waiter' = "parked" /\ UNCHANGED permit
    /\ UNCHANGED <<queue, bytes, closed, stats, batcherVars, held, shutdown, history>>

Wake ==
    /\ wpc = "parked" /\ waiter = "notified"
    /\ wpc' = "peek" /\ waiter' = "none"
    /\ UNCHANGED <<queue, bytes, closed, permit, stats, batcherVars, held, shutdown, history>>

(* run_writer: the retry loop *)

\* A 2xx answer, then record_written; the pop is a step of its own.
WriteOk ==
    /\ wpc = "write"
    /\ stored' = stored \cup {held}
    /\ acked' = acked \cup {held}
    /\ stats' = [stats EXCEPT !.writtenBatches = @ + 1, !.writtenBytes = @ + Size(held)]
    /\ wpc' = "pop"
    /\ UNCHANGED <<queueVars, batcherVars, held, shutdown, evicted, refused>>

\* A 4xx other than 408 and 429: not retryable, record_rejected.
WriteRefused ==
    /\ wpc = "write"
    /\ refused' = refused \cup {held}
    /\ stats' = [stats EXCEPT !.rejectedBatches = @ + 1]
    /\ wpc' = "pop"
    /\ UNCHANGED <<queueVars, batcherVars, held, shutdown, evicted, acked, stored>>

\* Transport error, timeout, 5xx, 408 or 429.  The points may have been stored:
\* an answer that is lost or late looks the same as a request that never arrived.
WriteFailed ==
    /\ wpc = "write"
    /\ stored' \in {stored, stored \cup {held}}
    /\ wpc' = "backoff"
    /\ UNCHANGED <<queueVars, stats, batcherVars, held, shutdown, evicted, acked, refused>>

\* pop_if_front: the batch is removed only if it is still the front one.
PopIfFront ==
    /\ wpc = "pop" /\ ~Locked
    /\ IF queue # <<>> /\ Head(queue) = held
       THEN /\ queue' = Tail(queue)
            /\ bytes' = bytes - Size(held)
            /\ stats' = [stats EXCEPT !.depthBatches = Len(queue) - 1,
                                      !.depthBytes = bytes - Size(held)]
       ELSE UNCHANGED <<queue, bytes, stats>>
    /\ wpc' = "peek" /\ held' = None
    /\ UNCHANGED <<closed, permit, waiter, batcherVars, shutdown, history>>

\* The backoff select: the sleep ends, or the shutdown message is received.
BackoffElapsed ==
    /\ wpc = "backoff"
    /\ wpc' = "write"
    /\ UNCHANGED <<queueVars, stats, batcherVars, held, shutdown, history>>

BackoffShutdown ==
    /\ wpc = "backoff" /\ shutdown
    /\ wpc' = "abandoned" /\ held' = None
    /\ UNCHANGED <<queueVars, stats, batcherVars, shutdown, history>>

Wait   == Peek \/ CheckClosed \/ Register \/ Recheck \/ RecheckClosed \/ Poll \/ Wake
Write  == WriteOk \/ WriteRefused \/ WriteFailed
Writer == Wait \/ Write \/ PopIfFront \/ BackoffElapsed \/ BackoffShutdown

\* SIGTERM or Ctrl+C arrives (wait_for_shutdown_signal) and main's signal task passes it on.
Signal ==
    /\ ~shutdown
    /\ shutdown' = TRUE
    /\ UNCHANGED <<queueVars, stats, batcherVars, writerVars, history>>

\* Both tasks have returned: nothing further happens on the write path.
Finished ==
    /\ bpc = "done" /\ wpc \in Returned /\ shutdown
    /\ UNCHANGED vars

Next == Batcher \/ Writer \/ Signal \/ Finished

Spec == Init /\ [][Next]_vars

\* The runtime keeps polling both tasks: a started push or close completes, a write
\* ends within HTTP_TIMEOUT, a sleep elapses.  Nothing is assumed about when the next
\* batch, the close or the signal comes.  A pending shutdown message is ready on every
\* poll of the backoff select, while the sleep is ready at once only for a zero delay
\* (Retry-After: 0), and then select! picks at random: hence strong fairness.
Fairness ==
    /\ WF_vars(EvictOldest \/ PushBack \/ NotifyOne \/ NotifyWaiters)
    /\ WF_vars(Wait)
    /\ WF_vars(Write)
    /\ WF_vars(PopIfFront)
    /\ WF_vars(BackoffElapsed)
    /\ SF_vars(BackoffShutdown)

FairSpec == Spec /\ Fairness

-----------------------------------------------------------------------------
(* Properties *)

InQueue == {queue[i] : i \in 1 .. Len(queue)}

\* The types of all variables.
TypeOK ==
    /\ queue \in Seq(Batches) /\ bytes \in Nat
    /\ closed \in BOOLEAN /\ permit \in BOOLEAN
    /\ waiter \in {"none", "created", "parked", "notified"}
    /\ stats \in StatsType
    /\ bpc \in {"run", "evict", "notify", "wake", "done"}
    /\ pushed \in 0 .. NBatches
    /\ wpc \in Waiting \cup Retrying \cup Returned
    /\ held \in Batches \cup {None}
    /\ shutdown \in BOOLEAN
    /\ evicted \subseteq Batches /\ acked \subseteq Batches
    /\ refused \subseteq Batches /\ stored \subseteq Batches

\* Drop-oldest: whatever the interleaving of evictions and pops, the queue is the
\* unbroken run of the most recent batches; nothing is lost from its middle or new end.
MostRecentWindow ==
    \A i \in 1 .. Len(queue) : queue[i] = pushed - Len(queue) + i

\* inner.bytes is the size of exactly the batches in the queue, in the middle of an
\* eviction loop too: the two subtractions and the addition never drift apart.
ByteAccounting ==
    bytes = Offset[pushed + 1] - Offset[pushed + 1 - Len(queue)]

\* max_buffered_bytes holds whenever the queue is not empty-but-for-one-batch: only a
\* batch that is alone may exceed it.
CapacityBound ==
    bytes <= Capacity \/ Len(queue) <= 1

\* No batch vanishes: each one handed over is still queued, or was counted as evicted,
\* or had a verdict from InfluxDB.  This is what pop_if_front's identity check is for.
NoSilentLoss ==
    1 .. pushed \subseteq InQueue \cup evicted \cup acked \cup refused

\* Work that nobody has told the writer about is about to be told: a parked writer has
\* an empty open queue unless the batcher stands just before its notify.
NoLostWakeup ==
    waiter = "parked" =>
        /\ queue # <<>> => bpc = "notify"
        /\ closed => bpc = "wake"

\* Outside push's critical section the published gauges are those of the queue.
DepthPublished ==
    ~Locked => /\ stats.depthBatches = Len(queue)
               /\ stats.depthBytes = bytes

\* Each counter has counted each batch of its kind exactly once, although an evicted
\* batch may also be written and a written one may meanwhile be evicted.
CountersAgree ==
    /\ stats.droppedBatches = Cardinality(evicted)
    /\ stats.writtenBatches = Cardinality(acked)
    /\ stats.rejectedBatches = Cardinality(refused)

\* A batch the writer takes up is newer than every batch that has reached InfluxDB or
\* had a verdict: points arrive in order, and a batch with a verdict is never sent again.
TakenInOrder ==
    [][held' \notin {None, held} =>
           \A b \in acked \cup refused \cup stored : b < held']_vars

\* Once the batcher has closed the queue and the shutdown signal is out, the writer
\* returns, even if InfluxDB never answers again.
ReturnsAfterShutdown == (closed /\ shutdown) ~> (wpc \in Returned)

\* If outages end (attempts are not refused a verdict for ever), a queued batch does not
\* stay queued: neither a missed wakeup nor a poisoned batch at the head can hold it.
LeavesQueueIfOutagesEnd ==
    SF_vars(WriteOk \/ WriteRefused) =>
        \A b \in Batches : (b \in InQueue) ~> (b \notin InQueue \/ wpc \in Returned)

\* The write path is a drop-oldest FIFO: it evicts only when the next batch does not
\* fit and only from the old end, and a batch with a verdict leaves from the old end.
Fifo == INSTANCE DropOldestFifo WITH
            sent <- pushed, pending <- queue, pendingBytes <- bytes, lost <- evicted,
            finished <- (acked \cup refused) \ (InQueue \cup evicted)
ImplementsFifo == Fifo!FifoSpec

\* queue.rs on wait_for_batch: it returns None only when the queue is closed and empty.
DrainedMeansEmpty == wpc = "drained" => queue = <<>>
=============================================================================
