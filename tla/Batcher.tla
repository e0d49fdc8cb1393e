------------------------------- MODULE Batcher -------------------------------
(***************************************************************************)
(* The event hub (huginn-core/src/event.rs, a tokio broadcast channel) and *)
(* the batcher that reads it for InfluxDB (run_batcher and enqueue in      *)
(* huginn-influx/src/writer.rs): a receive loop that flushes a buffer on   *)
(* size, on a deadline and when the hub closes.                            *)
(*                                                                         *)
(* Results are numbered in the order of publication.  The channel keeps    *)
(* the last Slots of them for each receiver; a receiver that is further    *)
(* behind is told how many it missed and continues with the oldest kept.   *)
(* Each arm of the select is one step: none of them awaits.                *)
(***************************************************************************)
EXTENDS Naturals, Sequences

CONSTANTS
    NResults,    \* bound: how many results are published
    Slots,       \* event_hub_capacity, which tokio rounds up to a power of two
    BatchSize,   \* influx.batch_size
    Timeout      \* influx.batch_timeout_ms, in ticks

\* AppConfig::validate rejects a zero for each of the three settings.
ASSUME BatcherAssumption ==
    /\ NResults \in Nat
    /\ Slots \in Nat \ {0}
    /\ BatchSize \in Nat \ {0}
    /\ Timeout \in Nat \ {0}

VARIABLES
    \* EventHub and the batcher's receiver
    sent,        \* results published so far
    open,        \* some Arc<EventHub> is alive
    cursor,      \* the last result the receiver has consumed or missed
    \* run_batcher
    bpc,         \* "run" or "done"
    buffer,      \* results taken and not yet flushed
    left,        \* ticks until flush_deadline completes; 0: it is ready
    \* history
    missed,      \* results reported as Lagged
    handed,      \* the results handed to the queue, batch after batch
    batches,     \* how many batches that were
    waited       \* ticks since the oldest result in the buffer was taken

hubVars == <<sent, open>>
vars    == <<hubVars, cursor, bpc, buffer, left, missed, handed, batches, waited>>

Results == 1 .. NResults

Init ==
    /\ sent = 0 /\ open = TRUE
    /\ cursor = 0
    /\ bpc = "run" /\ buffer = <<>> /\ left = Timeout
    /\ missed = {} /\ handed = <<>> /\ batches = 0 /\ waited = 0

-----------------------------------------------------------------------------
(* EventHub *)

\* EventHub::publish never blocks and never fails.
Publish ==
    /\ open /\ sent < NResults
    /\ sent' = sent + 1
    /\ UNCHANGED <<open, cursor, bpc, buffer, left, missed, handed, batches, waited>>

\* The last Arc<EventHub> is dropped, and with it the Sender.
DropHub ==
    /\ open
    /\ open' = FALSE
    /\ UNCHANGED <<sent, cursor, bpc, buffer, left, missed, handed, batches, waited>>

\* The receiver's view of the channel: what it reads next may be overwritten already.
Unread  == cursor < sent
Lagging == sent - cursor > Slots

-----------------------------------------------------------------------------
(* Faults: variants of the operators below with a plausible bug in them.  None is part *)
(* of Spec; putting one in the place of the operator it is named after breaks the      *)
(* property named in its comment, which shows what that property guards against.       *)

\* RecvOk, each result pushes the deadline back: FlushedInTime.
RecvOkDebounces ==
    /\ bpc = "run" /\ Unread /\ ~Lagging
    /\ cursor' = cursor + 1
    /\ IF Len(buffer) + 1 >= BatchSize
       THEN buffer' = <<>> /\ handed' = Append(handed \o buffer, cursor + 1)
            /\ batches' = batches + 1 /\ waited' = 0
       ELSE buffer' = Append(buffer, cursor + 1) /\ UNCHANGED <<handed, batches, waited>>
    /\ left' = Timeout
    /\ UNCHANGED <<hubVars, bpc, missed>>

\* RecvOk, flushes what was buffered and forgets the result that filled it: EachResultOnce.
RecvOkDropsLast ==
    /\ bpc = "run" /\ Unread /\ ~Lagging
    /\ cursor' = cursor + 1
    /\ IF Len(buffer) + 1 >= BatchSize
       THEN buffer' = <<>> /\ handed' = handed \o buffer
            /\ batches' = batches + 1 /\ left' = Timeout /\ waited' = 0
       ELSE buffer' = Append(buffer, cursor + 1)
            /\ UNCHANGED <<handed, batches, left, waited>>
    /\ UNCHANGED <<hubVars, bpc, missed>>

\* RecvLagged, treated like the end of the channel: CloseMeansFlushed.
RecvLaggedExits ==
    /\ bpc = "run" /\ Lagging
    /\ bpc' = "done"
    /\ UNCHANGED <<hubVars, cursor, buffer, left, missed, handed, batches, waited>>

\* RecvLagged, retried without moving the cursor: CloseReachesQueue.
RecvLaggedStays ==
    /\ bpc = "run" /\ Lagging
    /\ UNCHANGED vars

\* DeadlineFlush, armed once and never again: EveryResultHandedOver.
DeadlineFlushOnce ==
    /\ bpc = "run" /\ left = 0 /\ batches = 0
    /\ handed' = handed \o buffer
    /\ batches' = IF buffer = <<>> THEN 0 ELSE 1
    /\ buffer' = <<>> /\ waited' = 0
    /\ UNCHANGED <<hubVars, cursor, bpc, left, missed>>

-----------------------------------------------------------------------------
(* run_batcher *)

\* enqueue: nothing for an empty buffer, otherwise one batch for the queue.
Enqueue(results) ==
    IF results = <<>>
    THEN UNCHANGED <<handed, batches>>
    ELSE handed' = handed \o results /\ batches' = batches + 1

\* Ok(result): buffered, and flushed when that makes the batch full.
RecvOk ==
    /\ bpc = "run" /\ Unread /\ ~Lagging
    /\ cursor' = cursor + 1
    /\ IF Len(buffer) + 1 >= BatchSize
       THEN /\ Enqueue(Append(buffer, cursor + 1))
            /\ buffer' = <<>> /\ left' = Timeout /\ waited' = 0
       ELSE /\ buffer' = Append(buffer, cursor + 1)
            /\ UNCHANGED <<left, handed, batches, waited>>
    /\ UNCHANGED <<hubVars, bpc, missed>>

\* Err(Lagged(n)): only logged; the next recv returns the oldest result still kept.
RecvLagged ==
    /\ bpc = "run" /\ Lagging
    /\ missed' = missed \cup (cursor + 1 .. sent - Slots)
    /\ cursor' = sent - Slots
    /\ UNCHANGED <<hubVars, bpc, buffer, left, handed, batches, waited>>

\* Err(Closed): everything was read and no sender is left; flush, close the queue, exit.
RecvClosed ==
    /\ bpc = "run" /\ ~Unread /\ ~open
    /\ Enqueue(buffer)
    /\ buffer' = <<>> /\ waited' = 0
    /\ bpc' = "done"
    /\ UNCHANGED <<hubVars, cursor, left, missed>>

\* flush_deadline completed.
DeadlineFlush ==
    /\ bpc = "run" /\ left = 0
    /\ Enqueue(buffer)
    /\ buffer' = <<>> /\ left' = Timeout /\ waited' = 0
    /\ UNCHANGED <<hubVars, cursor, bpc, missed>>

\* Time passes.  Beyond the deadline only the scheduling of the task is late.
Tick ==
    /\ bpc = "run" /\ left > 0
    /\ left' = left - 1
    /\ waited' = IF buffer = <<>> THEN 0 ELSE waited + 1
    /\ UNCHANGED <<hubVars, cursor, bpc, buffer, missed, handed, batches>>

\* The task has returned, which it does only when nobody can publish any more.
Finished == bpc = "done" /\ UNCHANGED vars

Next ==
    \/ Publish \/ DropHub
    \/ RecvOk \/ RecvLagged \/ RecvClosed \/ DeadlineFlush
    \/ Tick \/ Finished

Spec == Init /\ [][Next]_vars

\* Time passes and the task is polled; select! picks at random among the arms that are
\* ready, so an arm that stays ready is chosen in the end.
Fairness ==
    /\ WF_vars(RecvOk) /\ WF_vars(RecvLagged) /\ WF_vars(RecvClosed)
    /\ WF_vars(DeadlineFlush) /\ WF_vars(Tick)

FairSpec == Spec /\ Fairness

-----------------------------------------------------------------------------
(* Properties *)

Elements(s) == {s[i] : i \in 1 .. Len(s)}

\* Every result that went past the receiver without being missed, in the order taken.
Taken == handed \o buffer

\* The types of all variables; the cursor never runs ahead of the hub.
TypeOK ==
    /\ sent \in 0 .. NResults /\ open \in BOOLEAN
    /\ cursor \in 0 .. sent
    /\ bpc \in {"run", "done"}
    /\ buffer \in Seq(Results) /\ handed \in Seq(Results)
    /\ left \in 0 .. Timeout
    /\ missed \subseteq Results
    /\ batches \in Nat /\ waited \in Nat

\* Every result published is, up to the receiver's cursor, either reported as missed or
\* handed over or buffered, exactly once and in the order of publication, whichever of
\* the three flushes and the lag handling it went through.
EachResultOnce ==
    /\ \A i, j \in 1 .. Len(Taken) : i < j => Taken[i] < Taken[j]
    /\ Elements(Taken) \cup missed = 1 .. cursor
    /\ Elements(Taken) \cap missed = {}

\* A batch given to the queue is never empty (the queue's byte accounting and the body
\* of the write request rely on it) and never larger than batch_size.
BatchesAreBounded ==
    [][batches' # batches =>
           /\ batches' = batches + 1
           /\ Len(handed') - Len(handed) \in 1 .. BatchSize]_vars

\* The deadline covers every buffered result: none waits for longer than
\* batch_timeout_ms before the flush is due, however results trickle in.
FlushedInTime ==
    buffer # <<>> => waited + left <= Timeout

\* When the queue is closed nothing is left behind, neither in the buffer nor unread in
\* the channel, and nobody can publish any more.
CloseMeansFlushed ==
    bpc = "done" => buffer = <<>> /\ cursor = sent /\ ~open

\* The batcher notices that the hub is gone, also when it has fallen behind.
CloseReachesQueue == ~open ~> bpc = "done"

\* Each result is handed to the queue or reported as missed in the end, also when no
\* further result and no shutdown ever comes.
EveryResultHandedOver ==
    \A r \in Results : (r <= sent) ~> (r \in Elements(handed) \cup missed)
=============================================================================
