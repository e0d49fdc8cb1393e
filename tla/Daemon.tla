------------------------------- MODULE Daemon -------------------------------
(***************************************************************************)
(* The life of the daemon: the signal task and run() of huginn/src/main.rs *)
(* from startup to the end of the process, the probe loops of              *)
(* huginn/src/scheduler.rs, and the batcher and the writer as far as the   *)
(* shutdown depends on them.                                               *)
(*                                                                         *)
(* Everything that decides whether the process stops, and with what said   *)
(* about it, is here: which receivers exist when the signal is sent, who   *)
(* still holds an Arc<EventHub>, which timeout ends which stage.  The hub  *)
(* is never too small and the queue never full (Batcher and WritePath are  *)
(* about those), and a waiting writer polls instead of being notified      *)
(* (WritePath shows that no notification is missed).                       *)
(***************************************************************************)
EXTENDS Naturals, Sequences

CONSTANTS
    Probes,      \* the configured probes
    Stubborn,    \* those whose poll may fail to return to the runtime for a while
    NResults,    \* bound: results published before the probes run dry
    BatchSize    \* influx.batch_size

ASSUME DaemonAssumption ==
    /\ Stubborn \subseteq Probes
    /\ {"main", "writer"} \cap Probes = {}
    /\ NResults \in Nat
    /\ BatchSize \in Nat \ {0}

VARIABLES
    \* main and run
    mpc,
    probesStopped,   \* what stop_probes returned
    outcome,         \* which of the drain's messages was logged
    \* the shutdown channel (broadcast, capacity 1)
    signalled,       \* the signal has arrived and was sent
    txSignal,        \* the signal task's clone of the sender is alive
    txMain,          \* main's sender is alive
    rx,              \* each receiver: "none", "open" (nothing to read) or "message"
    \* run_probe_loop
    ppc,
    aborted,         \* probes whose JoinHandle::abort was called
    \* the pipeline
    unread,          \* results in the hub the batcher has not received
    bpc, buffered,   \* run_batcher and its buffer
    queue, closed,   \* RetryQueue: the sizes of the queued batches, and the flag
    wpc,             \* run_writer
    published        \* history: results published so far

mainVars  == <<mpc, probesStopped, outcome>>
chanVars  == <<signalled, txSignal, txMain, rx>>
probeVars == <<ppc, aborted>>
pipeVars  == <<unread, bpc, buffered, queue, closed, wpc>>
vars      == <<mainVars, chanVars, probeVars, pipeVars, published>>

Receivers == {"main", "writer"} \cup Probes

\* When run returns, #[tokio::main] tears the runtime down: no task is polled any more
\* (what a task does at that moment is as if it came before), but a poll that is under
\* way is waited for.
Running == mpc \notin {"returned", "exited", "failed"}

\* The process is gone.
Ended == mpc \in {"exited", "failed"}

Init ==
    /\ mpc = "bindHealth" /\ probesStopped = TRUE /\ outcome = "none"
    /\ signalled = FALSE /\ txSignal = TRUE /\ txMain = TRUE
    /\ rx = [r \in Receivers |-> "none"]
    /\ ppc = [p \in Probes |-> "absent"] /\ aborted = {}
    /\ unread = 0 /\ bpc = "absent" /\ buffered = 0
    /\ queue = <<>> /\ closed = FALSE /\ wpc = "absent"
    /\ published = 0

-----------------------------------------------------------------------------
(* The shutdown channel *)

Subscribed(r) == rx' = [rx EXCEPT ![r] = "open"]

\* recv completes: with the message, or with Closed when no sender is left.
Ready(r) == rx[r] = "message" \/ (rx[r] = "open" /\ ~txMain /\ ~txSignal)

\* The signal arrives and is sent to the receivers that exist by now, perhaps to none.
SendSignal ==
    /\ Running /\ ~signalled /\ txSignal
    /\ rx' = [r \in Receivers |-> IF rx[r] = "open" THEN "message" ELSE rx[r]]
    /\ signalled' = TRUE
    /\ UNCHANGED <<mainVars, txSignal, txMain, probeVars, pipeVars, published>>

-----------------------------------------------------------------------------
(* Faults: variants of the operators below with a plausible bug in them.  None is part *)
(* of Spec; putting one in the place of the operator it is named after breaks the      *)
(* property named in its comment, which shows what that property guards against.       *)

\* SignalTaskEnds, the task gives up when no handler can be installed:
\* NoShutdownWithoutSignal.
SignalTaskEndsEarly ==
    /\ Running /\ txSignal
    /\ txSignal' = FALSE
    /\ UNCHANGED <<mainVars, signalled, txMain, rx, probeVars, pipeVars, published>>

\* HubOpen, the probe loops do not count: DrainedMeansFlushed.
HubOpenMainOnly == mpc # "drain"

\* HubOpen, main does not drop its Arc before it waits for the writer: DrainsByItself.
HubOpenUntilReturn == Running

\* ReleaseSender, run keeps shutdown_tx instead of moving it: StopsOnSignal.
ReleaseSenderKeeps ==
    /\ mpc = "spawn"
    /\ \A p \in Probes : ppc[p] # "absent"
    /\ mpc' = "wait"
    /\ UNCHANGED <<probesStopped, outcome, chanVars, probeVars, pipeVars, published>>

\* GraceExpired, reports success although probes had to be aborted: BlamesTheRightStage.
GraceExpiredUnreported ==
    /\ mpc = "stopProbes"
    /\ \E p \in Probes : ppc[p] # "done"
    /\ aborted' = Probes
    /\ mpc' = "dropHub"
    /\ UNCHANGED <<probesStopped, outcome, chanVars, ppc, pipeVars, published>>

-----------------------------------------------------------------------------
(* The signal task ends *)

\* Its clone of the sender is dropped.
SignalTaskEnds ==
    /\ Running /\ signalled /\ txSignal
    /\ txSignal' = FALSE
    /\ UNCHANGED <<mainVars, signalled, txMain, rx, probeVars, pipeVars, published>>

(* run: startup *)

\* A step of run up to the scheduler that may end it with an error: nothing runs yet.
StartupStep(from, to) ==
    /\ mpc = from
    /\ mpc' \in {to, "failed"}
    /\ UNCHANGED <<probesStopped, outcome, chanVars, probeVars, pipeVars, published>>

BindHealth    == StartupStep("bindHealth", "newWriter")
NewWriter     == StartupStep("newWriter", "pipeline")
BindListeners == StartupStep("bindListeners", "receiver")

\* The batcher subscribes to the hub and the writer to the shutdown channel; both run.
SpawnPipeline ==
    /\ mpc = "pipeline"
    /\ Subscribed("writer")
    /\ bpc' = "run" /\ wpc' = "peek"
    /\ mpc' = "bindListeners"
    /\ UNCHANGED <<probesStopped, outcome, signalled, txSignal, txMain, probeVars,
                   unread, buffered, queue, closed, published>>

SubscribeMain ==
    /\ mpc = "receiver"
    /\ Subscribed("main")
    /\ mpc' = "spawn"
    /\ UNCHANGED <<probesStopped, outcome, signalled, txSignal, txMain, probeVars, pipeVars, published>>

\* scheduler::run: a receiver and an Arc<EventHub> for each loop, then the loop.
SpawnProbe(p) ==
    /\ mpc = "spawn" /\ ppc[p] = "absent"
    /\ Subscribed(p)
    /\ ppc' = [ppc EXCEPT ![p] = "tick"]
    /\ UNCHANGED <<mainVars, signalled, txSignal, txMain, aborted, pipeVars, published>>

\* scheduler::run returns; shutdown_tx was moved into it and is dropped.
ReleaseSender ==
    /\ mpc = "spawn"
    /\ \A p \in Probes : ppc[p] # "absent"
    /\ txMain' = FALSE
    /\ mpc' = "wait"
    /\ UNCHANGED <<probesStopped, outcome, signalled, txSignal, rx, probeVars, pipeVars, published>>

(* run: shutdown *)

ReceiveShutdown ==
    /\ mpc = "wait" /\ Ready("main")
    /\ mpc' = "stopProbes"
    /\ UNCHANGED <<probesStopped, outcome, chanVars, probeVars, pipeVars, published>>

\* stop_probes: every handle completed within the grace period ...
AllProbesStopped ==
    /\ mpc = "stopProbes"
    /\ \A p \in Probes : ppc[p] = "done"
    /\ probesStopped' = TRUE
    /\ mpc' = "dropHub"
    /\ UNCHANGED <<outcome, chanVars, probeVars, pipeVars, published>>

\* ... or the one deadline passed while some handle had not, and all are aborted.
GraceExpired ==
    /\ mpc = "stopProbes"
    /\ \E p \in Probes : ppc[p] # "done"
    /\ probesStopped' = FALSE
    /\ aborted' = Probes
    /\ mpc' = "dropHub"
    /\ UNCHANGED <<outcome, chanVars, ppc, pipeVars, published>>

DropHub ==
    /\ mpc = "dropHub"
    /\ mpc' = "drain"
    /\ UNCHANGED <<probesStopped, outcome, chanVars, probeVars, pipeVars, published>>

WriterReturned == wpc \in {"drained", "abandoned"}

\* timeout(drain, writer_handle): the writer task has completed, however it did.
WriterJoined ==
    /\ mpc = "drain" /\ WriterReturned
    /\ outcome' = "clean"
    /\ mpc' = "returned"
    /\ UNCHANGED <<probesStopped, chanVars, probeVars, pipeVars, published>>

\* The drain window closed; the message depends on what stop_probes returned.
DrainTimeout ==
    /\ mpc = "drain" /\ ~WriterReturned
    /\ outcome' = IF probesStopped THEN "unreachable" ELSE "probesAborted"
    /\ mpc' = "returned"
    /\ UNCHANGED <<probesStopped, chanVars, probeVars, pipeVars, published>>

\* The runtime is dropped: its workers are joined, so no poll may be under way.
DropRuntime ==
    /\ mpc = "returned"
    /\ \A p \in Probes : ppc[p] # "blocked"
    /\ mpc' = "exited"
    /\ UNCHANGED <<probesStopped, outcome, chanVars, probeVars, pipeVars, published>>

Startup == BindHealth \/ NewWriter \/ SpawnPipeline \/ BindListeners \/ SubscribeMain
              \/ (\E p \in Probes : SpawnProbe(p)) \/ ReleaseSender

StopProbes == AllProbesStopped \/ GraceExpired

-----------------------------------------------------------------------------
(* run_probe_loop *)

Step(p, from, to) ==
    /\ Running /\ ppc[p] = from
    /\ ppc' = [ppc EXCEPT ![p] = to]
    /\ UNCHANGED <<mainVars, chanVars, aborted>>

\* The first select: the interval, or the shutdown.
Tick(p)     == Step(p, "tick", "probing") /\ UNCHANGED <<pipeVars, published>>
StopIdle(p) == Ready(p) /\ Step(p, "tick", "done") /\ UNCHANGED <<pipeVars, published>>

\* The second select: the probe completes and its result is published, or the shutdown
\* drops it and nothing is published.
Complete(p) ==
    /\ published < NResults
    /\ Step(p, "probing", "tick")
    /\ published' = published + 1
    /\ unread' = unread + 1
    /\ UNCHANGED <<bpc, buffered, queue, closed, wpc>>

StopMidProbe(p) ==
    Ready(p) /\ Step(p, "probing", "done") /\ UNCHANGED <<pipeVars, published>>

\* A poll of the probe does not return for a while: no select arm and no abort is seen.
\* (An aborted task is not polled again.)
Block(p) ==
    /\ p \in Stubborn \ aborted
    /\ Step(p, "probing", "blocked")
    /\ UNCHANGED <<pipeVars, published>>

Unblock(p) == Step(p, "blocked", "probing") /\ UNCHANGED <<pipeVars, published>>

\* A poll that outlived run returns; its task is dropped with the runtime.
UnblockLate(p) ==
    /\ mpc = "returned" /\ ppc[p] = "blocked"
    /\ ppc' = [ppc EXCEPT ![p] = "done"]
    /\ UNCHANGED <<mainVars, chanVars, aborted, pipeVars, published>>

\* An aborted task is dropped at its next await; a poll that is under way still finishes.
Cancel(p) ==
    /\ p \in aborted
    /\ Step(p, "tick", "done") \/ Step(p, "probing", "done")
    /\ UNCHANGED <<pipeVars, published>>

ProbeLoop(p) == \/ Tick(p) \/ StopIdle(p) \/ Complete(p) \/ StopMidProbe(p)
                \/ Block(p) \/ Unblock(p) \/ UnblockLate(p) \/ Cancel(p)

\* Who holds an Arc<EventHub>: run until it drops its own, and each live probe loop.
\* (The web event loop drops the one it is given as soon as it has subscribed.)
HubOpen == mpc # "drain" \/ \E p \in Probes : ppc[p] \in {"tick", "probing", "blocked"}

-----------------------------------------------------------------------------
(* The batcher and the writer *)

\* A result is received; a full buffer becomes a batch.
Receive ==
    /\ Running /\ bpc = "run" /\ unread > 0
    /\ unread' = unread - 1
    /\ IF buffered + 1 >= BatchSize
       THEN queue' = Append(queue, buffered + 1) /\ buffered' = 0
       ELSE buffered' = buffered + 1 /\ UNCHANGED queue
    /\ UNCHANGED <<mainVars, chanVars, probeVars, bpc, closed, wpc, published>>

\* The flush deadline.
Flush ==
    /\ Running /\ bpc = "run" /\ buffered > 0
    /\ queue' = Append(queue, buffered) /\ buffered' = 0
    /\ UNCHANGED <<mainVars, chanVars, probeVars, unread, bpc, closed, wpc, published>>

\* Closed is received: the partial batch is queued; CloseQueue is a step of its own.
HubClosed ==
    /\ Running /\ bpc = "run"
    /\ unread = 0 /\ ~HubOpen
    /\ queue' = IF buffered > 0 THEN Append(queue, buffered) ELSE queue
    /\ buffered' = 0
    /\ bpc' = "closing"
    /\ UNCHANGED <<mainVars, chanVars, probeVars, unread, closed, wpc, published>>

CloseQueue ==
    /\ Running /\ bpc = "closing"
    /\ closed' = TRUE /\ bpc' = "done"
    /\ UNCHANGED <<mainVars, chanVars, probeVars, unread, buffered, queue, wpc, published>>

WriterStep(from, to) ==
    /\ Running /\ wpc = from
    /\ wpc' = to
    /\ UNCHANGED <<mainVars, chanVars, probeVars, unread, bpc, buffered, closed, published>>

\* wait_for_batch looks at the queue first and at the closed flag second.
Peek        == WriterStep("peek", IF queue = <<>> THEN "check" ELSE "write") /\ UNCHANGED queue
CheckClosed == WriterStep("check", IF closed THEN "drained" ELSE "peek") /\ UNCHANGED queue

\* InfluxDB accepts or refuses the batch; either way it leaves the queue.
Verdict == WriterStep("write", "peek") /\ queue' = Tail(queue)

WriteFailed == WriterStep("write", "backoff") /\ UNCHANGED queue
Retry       == WriterStep("backoff", "write") /\ UNCHANGED queue
GiveUp      == Ready("writer") /\ WriterStep("backoff", "abandoned") /\ UNCHANGED queue

Batcher == Receive \/ Flush \/ HubClosed \/ CloseQueue
Writer  == Peek \/ CheckClosed \/ Verdict \/ WriteFailed \/ Retry \/ GiveUp

\* Nothing further happens.
Gone == Ended /\ UNCHANGED vars

Next ==
    \/ SendSignal \/ SignalTaskEnds
    \/ Startup \/ ReceiveShutdown \/ StopProbes \/ DropHub \/ WriterJoined \/ DrainTimeout
    \/ DropRuntime
    \/ \E p \in Probes : ProbeLoop(p)
    \/ Batcher \/ Writer
    \/ Gone

Spec == Init /\ [][Next]_vars

\* The runtime polls every task that is ready, and the grace period ends: this takes a
\* worker that is left, so fewer blocked polls than worker threads.  Nothing is assumed
\* about the signal, about InfluxDB, or about a poll that does not return; the drain
\* timer is left to the properties that rely on it.
Fairness ==
    /\ WF_vars(SignalTaskEnds) /\ WF_vars(Startup)
    /\ WF_vars(ReceiveShutdown) /\ WF_vars(StopProbes) /\ WF_vars(DropHub)
    /\ WF_vars(WriterJoined) /\ WF_vars(DropRuntime)
    /\ \A p \in Probes : WF_vars(StopIdle(p) \/ StopMidProbe(p)) /\ WF_vars(Cancel(p))
    /\ WF_vars(Batcher)
    /\ WF_vars(Peek \/ CheckClosed \/ Verdict \/ WriteFailed \/ Retry)

FairSpec == Spec /\ Fairness

-----------------------------------------------------------------------------
(* Properties *)

\* The types of all variables.
TypeOK ==
    /\ mpc \in {"bindHealth", "newWriter", "pipeline", "bindListeners", "receiver",
                "spawn", "wait", "stopProbes", "dropHub", "drain", "returned",
                "exited", "failed"}
    /\ probesStopped \in BOOLEAN
    /\ outcome \in {"none", "clean", "unreachable", "probesAborted"}
    /\ signalled \in BOOLEAN /\ txSignal \in BOOLEAN /\ txMain \in BOOLEAN
    /\ rx \in [Receivers -> {"none", "open", "message"}]
    /\ ppc \in [Probes -> {"absent", "tick", "probing", "blocked", "done"}]
    /\ aborted \subseteq Probes
    /\ unread \in 0 .. NResults
    /\ bpc \in {"absent", "run", "closing", "done"}
    /\ buffered \in 0 .. BatchSize - 1
    /\ queue \in Seq(1 .. BatchSize) /\ closed \in BOOLEAN
    /\ wpc \in {"absent", "peek", "check", "write", "backoff", "drained", "abandoned"}
    /\ published \in 0 .. NResults

\* Nothing takes the channel for a shutdown before there is one: main's sender may be
\* dropped right after startup only because the signal task keeps its own.
NoShutdownWithoutSignal ==
    ~signalled =>
        /\ mpc \notin {"stopProbes", "dropHub", "drain", "returned", "exited"}
        /\ \A p \in Probes : ppc[p] # "done"
        /\ wpc # "abandoned"

\* A writer that came to the end of a closed queue leaves nothing behind upstream: all
\* probe loops are gone, and neither the hub nor the batcher holds a result.
DrainedMeansFlushed ==
    wpc = "drained" =>
        /\ \A p \in Probes : ppc[p] = "done"
        /\ unread = 0 /\ buffered = 0

\* The log blames InfluxDB only if all probe loops had stopped.
BlamesTheRightStage ==
    outcome = "unreachable" => \A p \in Probes : ppc[p] = "done"

\* A signal at any moment, in the middle of startup too, makes run return, even if
\* InfluxDB never answers and a poll of a probe never returns.  That it ends the process
\* needs every blocked poll to return: the runtime is not gone before.  Both need the
\* drain timer.
StopsOnSignal ==
    WF_vars(DrainTimeout) =>
        /\ signalled ~> ~Running
        /\ (\A p \in Probes : WF_vars(Unblock(p)) /\ WF_vars(UnblockLate(p)))
               => signalled ~> Ended

\* The drain timer is only a backstop: if InfluxDB gives verdicts and blocked polls
\* return, the stages close each other and the process ends without it.
DrainsByItself ==
    (SF_vars(Verdict) /\ \A p \in Probes : WF_vars(Unblock(p)) /\ WF_vars(UnblockLate(p)))
        => signalled ~> Ended

\* "InfluxDB writer drained cleanly" is not said of a writer that gave up on its batches.
CleanMeansDrained ==
    outcome = "clean" => ~(wpc = "abandoned" /\ queue # <<>>)
=============================================================================
