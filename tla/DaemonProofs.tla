----------------------------- MODULE DaemonProofs -----------------------------
(***************************************************************************)
(* Proofs about Daemon, for any set of probes, any of which may block, any *)
(* number of results and any batch size.                                   *)
(*                                                                         *)
(* The stages close each other from the top down: no signal, no end of a   *)
(* probe loop; no end of the last loop and of run's own Arc, no end of the *)
(* hub; no end of the hub, no closed queue; no closed queue, no drained    *)
(* writer.  DaemonInv has one part for each of these links.                *)
(***************************************************************************)
EXTENDS Daemon, SequenceTheorems, TLAPS

\* The stages of run after the scheduler has started all loops.
Started == {"wait", "stopProbes", "dropHub", "drain", "returned", "exited"}

AllDone == \A p \in Probes : ppc[p] = "done"

\* Before the signal: a sender is left, nobody has a message, nothing has stopped.
QuietUntilSignal ==
    ~signalled =>
        /\ txSignal
        /\ aborted = {}
        /\ \A r \in Receivers : rx[r] # "message"
        /\ NoShutdownWithoutSignal

\* A loop that runs was spawned, so "not live" will mean "done".
LoopsSpawned == mpc \in Started => \A p \in Probes : ppc[p] # "absent"

\* The batcher leaves its loop only at the end of the hub, with nothing left upstream.
UpstreamEnded ==
    bpc \in {"closing", "done"} =>
        /\ mpc \in {"drain", "returned", "exited"}
        /\ AllDone
        /\ unread = 0 /\ buffered = 0

\* When the batcher is there, who closes the queue, and who may find it closed.
ClosedInTurn ==
    /\ mpc \in {"bindHealth", "newWriter", "pipeline"} => bpc = "absent"
    /\ closed => bpc = "done"
    /\ wpc = "drained" => closed

\* What stop_probes returned is true of the loops, and the message says what it returned.
StopReported ==
    /\ mpc \in {"dropHub", "drain"} /\ probesStopped => AllDone
    /\ outcome # "none" => mpc \in {"returned", "exited"}
    /\ BlamesTheRightStage

\* What the types rest on: each unread result was published, and the writer has a batch.
Accounted ==
    /\ unread <= published
    /\ wpc \in {"write", "backoff"} => queue # <<>>

DaemonInv ==
    /\ TypeOK
    /\ Accounted
    /\ QuietUntilSignal
    /\ LoopsSpawned
    /\ UpstreamEnded
    /\ ClosedInTurn
    /\ StopReported

\* Before main has run there is no signal, no loop and no message.
LEMMA DaemonInvInit == Init => DaemonInv
<1> SUFFICES ASSUME Init PROVE DaemonInv
  OBVIOUS
<1>1. TypeOK
  <2>1. queue \in Seq(1 .. BatchSize)
    BY DEF Init
  <2>2. 0 \in 0 .. NResults /\ 0 \in 0 .. BatchSize - 1
    BY DaemonAssumption
  <2> QED
    BY <2>1, <2>2 DEF Init, TypeOK
<1> QED
  BY <1>1
  DEF Init, DaemonInv, Accounted, QuietUntilSignal, NoShutdownWithoutSignal, LoopsSpawned, Started,
      UpstreamEnded, ClosedInTurn, StopReported, BlamesTheRightStage

(***************************************************************************)
(* The types.                                                              *)
(***************************************************************************)

\* A batch that is queued, and what is left when one is taken.
LEMMA QueueMoves ==
    ASSUME NEW q \in Seq(1 .. BatchSize)
    PROVE  /\ \A n \in 1 .. BatchSize :
                  Append(q, n) \in Seq(1 .. BatchSize) /\ Append(q, n) # <<>>
           /\ q # <<>> => Tail(q) \in Seq(1 .. BatchSize)
  OBVIOUS

\* The steps of the probe loops: what they do to everything but ppc.
LEMMA LoopMoves ==
    ASSUME NEW p \in Probes, ProbeLoop(p)
    PROVE  /\ UNCHANGED <<mainVars, chanVars, aborted, bpc, buffered, queue, closed, wpc>>
           /\ \/ UNCHANGED <<unread, published>>
              \/ published < NResults /\ published' = published + 1 /\ unread' = unread + 1
           /\ \E from \in {"tick", "probing", "blocked"}, to \in {"tick", "probing", "blocked", "done"} :
                 /\ ppc[p] = from /\ ppc' = [ppc EXCEPT ![p] = to]
                 /\ to = "done" => p \in aborted \/ Ready(p) \/ mpc = "returned"
  BY DEF ProbeLoop, Tick, StopIdle, Complete, StopMidProbe, Block, Unblock, UnblockLate, Cancel,
         Step, pipeVars

\* The steps of run and of the signal task leave the pipeline alone, except for the one
\* that starts it.
LEMMA MainMoves ==
    ASSUME \/ SendSignal \/ SignalTaskEnds \/ BindHealth \/ NewWriter \/ BindListeners
           \/ SubscribeMain \/ ReleaseSender \/ ReceiveShutdown \/ AllProbesStopped
           \/ GraceExpired \/ DropHub \/ WriterJoined \/ DrainTimeout
           \/ DropRuntime \/ Gone \/ UNCHANGED vars
    PROVE  UNCHANGED <<ppc, pipeVars, published>>
  BY DEF SendSignal, SignalTaskEnds, BindHealth, NewWriter, BindListeners, StartupStep,
         SubscribeMain, ReleaseSender, ReceiveShutdown, AllProbesStopped, GraceExpired, DropHub,
         WriterJoined, DrainTimeout, DropRuntime, Gone, vars, probeVars

\* Every step keeps the types; no more results are unread than were published.
LEMMA TypeNext == TypeOK /\ Accounted /\ [Next]_vars => TypeOK' /\ Accounted'
<1> SUFFICES ASSUME TypeOK, Accounted, [Next]_vars PROVE TypeOK' /\ Accounted'
  OBVIOUS
<1>0. /\ queue \in Seq(1 .. BatchSize) /\ BatchSize \in Nat \ {0} /\ NResults \in Nat
      /\ unread \in 0 .. NResults /\ published \in 0 .. NResults /\ buffered \in 0 .. BatchSize - 1
      /\ rx \in [Receivers -> {"none", "open", "message"}]
      /\ ppc \in [Probes -> {"absent", "tick", "probing", "blocked", "done"}]
  BY DaemonAssumption DEF TypeOK
<1>1. CASE SendSignal \/ SignalTaskEnds
  <2>1. UNCHANGED <<mainVars, txMain, probeVars, pipeVars, published>> /\ signalled' \in BOOLEAN
        /\ txSignal' \in BOOLEAN /\ rx' \in [Receivers -> {"none", "open", "message"}]
    BY <1>0, <1>1 DEF SendSignal, SignalTaskEnds, TypeOK
  <2> QED
    BY <2>1 DEF TypeOK, Accounted, mainVars, probeVars, pipeVars
<1>2. CASE BindHealth \/ NewWriter \/ BindListeners \/ ReleaseSender \/ ReceiveShutdown
           \/ AllProbesStopped \/ GraceExpired \/ DropHub \/ WriterJoined \/ DrainTimeout
           \/ DropRuntime
  <2>1. UNCHANGED <<signalled, txSignal, rx, ppc, pipeVars, published>>
    BY <1>2
    DEF BindHealth, NewWriter, BindListeners, StartupStep, ReleaseSender, ReceiveShutdown,
        AllProbesStopped, GraceExpired, DropHub, WriterJoined, DrainTimeout, DropRuntime, chanVars,
        probeVars
  <2>2. /\ mpc' \in {"newWriter", "pipeline", "receiver", "failed", "wait", "stopProbes",
                     "dropHub", "drain", "returned", "exited"}
        /\ probesStopped' \in BOOLEAN /\ txMain' \in BOOLEAN /\ aborted' \subseteq Probes
        /\ outcome' \in {outcome, "clean", "unreachable", "probesAborted"}
    BY <1>2
    DEF BindHealth, NewWriter, BindListeners, StartupStep, ReleaseSender, ReceiveShutdown,
        AllProbesStopped, GraceExpired, DropHub, WriterJoined, DrainTimeout, DropRuntime, chanVars,
        probeVars, TypeOK
  <2> QED
    BY <2>1, <2>2 DEF TypeOK, Accounted, pipeVars
<1>3. CASE SpawnPipeline \/ SubscribeMain
  <2>1. \E r \in Receivers : rx' = [rx EXCEPT ![r] = "open"]
    BY <1>3 DEF SpawnPipeline, SubscribeMain, Subscribed, Receivers
  <2>2. rx' \in [Receivers -> {"none", "open", "message"}]
    BY <1>0, <2>1
  <2>3. /\ UNCHANGED <<probesStopped, outcome, signalled, txSignal, txMain, probeVars, unread,
                      buffered, queue, closed, published>>
        /\ mpc' \in {"bindListeners", "spawn"}
        /\ UNCHANGED <<bpc, wpc>> \/ (bpc' = "run" /\ wpc' = "peek")
    <3>1. CASE SpawnPipeline
      BY <3>1 DEF SpawnPipeline
    <3>2. CASE SubscribeMain
      BY <3>2 DEF SubscribeMain, pipeVars
    <3> QED
      BY <1>3, <3>1, <3>2
  <2> QED
    BY <2>2, <2>3 DEF TypeOK, Accounted, probeVars
<1>4. ASSUME NEW p \in Probes, SpawnProbe(p) PROVE TypeOK' /\ Accounted'
  <2>1. /\ rx' = [rx EXCEPT ![p] = "open"] /\ p \in Receivers
        /\ ppc' = [ppc EXCEPT ![p] = "tick"]
        /\ UNCHANGED <<mainVars, signalled, txSignal, txMain, aborted, pipeVars, published>>
    BY <1>4 DEF SpawnProbe, Subscribed, Receivers
  <2>2. /\ rx' \in [Receivers -> {"none", "open", "message"}]
        /\ ppc' \in [Probes -> {"absent", "tick", "probing", "blocked", "done"}]
    BY <1>0, <2>1
  <2> QED
    BY <2>1, <2>2 DEF TypeOK, Accounted, mainVars, pipeVars
<1>5. ASSUME NEW p \in Probes, ProbeLoop(p) PROVE TypeOK' /\ Accounted'
  <2>1. ppc' \in [Probes -> {"absent", "tick", "probing", "blocked", "done"}]
    BY <1>0, <1>5, LoopMoves
  <2>2. unread' \in 0 .. NResults /\ published' \in 0 .. NResults /\ unread' <= published'
    BY <1>0, <1>5, LoopMoves DEF Accounted
  <2>3. UNCHANGED <<mainVars, chanVars, aborted, bpc, buffered, queue, closed, wpc>>
    BY <1>5, LoopMoves
  <2> QED
    BY <2>1, <2>2, <2>3 DEF TypeOK, Accounted, mainVars, chanVars
<1>6. CASE Batcher
  <2>1. UNCHANGED <<mainVars, chanVars, probeVars, wpc, published>>
    BY <1>6 DEF Batcher, Receive, Flush, HubClosed, CloseQueue
  <2>2. /\ unread' \in 0 .. NResults /\ unread' <= unread /\ buffered' \in 0 .. BatchSize - 1
        /\ bpc' \in {"run", "closing", "done"} /\ closed' \in BOOLEAN
    <3>1. CASE Receive
      BY <1>0, <3>1 DEF Receive, TypeOK
    <3>2. CASE Flush
      BY <1>0, <3>2 DEF Flush, TypeOK
    <3>3. CASE HubClosed
      BY <1>0, <3>3 DEF HubClosed, TypeOK
    <3>4. CASE CloseQueue
      BY <1>0, <3>4 DEF CloseQueue
    <3> QED
      BY <1>6, <3>1, <3>2, <3>3, <3>4 DEF Batcher
  <2>3. queue' = queue \/ \E n \in 1 .. BatchSize : queue' = Append(queue, n)
    BY <1>0, <1>6 DEF Batcher, Receive, Flush, HubClosed, CloseQueue
  <2>4. queue' \in Seq(1 .. BatchSize) /\ (queue # <<>> => queue' # <<>>)
    BY <1>0, <2>3, QueueMoves
  <2> QED
    BY <1>0, <2>1, <2>2, <2>4 DEF TypeOK, Accounted, mainVars, chanVars, probeVars
<1>7. CASE Writer
  <2>1. UNCHANGED <<mainVars, chanVars, probeVars, unread, bpc, buffered, closed, published>>
    BY <1>7
    DEF Writer, Peek, CheckClosed, Verdict, WriteFailed, Retry, GiveUp, WriterStep
  <2>2. /\ wpc' \in {"peek", "check", "write", "backoff", "drained", "abandoned"}
        /\ queue' \in Seq(1 .. BatchSize)
        /\ wpc' \in {"write", "backoff"} => queue' # <<>>
    BY <1>0, <1>7, QueueMoves
    DEF Writer, Peek, CheckClosed, Verdict, WriteFailed, Retry, GiveUp, WriterStep, Accounted
  <2> QED
    BY <2>1, <2>2 DEF TypeOK, Accounted, mainVars, chanVars, probeVars
<1>8. CASE Gone \/ UNCHANGED vars
  BY <1>8 DEF Gone, vars, mainVars, chanVars, probeVars, pipeVars, TypeOK, Accounted
<1> QED
  BY <1>1, <1>2, <1>3, <1>4, <1>5, <1>6, <1>7, <1>8 DEF Next, Startup, StopProbes

(***************************************************************************)
(* The links, from the signal to the drained writer.                       *)
(***************************************************************************)

\* Without the signal no receiver is ready, in whatever state main's own sender is.
LEMMA NobodyReady ==
    ASSUME QuietUntilSignal, ~signalled, NEW r \in Receivers
    PROVE  ~Ready(r)
  BY DEF QuietUntilSignal, Ready

\* Nothing stops, and nobody gets a message, until the signal.
LEMMA QuietNext ==
    TypeOK /\ QuietUntilSignal /\ [Next]_vars => QuietUntilSignal'
<1> SUFFICES ASSUME TypeOK, QuietUntilSignal, [Next]_vars, ~signalled'
             PROVE  /\ txSignal' /\ aborted' = {}
                    /\ \A r \in Receivers : rx'[r] # "message"
                    /\ mpc' \notin {"stopProbes", "dropHub", "drain", "returned", "exited"}
                    /\ \A p \in Probes : ppc'[p] # "done"
                    /\ wpc' # "abandoned"
  BY DEF QuietUntilSignal, NoShutdownWithoutSignal, Receivers
<1>1. ~signalled
  <2>1. ASSUME signalled PROVE signalled' = signalled
    BY <2>1, LoopMoves
    DEF Next, SendSignal, SignalTaskEnds, Startup, BindHealth, NewWriter, BindListeners,
        StartupStep, SpawnPipeline, SubscribeMain, SpawnProbe, ReleaseSender, ReceiveShutdown,
        StopProbes, AllProbesStopped, GraceExpired, DropHub, WriterJoined, DrainTimeout, DropRuntime,
        Batcher,
        Receive, Flush, HubClosed, CloseQueue, Writer, Peek, CheckClosed, Verdict, WriteFailed,
        Retry, GiveUp, WriterStep, Gone, vars, chanVars
  <2> QED
    BY <2>1
<1>2. /\ txSignal /\ aborted = {}
      /\ \A r \in Receivers : rx[r] # "message" /\ ~Ready(r)
      /\ mpc \notin {"stopProbes", "dropHub", "drain", "returned", "exited"}
      /\ \A p \in Probes : ppc[p] # "done"
      /\ wpc # "abandoned"
      /\ {"main", "writer"} \cup Probes = Receivers
      /\ rx \in [Receivers -> {"none", "open", "message"}]
      /\ ppc \in [Probes -> {"absent", "tick", "probing", "blocked", "done"}]
  BY <1>1, NobodyReady DEF QuietUntilSignal, NoShutdownWithoutSignal, Receivers, TypeOK
<1>3. CASE SendSignal \/ SignalTaskEnds
  BY <1>1, <1>3 DEF SendSignal, SignalTaskEnds
<1>4. CASE BindHealth \/ NewWriter \/ BindListeners \/ ReleaseSender
  BY <1>2, <1>4
  DEF BindHealth, NewWriter, BindListeners, StartupStep, ReleaseSender, chanVars, probeVars,
      pipeVars
<1>5. CASE SpawnPipeline \/ SubscribeMain
  <2>1. \E r \in Receivers : rx' = [rx EXCEPT ![r] = "open"]
    BY <1>2, <1>5 DEF SpawnPipeline, SubscribeMain, Subscribed
  <2>2. /\ UNCHANGED <<txSignal, aborted, ppc>> /\ mpc' \in {"bindListeners", "spawn"}
        /\ wpc' \in {wpc, "peek"}
    BY <1>5 DEF SpawnPipeline, SubscribeMain, probeVars, pipeVars
  <2> QED
    BY <1>2, <2>1, <2>2
<1>6. ASSUME NEW p \in Probes, SpawnProbe(p)
      PROVE  /\ UNCHANGED <<txSignal, aborted, mpc, wpc>>
             /\ rx' = [rx EXCEPT ![p] = "open"] /\ ppc' = [ppc EXCEPT ![p] = "tick"]
  BY <1>6 DEF SpawnProbe, Subscribed, mainVars, pipeVars
<1>7. CASE ReceiveShutdown \/ StopProbes \/ DropHub \/ WriterJoined \/ DrainTimeout \/ DropRuntime
  BY <1>2, <1>7
  DEF ReceiveShutdown, StopProbes, AllProbesStopped, GraceExpired, DropHub, WriterJoined,
      DrainTimeout, DropRuntime
<1>8. ASSUME NEW p \in Probes, ProbeLoop(p)
      PROVE  /\ UNCHANGED <<txSignal, aborted, mpc, wpc, rx>>
             /\ \A q \in Probes : ppc'[q] # "done"
  <2>1. UNCHANGED <<txSignal, aborted, mpc, wpc, rx>>
    BY <1>8, LoopMoves DEF mainVars, chanVars
  <2>2. PICK to \in {"tick", "probing", "blocked", "done"} :
              /\ ppc' = [ppc EXCEPT ![p] = to]
              /\ to = "done" => p \in aborted \/ Ready(p) \/ mpc = "returned"
    BY <1>8, LoopMoves
  <2>3. p \in Receivers /\ ~Ready(p) /\ p \notin aborted
    BY <1>2
  <2> QED
    BY <1>2, <2>1, <2>2, <2>3
<1>9. CASE Batcher
  BY <1>2, <1>9
  DEF Batcher, Receive, Flush, HubClosed, CloseQueue, mainVars, chanVars, probeVars
<1>10. CASE Writer
  BY <1>2, <1>10
  DEF Writer, Peek, CheckClosed, Verdict, WriteFailed, Retry, GiveUp, WriterStep, mainVars,
      chanVars, probeVars
<1>11. CASE Gone \/ UNCHANGED vars
  BY <1>2, <1>11 DEF Gone, vars, mainVars, chanVars, probeVars, pipeVars
<1> QED
  BY <1>2, <1>3, <1>4, <1>5, <1>6, <1>7, <1>8, <1>9, <1>10, <1>11 DEF Next, Startup

\* A loop comes into being once, and an ended one stays ended.
LEMMA LoopsOnlyEnd ==
    ASSUME TypeOK, [Next]_vars, NEW p \in Probes
    PROVE  /\ ppc[p] # "absent" => ppc'[p] # "absent"
           /\ ppc[p] = "done" => ppc'[p] = "done"
<1>0. ppc \in [Probes -> {"absent", "tick", "probing", "blocked", "done"}]
  BY DEF TypeOK
<1>1. ASSUME NEW q \in Probes, SpawnProbe(q)
      PROVE  /\ ppc[p] # "absent" => ppc'[p] # "absent"
             /\ ppc[p] = "done" => ppc'[p] = "done"
  BY <1>0, <1>1 DEF SpawnProbe
<1>2. ASSUME NEW q \in Probes, ProbeLoop(q)
      PROVE  /\ ppc[p] # "absent" => ppc'[p] # "absent"
             /\ ppc[p] = "done" => ppc'[p] = "done"
  BY <1>0, <1>2, LoopMoves
<1>3. CASE ~(\E q \in Probes : SpawnProbe(q) \/ ProbeLoop(q))
  <2>1. CASE SpawnPipeline \/ Batcher \/ Writer
    BY <2>1
    DEF SpawnPipeline, Batcher, Receive, Flush, HubClosed, CloseQueue, Writer, Peek, CheckClosed,
        Verdict, WriteFailed, Retry, GiveUp, WriterStep, probeVars
  <2>2. CASE ~(SpawnPipeline \/ Batcher \/ Writer)
    <3>1. ppc' = ppc
      BY <1>3, <2>2, MainMoves DEF Next, Startup, StopProbes
    <3> QED
      BY <3>1
  <2> QED
    BY <2>1, <2>2
<1> QED
  BY <1>1, <1>2, <1>3

\* run moves on only by its own steps.
LEMMA MainAdvances ==
    ASSUME [Next]_vars
    PROVE  \/ UNCHANGED mainVars
           \/ Startup \/ ReceiveShutdown \/ StopProbes \/ DropHub \/ WriterJoined \/ DrainTimeout
           \/ DropRuntime
<1>1. ASSUME NEW p \in Probes, ProbeLoop(p) PROVE UNCHANGED mainVars
  BY <1>1, LoopMoves
<1>2. CASE Batcher \/ Writer
  BY <1>2
  DEF Batcher, Receive, Flush, HubClosed, CloseQueue, Writer, Peek, CheckClosed, Verdict,
      WriteFailed, Retry, GiveUp, WriterStep
<1>3. CASE SendSignal \/ SignalTaskEnds \/ Gone \/ UNCHANGED vars
  BY <1>3 DEF SendSignal, SignalTaskEnds, Gone, vars
<1> QED
  BY <1>1, <1>2, <1>3 DEF Next

\* main leaves startup only when it has spawned every loop.
LEMMA SpawnedNext == TypeOK /\ LoopsSpawned /\ [Next]_vars => LoopsSpawned'
<1> SUFFICES ASSUME TypeOK, LoopsSpawned, [Next]_vars, mpc' \in Started, NEW p \in Probes
             PROVE  ppc'[p] # "absent"
  BY DEF LoopsSpawned
<1>1. mpc \in Started \/ ReleaseSender
  BY MainAdvances
  DEF Startup, BindHealth, NewWriter, BindListeners, StartupStep, SpawnPipeline, SubscribeMain,
      SpawnProbe, ReceiveShutdown, StopProbes, AllProbesStopped, GraceExpired, DropHub,
      WriterJoined, DrainTimeout, DropRuntime, mainVars, Started
<1>2. ppc[p] # "absent"
  BY <1>1 DEF LoopsSpawned, ReleaseSender
<1> QED
  BY <1>2, LoopsOnlyEnd

\* The batcher leaves its loop only when no holder of the hub is left and all is read.
LEMMA UpstreamNext ==
    TypeOK /\ LoopsSpawned /\ UpstreamEnded /\ [Next]_vars => UpstreamEnded'
<1> SUFFICES ASSUME TypeOK, LoopsSpawned, UpstreamEnded, [Next]_vars, bpc' \in {"closing", "done"}
             PROVE  /\ mpc' \in {"drain", "returned", "exited"} /\ AllDone'
                    /\ unread' = 0 /\ buffered' = 0
  BY DEF UpstreamEnded
<1>1. CASE HubClosed
  <2>1. mpc = "drain" /\ \A p \in Probes : ppc[p] \notin {"tick", "probing", "blocked"}
    BY <1>1 DEF HubClosed, HubOpen
  <2>2. AllDone
    BY <2>1 DEF AllDone, LoopsSpawned, Started, TypeOK
  <2> QED
    BY <1>1, <2>1, <2>2 DEF HubClosed, mainVars, probeVars, AllDone
<1>2. CASE ~HubClosed
  <2>1. bpc \in {"closing", "done"}
    <3>1. CASE Batcher
      BY <1>2, <3>1 DEF Batcher, Receive, Flush, CloseQueue
    <3>2. ASSUME NEW p \in Probes, ProbeLoop(p) PROVE bpc' = bpc
      BY <3>2, LoopMoves
    <3>3. CASE Writer
      BY <3>3
      DEF Writer, Peek, CheckClosed, Verdict, WriteFailed, Retry, GiveUp, WriterStep
    <3>4. ASSUME NEW p \in Probes, SpawnProbe(p) PROVE bpc' = bpc
      BY <3>4 DEF SpawnProbe, pipeVars
    <3>5. ~SpawnPipeline
      BY DEF SpawnPipeline
    <3> QED
      BY <3>1, <3>2, <3>3, <3>4, <3>5, MainMoves DEF Next, Startup, StopProbes, pipeVars
  <2>2. mpc \in {"drain", "returned", "exited"} /\ AllDone /\ unread = 0 /\ buffered = 0
    BY <2>1 DEF UpstreamEnded
  <2>3. AllDone'
    BY <2>2, LoopsOnlyEnd DEF AllDone
  <2>4. mpc' \in {"drain", "returned", "exited"}
    BY <2>2, MainAdvances
    DEF Startup, BindHealth, NewWriter, BindListeners, StartupStep, SpawnPipeline, SubscribeMain,
        SpawnProbe, ReleaseSender, ReceiveShutdown, StopProbes, AllProbesStopped, GraceExpired,
        DropHub, WriterJoined, DrainTimeout, DropRuntime, mainVars
  <2>5. UNCHANGED <<unread, buffered>>
    <3>1. ~Receive /\ ~Flush /\ ~SpawnPipeline
      BY <2>1, <2>2 DEF Receive, Flush, SpawnPipeline
    <3>2. ASSUME NEW p \in Probes, ProbeLoop(p) PROVE UNCHANGED <<unread, buffered>>
      BY <2>2, <3>2 DEF AllDone, ProbeLoop, Tick, StopIdle, Complete, StopMidProbe, Block,
                        Unblock, UnblockLate, Cancel, Step, pipeVars
    <3>3. CASE CloseQueue \/ Writer
      BY <3>3
      DEF CloseQueue, Writer, Peek, CheckClosed, Verdict, WriteFailed, Retry, GiveUp, WriterStep
    <3>4. ASSUME NEW p \in Probes, SpawnProbe(p) PROVE UNCHANGED <<unread, buffered>>
      BY <3>4 DEF SpawnProbe, pipeVars
    <3> QED
      BY <1>2, <3>1, <3>2, <3>3, <3>4, MainMoves DEF Next, Startup, StopProbes, Batcher, pipeVars
  <2> QED
    BY <2>2, <2>3, <2>4, <2>5
<1> QED
  BY <1>1, <1>2

\* The batcher closes the queue, and only then may the writer find it closed.
LEMMA ClosedNext == TypeOK /\ ClosedInTurn /\ [Next]_vars => ClosedInTurn'
<1> SUFFICES ASSUME TypeOK, ClosedInTurn, [Next]_vars PROVE ClosedInTurn'
  OBVIOUS
<1>1. CASE Batcher
  BY <1>1 DEF ClosedInTurn, Batcher, Receive, Flush, HubClosed, CloseQueue, mainVars
<1>2. CASE Writer
  BY <1>2
  DEF ClosedInTurn, Writer, Peek, CheckClosed, Verdict, WriteFailed, Retry, GiveUp, WriterStep,
      mainVars
<1>3. ASSUME NEW p \in Probes, SpawnProbe(p) \/ ProbeLoop(p)
      PROVE  UNCHANGED <<mpc, bpc, closed, wpc>>
  BY <1>3, LoopMoves DEF SpawnProbe, mainVars, pipeVars
<1>4. CASE SpawnPipeline
  BY <1>4 DEF SpawnPipeline, ClosedInTurn
<1>5. CASE ~(SpawnPipeline \/ Batcher \/ Writer \/ \E p \in Probes : SpawnProbe(p) \/ ProbeLoop(p))
  <2>1. UNCHANGED <<bpc, closed, wpc>>
    BY <1>5, MainMoves DEF Next, Startup, StopProbes, pipeVars
  <2>2. mpc' \in {"bindHealth", "newWriter", "pipeline"}
           => mpc \in {"bindHealth", "newWriter", "pipeline"}
    BY <1>5, MainAdvances
    DEF Startup, BindHealth, NewWriter, BindListeners, StartupStep, SubscribeMain, ReleaseSender,
        ReceiveShutdown, StopProbes, AllProbesStopped, GraceExpired, DropHub, WriterJoined,
        DrainTimeout, DropRuntime, mainVars
  <2> QED
    BY <2>1, <2>2 DEF ClosedInTurn
<1> QED
  BY <1>1, <1>2, <1>3, <1>4, <1>5 DEF ClosedInTurn

\* What stop_probes returned stays true of the loops, and the message repeats it.
LEMMA ReportedNext == TypeOK /\ StopReported /\ [Next]_vars => StopReported'
<1> SUFFICES ASSUME TypeOK, StopReported, [Next]_vars PROVE StopReported'
  OBVIOUS
<1>1. AllDone => AllDone'
  BY LoopsOnlyEnd DEF AllDone
<1>2. CASE UNCHANGED mainVars
  BY <1>1, <1>2 DEF StopReported, BlamesTheRightStage, AllDone, mainVars
<1>3. CASE AllProbesStopped
  BY <1>1, <1>3 DEF AllProbesStopped, StopReported, BlamesTheRightStage, AllDone
<1>4. CASE GraceExpired
  BY <1>4 DEF GraceExpired, StopReported, BlamesTheRightStage
<1>5. CASE DropHub
  BY <1>1, <1>5 DEF DropHub, StopReported, BlamesTheRightStage
<1>6. CASE WriterJoined \/ DrainTimeout \/ DropRuntime
  BY <1>1, <1>6 DEF WriterJoined, DrainTimeout, DropRuntime, StopReported, BlamesTheRightStage,
                    AllDone
<1>7. CASE Startup \/ ReceiveShutdown
  <2>1. /\ mpc \notin {"returned", "exited"}
        /\ mpc' \notin {"dropHub", "drain", "returned", "exited"}
        /\ outcome' = outcome
    BY <1>7
    DEF Startup, BindHealth, NewWriter, BindListeners, StartupStep, SpawnPipeline, SubscribeMain,
        SpawnProbe, ReleaseSender, ReceiveShutdown, mainVars
  <2> QED
    BY <2>1 DEF StopReported, BlamesTheRightStage
<1> QED
  BY <1>2, <1>3, <1>4, <1>5, <1>6, <1>7, MainAdvances DEF StopProbes

\* No step of main, a loop, the batcher or the writer breaks any of the links.
LEMMA DaemonInvNext == DaemonInv /\ [Next]_vars => DaemonInv'
  BY TypeNext, QuietNext, SpawnedNext, UpstreamNext, ClosedNext, ReportedNext DEF DaemonInv

\* The links hold at all times.
LEMMA AlwaysDaemonInv == Spec => []DaemonInv
  BY DaemonInvInit, DaemonInvNext, PTL DEF Spec

(***************************************************************************)
(* What follows for the daemon.                                            *)
(***************************************************************************)

\* The variables have their types, whatever stops, blocks or is aborted (run, the loops,
\* batcher and writer).
THEOREM TypeCorrect == Spec => []TypeOK
<1>1. DaemonInv => TypeOK
  BY DEF DaemonInv
<1> QED
  BY <1>1, AlwaysDaemonInv, PTL

\* Nothing takes the shutdown channel for a shutdown before the signal: main drops its
\* sender once the scheduler runs, and only the signal task's keeps the channel open
\* (main and run of main.rs, run_probe_loop, run_writer).
THEOREM NothingStopsByItself == Spec => []NoShutdownWithoutSignal
<1>1. DaemonInv => NoShutdownWithoutSignal
  BY DEF DaemonInv, QuietUntilSignal, NoShutdownWithoutSignal
<1> QED
  BY <1>1, AlwaysDaemonInv, PTL

\* A writer that reached the end of the closed queue has outlived every probe loop, and
\* neither the hub nor the batcher holds a result back (the order in which run drops its
\* Arc and waits, and in which run_batcher flushes and closes).
THEOREM DrainedLeavesNothingUpstream == Spec => []DrainedMeansFlushed
<1>1. DaemonInv => DrainedMeansFlushed
  BY DEF DaemonInv, ClosedInTurn, UpstreamEnded, AllDone, DrainedMeansFlushed
<1> QED
  BY <1>1, AlwaysDaemonInv, PTL

\* The log blames InfluxDB only if all probe loops have stopped, aborted ones and ones that
\* block included (the message run chooses from what stop_probes returned).
THEOREM MessageIsTrue == Spec => []BlamesTheRightStage
<1>1. DaemonInv => BlamesTheRightStage
  BY DEF DaemonInv, StopReported
<1> QED
  BY <1>1, AlwaysDaemonInv, PTL
===============================================================================
