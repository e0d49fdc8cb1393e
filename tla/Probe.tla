------------------------------- MODULE Probe --------------------------------
(***************************************************************************)
(* One probe loop in time: the interval's ticks, the steps of the executor  *)
(* the registry chooses, the deadline around them, and the result.          *)
(*                                                                         *)
(*   huginn/src/scheduler.rs   run_probe_loop, execute_probe                *)
(*   crates/huginn-probes/src  with_probe_timeout, read_greeting_line and    *)
(*                             the executors                                *)
(*                                                                         *)
(* Time is relative and whole: `left` is what remains of the deadline, `due` *)
(* the time to the interval's next scheduled tick (negative: it was missed). *)
(* The runtime may take up a tick late, at most MaxLate after it was due     *)
(* when the loop was idle. Shutdown in a tick or a probe is Daemon's.        *)
(***************************************************************************)
EXTENDS Verdicts

CONSTANTS Probes,    \* configurations the loop may have
          Chunk,     \* most bytes one read returns, 128 in the code
          MaxLate    \* bound on the lateness of an idle loop's tick

ASSUME ProbeAssumption ==
    /\ Chunk \in Nat \ {0}
    /\ MaxLate \in Nat
    /\ \A p \in Probes : /\ p.type \in Types
                         /\ p.interval \in Nat \ {0}
                         /\ p.timeout \in Nat \ {0}

VARIABLES p,        \* cfg: the loop's ProbeConfig
          built,    \* HttpProbe::client, TlsProbe::config: is it Ok?
          pc,       \* "wait", or the await the executor is at
          left,     \* time to the deadline of with_probe_timeout
          text,     \* what the peer says, fixed when it is connected
          heard,    \* collected.len() in read_greeting_line
          result,   \* what this tick published, and the step it came from
          due,      \* time to the interval's next scheduled tick
          phase,    \* history: time since the last multiple of the interval
          starts,   \* history: probes started since that multiple
          spent     \* history: time since the tick of the probe under way

vars == <<p, built, pc, left, text, heard, result, due, phase, starts, spent>>
clocks == <<due, phase, starts, spent>>

Silence == [len |-> 0, match |-> 0, newline |-> 0]
NoResult == [up |-> FALSE, from |-> "none"]

(* The awaits of an executor, in order.                                    *)
Program(type) ==
    CASE type = "tcp" -> <<"connect">>
      [] type \in Greeters -> <<"connect", "greeting">>
      [] type = "tls" -> <<"connect", "answer">>
      [] type = "udp" -> <<"lookup", "answer">>
      [] OTHER -> <<"answer">>

(* The awaits that are wrapped in a with_probe_timeout of their own: the     *)
(* first, and of the UDP probe both.                                        *)
Deadlines(type) == IF type = "udp" THEN 2 ELSE 1

(* HttpProbe::new, TlsProbe::new: a client that cannot be built is kept as an *)
(* error; the other executors hold nothing.                                 *)
ClientOutcomes(type) == IF type \in Http \cup {"tls"} THEN BOOLEAN ELSE {TRUE}

(* Fault of FinishesAt: a single read is the whole greeting. Breaks         *)
(* GreetingJudgedWhole.                                                     *)
FinishesAtFirstRead(n) == TRUE

(* A read that has collected n bytes ends the loop of read_greeting_line.   *)
FinishesAt(n) == LineComplete(text, n)

(* Fault of Rearm: MissedTickBehavior::Burst makes up for missed ticks.     *)
(* Breaks SlotsAreKept.                                                     *)
RearmBurst == due' = due + p.interval

(* MissedTickBehavior::Skip: a tick taken late schedules the next one on     *)
(* the grid of the first.                                                   *)
Rearm == due' = p.interval - ((0 - due) % p.interval)
-----------------------------------------------------------------------------
Init == /\ p \in Probes
        /\ built \in ClientOutcomes(p.type)
        /\ pc = "wait"
        /\ left = 0
        /\ text = Silence
        /\ heard = 0
        /\ result = NoResult
        /\ due = 0 /\ phase = 0 /\ starts = 0 /\ spent = 0

(* The loop publishes and goes back to the ticker.                         *)
Publish(up, from) ==
    /\ pc' = "wait"
    /\ result' = [up |-> up, from |-> from]
    /\ left' = 0
    /\ heard' = 0
    /\ UNCHANGED <<p, built, text, clocks>>

(* The executor begins, under its deadline, or answers at once that it has   *)
(* no client.                                                               *)
BeginProbe ==
    \/ /\ built
       /\ pc' = Program(p.type)[1]
       /\ left' = p.timeout
       /\ result' = NoResult
    \/ /\ ~built
       /\ pc' = "wait"
       /\ left' = 0
       /\ result' = [up |-> FALSE, from |-> "client"]

(* ticker.tick() resolves and the second select polls execute_probe.        *)
TickFires ==
    /\ pc = "wait" /\ due <= 0
    /\ Rearm
    /\ BeginProbe
    /\ starts' = starts + 1
    /\ spent' = 0
    /\ heard' = 0
    /\ UNCHANGED <<p, built, text, phase>>

(* Fault of Connected: the deadline starts again after the connect. Breaks  *)
(* WithinBudget.                                                            *)
ConnectedRearms ==
    /\ pc = "connect"
    /\ IF p.type = "tcp"
         THEN Publish(Verdict(p, "connected"), "connect")
         ELSE /\ pc' = Program(p.type)[2]
              /\ text' \in IF p.type \in Greeters THEN Texts ELSE {Silence}
              /\ left' = p.timeout
              /\ UNCHANGED <<p, built, heard, result, clocks>>

(* TcpStream::connect succeeds; whatever follows shares the deadline.       *)
Connected ==
    /\ pc = "connect"
    /\ IF p.type = "tcp"
         THEN Publish(Verdict(p, "connected"), "connect")
         ELSE /\ pc' = Program(p.type)[2]
              /\ text' \in IF p.type \in Greeters THEN Texts ELSE {Silence}
              /\ UNCHANGED <<p, built, left, heard, result, clocks>>

(* The UDP probe has an address: bind, connect and send do not wait, and     *)
(* then recv gets a deadline of its own.                                    *)
AddressFound ==
    /\ pc = "lookup"
    /\ pc' = "answer"
    /\ left' = p.timeout
    /\ UNCHANGED <<p, built, text, heard, result, clocks>>

(* A read of the greeting returns n bytes.                                 *)
ReadChunk(n) ==
    /\ pc = "greeting"
    /\ heard + n <= text.len
    /\ IF FinishesAt(heard + n)
         THEN Publish(GreetingVerdict(p.type, text, heard + n), "greeting")
         ELSE /\ heard' = heard + n
              /\ UNCHANGED <<p, built, pc, left, text, result, clocks>>

(* The peer closes after what it had to say: a read returns 0.             *)
PeerCloses ==
    /\ pc = "greeting"
    /\ heard = text.len
    /\ Publish(GreetingVerdict(p.type, text, heard), "greeting")

(* A response, a lookup's answer, a certificate or a datagram arrives.      *)
Answered ==
    /\ pc = "answer"
    /\ \E o \in Observations(p.type) : Publish(Verdict(p, o), "answer")

(* Refused, reset, no such name, no address, a failed handshake, bind or    *)
(* send.                                                                    *)
StepFails == pc # "wait" /\ Publish(FALSE, "error")

(* with_probe_timeout. An answer that is there when the deadline passes may *)
(* still win: the future is polled before the timer.                        *)
TimedOut == pc # "wait" /\ left = 0 /\ Publish(FALSE, "timeout")

(* Time passes.                                                            *)
Pass ==
    /\ IF pc = "wait" THEN due > -MaxLate ELSE left > 0
    /\ left' = IF pc = "wait" THEN left ELSE left - 1
    /\ spent' = IF pc = "wait" THEN spent ELSE spent + 1
    /\ due' = due - 1
    /\ phase' = (phase + 1) % p.interval
    /\ starts' = IF phase' = 0 THEN 0 ELSE starts
    /\ UNCHANGED <<p, built, pc, text, heard, result>>

Next == \/ TickFires \/ Connected \/ AddressFound
        \/ \E n \in 1..Chunk : ReadChunk(n)
        \/ PeerCloses \/ Answered \/ StepFails \/ TimedOut \/ Pass

Spec == Init /\ [][Next]_vars
-----------------------------------------------------------------------------
Longest == Deadlines(p.type) * p.timeout

(* Every variable keeps its type, and a tick is missed by no more than the  *)
(* longest probe and the bound on lateness (run_probe_loop, executors).     *)
TypeOK ==
    /\ p \in Probes
    /\ built \in BOOLEAN
    /\ pc \in {"wait", "connect", "lookup", "greeting", "answer"}
    /\ left \in 0..p.timeout
    /\ text \in Texts
    /\ heard \in 0..text.len
    /\ result \in [up : BOOLEAN, from : {"none", "client", "connect", "greeting",
                                        "answer", "error", "timeout"}]
    /\ due \in -(Longest + MaxLate)..p.interval
    /\ phase \in 0..(p.interval - 1)
    /\ starts \in 0..2
    /\ spent \in 0..Longest

(* However TCP cuts a greeting into reads, the verdict is the one the whole  *)
(* greeting deserves (read_greeting_line, and starts_with of smtp and imap). *)
GreetingJudgedWhole ==
    result.from = "greeting" =>
        (result.up <=> text.match >= PrefixLen(p.type))

(* A probe has its result after one timeout, whatever the peer does; the UDP *)
(* probe may take two (with_probe_timeout and its callers).                 *)
WithinBudget == spent <= Longest

(* docs/configuration.md:292: "timeout_secs is the budget for the whole       *)
(* probe, not for each step inside it". Not so for UDP: AddressFound.        *)
BudgetIsTheTimeout == spent <= p.timeout

(* Between two multiples of the interval a loop starts at most one probe,    *)
(* however late its ticks are taken up, and exactly one if its longest probe *)
(* fits into the interval (Skip in run_probe_loop).                         *)
SlotsAreKept ==
    [][Pass /\ phase' = 0 =>
          starts \in IF Longest + MaxLate < p.interval THEN {1} ELSE {0, 1}]_vars
=============================================================================
