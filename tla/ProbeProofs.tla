----------------------------- MODULE ProbeProofs ------------------------------
(***************************************************************************)
(* Proofs about Probe, for every set of probe configurations, any sizes of  *)
(* greetings, reads and caps, and any lateness of the runtime.  ProbeInv    *)
(* keeps three accounts: time spent plus time left is within the budget; a  *)
(* tick is missed by no more than the probe that was under way took; and    *)
(* the ticks stay on the grid of multiples of the interval.                 *)
(***************************************************************************)
EXTENDS Probe, TLAPS

Reasons == {"none", "client", "connect", "greeting", "answer", "error", "timeout"}

VarTypes ==
    /\ p \in Probes
    /\ built \in BOOLEAN
    /\ pc \in {"wait", "connect", "lookup", "greeting", "answer"}
    /\ left \in 0..p.timeout
    /\ text \in Texts
    /\ heard \in 0..text.len
    /\ result \in [up : BOOLEAN, from : Reasons]
    /\ due \in Int
    /\ phase \in 0..(p.interval - 1)
    /\ starts \in {0, 1}
    /\ spent \in Nat

\* The executor's position agrees with its type; what it collected and concluded belongs
\* to the probe under way.
Positions ==
    /\ pc = "connect" => p.type \in Greeters \cup {"tcp", "tls"}
    /\ pc = "lookup" => p.type = "udp"
    /\ pc # "greeting" => heard = 0
    /\ pc # "wait" => result = NoResult

Budget ==
    /\ pc = "lookup" => spent + left <= p.timeout
    /\ pc # "wait" => spent + left <= Longest
    /\ spent <= Longest

Lateness ==
    /\ pc # "wait" => due >= 1 - spent
    /\ due >= -(Longest + MaxLate)

Fits == Longest + MaxLate < p.interval

\* A slot's tick is taken in the slot, or is still due; the sum of `due` and `phase` is
\* the number of slots to the next tick, in intervals.
Grid ==
    /\ \E k \in Int : due + phase = k * p.interval
    /\ starts = 1 => due + phase = p.interval
    /\ starts = 0 => due + phase <= 0
    /\ starts = 0 /\ Fits => due + phase = 0

ProbeInv == VarTypes /\ Positions /\ Budget /\ Lateness /\ Grid /\ GreetingJudgedWhole

-----------------------------------------------------------------------------
\* A remainder is determined by the multiple it leaves.
LEMMA Remainder ==
    ASSUME NEW n \in Nat \ {0}, NEW a \in Int, NEW r \in 0..(n - 1), NEW k \in Int,
           a = k * n + r
    PROVE  a % n = r
  OBVIOUS

\* The next moment's place in its slot.
LEMMA NextPhase ==
    ASSUME NEW n \in Nat \ {0}, NEW r \in 0..(n - 1)
    PROVE  (r + 1) % n = IF r + 1 = n THEN 0 ELSE r + 1
<1>1. CASE r + 1 = n
  <2>1. r + 1 = 1 * n + 0 /\ 0 \in 0..(n - 1) /\ r + 1 \in Int
    BY <1>1
  <2> QED
    BY <1>1, <2>1, Remainder
<1>2. CASE r + 1 # n
  <2>1. r + 1 = 0 * n + (r + 1) /\ r + 1 \in 0..(n - 1) /\ r + 1 \in Int
    BY <1>2
  <2> QED
    BY <1>2, <2>1, Remainder
<1> QED
  BY <1>1, <1>2

\* How late a tick is, in its slot, is where in the slot it is taken.
LEMMA LatenessInSlot ==
    ASSUME NEW n \in Nat \ {0}, NEW r \in 0..(n - 1), NEW d \in Int, NEW k \in Int,
           d + r = k * n
    PROVE  (0 - d) % n = r
<1>1. 0 - d = (0 - k) * n + r
  OBVIOUS
<1>2. 0 - d \in Int /\ 0 - k \in Int
  OBVIOUS
<1> QED
  BY <1>1, <1>2, Remainder

\* The numbers of the configuration under way.
LEMMA Numbers ==
    ASSUME VarTypes
    PROVE  /\ p.type \in Types
           /\ p.interval \in Nat \ {0} /\ p.timeout \in Nat \ {0}
           /\ Longest \in Nat /\ p.timeout <= Longest
           /\ p.type = "udp" => Longest = p.timeout + p.timeout
           /\ MaxLate \in Nat
<1>1. p.type \in Types /\ p.interval \in Nat \ {0} /\ p.timeout \in Nat \ {0} /\ MaxLate \in Nat
  BY ProbeAssumption DEF ProbeAssumption, VarTypes
<1>2. Deadlines(p.type) = IF p.type = "udp" THEN 2 ELSE 1
  BY DEF Deadlines
<1> QED
  BY <1>1, <1>2 DEF Longest

\* Where an executor starts, and where a connection takes it.
LEMMA Awaits ==
    ASSUME NEW t \in Types
    PROVE  /\ Program(t)[1] \in {"connect", "lookup", "answer"}
           /\ Program(t)[1] = "connect" => t \in Greeters \cup {"tcp", "tls"}
           /\ Program(t)[1] = "lookup" => t = "udp"
           /\ t \in Greeters \cup {"tls"} => Program(t)[2] \in {"greeting", "answer"}
  BY DEF Program, Types, Http, Greeters

\* Saying nothing is a greeting as well.
LEMMA SilenceIsText == Silence \in Texts
  BY VerdictsAssumption DEF VerdictsAssumption, Silence, Texts

\* Every verdict is true or false.
LEMMA VerdictsAreBoolean ==
    /\ \A c, o : Verdict(c, o) \in BOOLEAN
    /\ \A t, s, n : GreetingVerdict(t, s, n) \in BOOLEAN
  BY DEF Verdict, GreetingVerdict

\* read_greeting_line: where the reads end does not matter.  A newline lies after the
\* bytes that agree with the prefix, and the cap is longer than each prefix.
LEMMA WholeGreeting ==
    ASSUME NEW t, NEW s \in Texts, NEW n \in 0..s.len,
           LineComplete(s, n) \/ n = s.len
    PROVE  GreetingVerdict(t, s, n) <=> s.match >= PrefixLen(t)
<1>1. PrefixLen(t) \in {3, 4}
  BY DEF PrefixLen
<1>2. MaxGreetingBytes \in Nat /\ MaxGreetingBytes >= 4
  BY VerdictsAssumption DEF VerdictsAssumption
<1>3. /\ s.len \in Nat /\ s.match \in Nat /\ s.newline \in Nat
      /\ s.match <= s.len
      /\ s.newline > 0 => s.match < s.newline
  BY VerdictsAssumption DEF VerdictsAssumption, Texts
<1>4. n >= MaxGreetingBytes \/ n >= s.match
  BY <1>3 DEF LineComplete
<1> QED
  BY <1>1, <1>2, <1>3, <1>4 DEF GreetingVerdict

-----------------------------------------------------------------------------
\* The configuration does not change, so neither do the numbers made of it.
LEMMA SameConfiguration ==
    ASSUME p' = p
    PROVE  Longest' = Longest /\ Fits' = Fits
  BY DEF Longest, Fits

\* A probe's end: whatever the reason, what was spent is within the budget.
LEMMA PublishKeepsInv ==
    ASSUME ProbeInv, pc # "wait", NEW up \in BOOLEAN, NEW from \in Reasons,
           Publish(up, from),
           from = "greeting" => (up <=> text.match >= PrefixLen(p.type))
    PROVE  ProbeInv'
<1>0. VarTypes /\ Positions /\ Budget /\ Lateness /\ Grid
  BY DEF ProbeInv
<1>1. /\ pc' = "wait" /\ result' = [up |-> up, from |-> from] /\ left' = 0 /\ heard' = 0
      /\ UNCHANGED <<p, built, text, due, phase, starts, spent>>
  BY DEF Publish, clocks
<1>2. Longest' = Longest /\ Fits' = Fits
  BY <1>1, SameConfiguration
<1>3. VarTypes'
  <2>1. text.len \in Nat /\ p.timeout \in Nat
    BY <1>0, Numbers, VerdictsAssumption DEF VerdictsAssumption, VarTypes, Texts
  <2> QED
    BY <1>0, <1>1, <2>1 DEF VarTypes
<1>4. Positions'
  BY <1>1 DEF Positions
<1>5. Budget'
  BY <1>0, <1>1, <1>2 DEF Budget
<1>6. Lateness'
  BY <1>0, <1>1, <1>2 DEF Lateness
<1>7. Grid'
  BY <1>0, <1>1, <1>2 DEF Grid
<1>8. GreetingJudgedWhole'
  BY <1>1 DEF GreetingJudgedWhole
<1> QED
  BY <1>3, <1>4, <1>5, <1>6, <1>7, <1>8 DEF ProbeInv

\* No probe is under way, and the first tick is due.
LEMMA ProbeInvInit == Init => ProbeInv
<1> SUFFICES ASSUME Init PROVE ProbeInv
  OBVIOUS
<1>1. VarTypes
  <2>1. built \in BOOLEAN
    BY DEF Init, ClientOutcomes
  <2>2. p.interval \in Nat \ {0} /\ p.timeout \in Nat \ {0}
    BY ProbeAssumption DEF ProbeAssumption, Init
  <2>3. text \in Texts /\ heard \in 0..text.len
    BY SilenceIsText DEF Init, Silence
  <2> QED
    BY <2>1, <2>2, <2>3 DEF Init, VarTypes, NoResult, Reasons
<1>2. Longest \in Nat /\ MaxLate \in Nat /\ p.interval \in Nat
  BY <1>1, Numbers
<1>3. Positions /\ GreetingJudgedWhole
  BY DEF Init, Positions, GreetingJudgedWhole, NoResult
<1>4. Budget /\ Lateness
  BY <1>2 DEF Init, Budget, Lateness
<1>5. Grid
  <2>1. due + phase = 0 * p.interval
    BY <1>2 DEF Init
  <2> QED
    BY <1>2, <2>1 DEF Init, Grid
<1> QED
  BY <1>1, <1>3, <1>4, <1>5 DEF ProbeInv

\* A tick is taken: the slot had none yet, and the next one is in the next slot.
LEMMA TickKeepsInv == ASSUME ProbeInv, TickFires PROVE ProbeInv'
<1>0. VarTypes /\ Positions /\ Budget /\ Lateness /\ Grid
  BY DEF ProbeInv
<1>1. /\ pc = "wait" /\ due <= 0 /\ starts' = starts + 1 /\ spent' = 0 /\ heard' = 0
      /\ due' = p.interval - ((0 - due) % p.interval)
      /\ UNCHANGED <<p, built, text, phase>>
  BY DEF TickFires, Rearm
<1>2. \/ built /\ pc' = Program(p.type)[1] /\ left' = p.timeout /\ result' = NoResult
      \/ pc' = "wait" /\ left' = 0 /\ result' = [up |-> FALSE, from |-> "client"]
  BY DEF TickFires, BeginProbe
<1>3. Longest' = Longest /\ Fits' = Fits
  BY <1>1, SameConfiguration
<1>4. /\ p.type \in Types /\ p.interval \in Nat \ {0} /\ p.timeout \in Nat \ {0}
      /\ Longest \in Nat /\ p.timeout <= Longest /\ MaxLate \in Nat
      /\ phase \in 0..(p.interval - 1) /\ due \in Int
  BY <1>0, Numbers DEF VarTypes
<1>5. pc' = "wait" \/ pc' = Program(p.type)[1]
  BY <1>2
<1>6. /\ pc' \in {"wait", "connect", "lookup", "answer"}
      /\ pc' = "connect" => p.type \in Greeters \cup {"tcp", "tls"}
      /\ pc' = "lookup" => p.type = "udp"
  BY <1>4, <1>5, Awaits
<1>7. due' = p.interval - phase
  <2>1. PICK k \in Int : due + phase = k * p.interval
    BY <1>0 DEF Grid
  <2>2. (0 - due) % p.interval = phase
    BY <1>4, <2>1, LatenessInSlot
  <2> QED
    BY <1>1, <2>2
<1>8. starts = 0
  BY <1>0, <1>1, <1>4 DEF Grid, VarTypes
<1>9. VarTypes'
  <2>1. text.len \in Nat
    BY <1>0, VerdictsAssumption DEF VerdictsAssumption, VarTypes, Texts
  <2>2. left' \in 0..p.timeout
    BY <1>2, <1>4
  <2>3. result' \in [up : BOOLEAN, from : Reasons]
    <3>1. [up |-> FALSE, from |-> "none"] \in [up : BOOLEAN, from : Reasons]
      BY DEF Reasons
    <3>2. [up |-> FALSE, from |-> "client"] \in [up : BOOLEAN, from : Reasons]
      BY DEF Reasons
    <3>3. result' = NoResult \/ result' = [up |-> FALSE, from |-> "client"]
      BY <1>2
    <3> QED
      BY <3>1, <3>2, <3>3 DEF NoResult
  <2>4. due' \in Int
    BY <1>4, <1>7
  <2> QED
    BY <1>0, <1>1, <1>6, <1>8, <2>1, <2>2, <2>3, <2>4 DEF VarTypes
<1>10. Positions'
  BY <1>1, <1>2, <1>6 DEF Positions
<1>11. Budget'
  BY <1>1, <1>2, <1>3, <1>4 DEF Budget
<1>12. Lateness'
  BY <1>1, <1>3, <1>4, <1>7 DEF Lateness
<1>13. Grid'
  <2>1. due' + phase' = 1 * p.interval /\ due' + phase' = p.interval
    BY <1>1, <1>4, <1>7
  <2>2. starts' = 1
    BY <1>1, <1>8
  <2> QED
    BY <1>1, <2>1, <2>2 DEF Grid
<1>14. GreetingJudgedWhole'
  BY <1>2 DEF GreetingJudgedWhole, NoResult
<1> QED
  BY <1>9, <1>10, <1>11, <1>12, <1>13, <1>14 DEF ProbeInv

\* A connection is there, or an address: the budget goes on, or for the receive of the
\* UDP probe begins its second half.
LEMMA StepOnKeepsInv == ASSUME ProbeInv, Connected \/ AddressFound PROVE ProbeInv'
<1>0. VarTypes /\ Positions /\ Budget /\ Lateness /\ Grid /\ GreetingJudgedWhole
  BY DEF ProbeInv
<1>1. CASE pc = "connect" /\ p.type = "tcp"
  <2>1. Publish(Verdict(p, "connected"), "connect")
    BY <1>1 DEF Connected, AddressFound
  <2> QED
    BY <1>1, <2>1, PublishKeepsInv, VerdictsAreBoolean DEF Reasons
<1>2. CASE ~(pc = "connect" /\ p.type = "tcp")
  <2>1. \/ /\ pc = "connect" /\ pc' = Program(p.type)[2] /\ left' = left
           /\ p.type \in Greeters \cup {"tls"}
        \/ /\ pc = "lookup" /\ pc' = "answer" /\ left' = p.timeout
    BY <1>0, <1>2 DEF Connected, AddressFound, Positions
  <2>2. text' \in Texts /\ UNCHANGED <<p, built, heard, result, clocks>>
    BY <1>0, <1>2, SilenceIsText DEF Connected, AddressFound, VarTypes
  <2>3. /\ p.type \in Types /\ p.timeout \in Nat \ {0} /\ Longest \in Nat
        /\ p.type = "udp" => Longest = p.timeout + p.timeout
    BY <1>0, Numbers
  <2>4. pc' \in {"greeting", "answer"}
    BY <2>1, <2>3, Awaits
  <2>5. heard = 0 /\ result = NoResult
    BY <2>1, <1>0 DEF Positions
  <2>6. VarTypes'
    <3>1. text'.len \in Nat
      BY <2>2, VerdictsAssumption DEF VerdictsAssumption, Texts
    <3> QED
      BY <1>0, <2>1, <2>2, <2>3, <2>4, <2>5, <3>1 DEF VarTypes, clocks
  <2>7. Positions'
    BY <2>2, <2>4, <2>5 DEF Positions
  <2>8. Longest' = Longest /\ Fits' = Fits
    BY <2>2, SameConfiguration
  <2>9. Budget'
    BY <1>0, <2>1, <2>2, <2>3, <2>4, <2>8 DEF Budget, Positions, VarTypes, clocks
  <2>10. Lateness' /\ Grid'
    BY <1>0, <2>1, <2>2, <2>8 DEF Lateness, Grid, clocks
  <2>11. GreetingJudgedWhole'
    BY <2>2, <2>5 DEF GreetingJudgedWhole, NoResult
  <2> QED
    BY <2>6, <2>7, <2>9, <2>10, <2>11 DEF ProbeInv
<1> QED
  BY <1>1, <1>2

\* A read or the peer's close: either more is to come, or the verdict is on the whole.
LEMMA ReadKeepsInv ==
    ASSUME ProbeInv, NEW n \in Nat, ReadChunk(n) \/ PeerCloses PROVE ProbeInv'
<1>0. VarTypes /\ Positions /\ Budget /\ Lateness /\ Grid /\ GreetingJudgedWhole
  BY DEF ProbeInv
<1>1. /\ text \in Texts /\ heard \in 0..text.len /\ text.len \in Nat /\ pc = "greeting"
  BY <1>0, VerdictsAssumption DEF VerdictsAssumption, VarTypes, Texts, ReadChunk, PeerCloses
<1>2. ASSUME NEW m \in 0..text.len, LineComplete(text, m) \/ m = text.len,
             Publish(GreetingVerdict(p.type, text, m), "greeting")
      PROVE  ProbeInv'
  <2>1. GreetingVerdict(p.type, text, m) <=> text.match >= PrefixLen(p.type)
    BY <1>1, <1>2, WholeGreeting
  <2>2. GreetingVerdict(p.type, text, m) \in BOOLEAN
    BY VerdictsAreBoolean
  <2> QED
    BY <1>1, <1>2, <2>1, <2>2, PublishKeepsInv DEF Reasons
<1>3. CASE PeerCloses
  BY <1>1, <1>2, <1>3 DEF PeerCloses
<1>4. CASE ReadChunk(n) /\ FinishesAt(heard + n)
  <2>1. heard + n \in 0..text.len /\ LineComplete(text, heard + n)
    BY <1>1, <1>4 DEF ReadChunk, FinishesAt
  <2>2. Publish(GreetingVerdict(p.type, text, heard + n), "greeting")
    BY <1>4 DEF ReadChunk
  <2> QED
    BY <1>2, <2>1, <2>2
<1>5. CASE ReadChunk(n) /\ ~FinishesAt(heard + n)
  <2>1. /\ heard' = heard + n /\ heard + n \in 0..text.len
        /\ UNCHANGED <<p, built, pc, left, text, result, clocks>>
    BY <1>1, <1>5 DEF ReadChunk
  <2>2. Longest' = Longest /\ Fits' = Fits
    BY <2>1, SameConfiguration
  <2>3. VarTypes' /\ Positions'
    BY <1>0, <1>1, <2>1 DEF VarTypes, Positions, clocks
  <2>4. Budget' /\ Lateness' /\ Grid' /\ GreetingJudgedWhole'
    BY <1>0, <2>1, <2>2 DEF Budget, Lateness, Grid, GreetingJudgedWhole, clocks
  <2> QED
    BY <2>3, <2>4 DEF ProbeInv
<1> QED
  BY <1>3, <1>4, <1>5

\* At the end of a slot the loop has started one probe in it, or none at most if one may
\* run into the next slot.
LEMMA SlotEnds ==
    ASSUME VarTypes, Lateness', Grid, Pass, phase' = 0, p' = p
    PROVE  /\ phase = p.interval - 1
           /\ starts \in IF Fits THEN {1} ELSE {0, 1}
<1>1. p.interval \in Nat \ {0} /\ phase \in 0..(p.interval - 1) /\ due \in Int
  BY Numbers DEF VarTypes
<1>2. phase' = (phase + 1) % p.interval /\ due' = due - 1
  BY DEF Pass
<1>3. phase = p.interval - 1
  BY <1>1, <1>2, NextPhase
<1>4. ASSUME Fits PROVE starts = 1
  <2>1. Longest \in Nat /\ MaxLate \in Nat /\ Longest + MaxLate < p.interval
    BY <1>4, Numbers DEF Fits
  <2>2. due' >= -(Longest + MaxLate)
    BY SameConfiguration DEF Lateness
  <2>3. due + phase # 0
    BY <1>1, <1>2, <1>3, <2>1, <2>2
  <2> QED
    BY <1>4, <2>3 DEF Grid, VarTypes
<1>5. starts \in {0, 1}
  BY DEF VarTypes
<1> QED
  BY <1>3, <1>4, <1>5

\* Time passes: a slot may end, and with it its probe is accounted for.
LEMMA PassKeepsInv == ASSUME ProbeInv, Pass PROVE ProbeInv'
<1>0. VarTypes /\ Positions /\ Budget /\ Lateness /\ Grid /\ GreetingJudgedWhole
  BY DEF ProbeInv
<1>1. /\ IF pc = "wait" THEN due > -MaxLate ELSE left > 0
      /\ left' = IF pc = "wait" THEN left ELSE left - 1
      /\ spent' = IF pc = "wait" THEN spent ELSE spent + 1
      /\ due' = due - 1
      /\ phase' = (phase + 1) % p.interval
      /\ starts' = IF phase' = 0 THEN 0 ELSE starts
      /\ UNCHANGED <<p, built, pc, text, heard, result>>
  BY DEF Pass
<1>2. Longest' = Longest /\ Fits' = Fits
  BY <1>1, SameConfiguration
<1>3. /\ p.interval \in Nat \ {0} /\ p.timeout \in Nat \ {0} /\ Longest \in Nat /\ MaxLate \in Nat
      /\ phase \in 0..(p.interval - 1) /\ due \in Int /\ spent \in Nat
      /\ left \in 0..p.timeout /\ starts \in {0, 1}
  BY <1>0, Numbers DEF VarTypes
<1>4. phase' = IF phase + 1 = p.interval THEN 0 ELSE phase + 1
  BY <1>1, <1>3, NextPhase
<1>5. VarTypes'
  <2>1. left' \in 0..p.timeout /\ spent' \in Nat /\ due' \in Int /\ starts' \in {0, 1}
    BY <1>1, <1>3
  <2>2. phase' \in 0..(p.interval - 1)
    BY <1>3, <1>4
  <2> QED
    BY <1>0, <1>1, <2>1, <2>2 DEF VarTypes
<1>6. Positions' /\ GreetingJudgedWhole'
  BY <1>0, <1>1 DEF Positions, GreetingJudgedWhole
<1>7. Budget'
  BY <1>0, <1>1, <1>2, <1>3 DEF Budget
<1>8. Lateness'
  <2>1. CASE pc = "wait"
    BY <1>1, <1>2, <1>3, <2>1 DEF Lateness
  <2>2. CASE pc # "wait"
    <3>1. due >= 1 - spent /\ spent' = spent + 1 /\ spent' <= Longest
      BY <1>0, <1>1, <1>7, <1>2, <2>2 DEF Lateness, Budget
    <3> QED
      BY <1>1, <1>2, <1>3, <2>2, <3>1 DEF Lateness
  <2> QED
    BY <2>1, <2>2
<1>9. Grid'
  <2>1. PICK k \in Int : due + phase = k * p.interval
    BY <1>0 DEF Grid
  <2>2. CASE phase + 1 = p.interval
    <3>1. phase' = 0 /\ due' + phase' = (due + phase) - p.interval /\ starts' = 0
      BY <1>1, <1>3, <1>4, <2>2
    <3>2. due' + phase' = (k - 1) * p.interval /\ k - 1 \in Int
      BY <1>3, <2>1, <3>1
    <3>3. Fits => due' + phase' = 0
      <4>1. Fits => starts = 1
        BY <1>0, <1>1, <1>8, <3>1, SlotEnds
      <4> QED
        BY <1>0, <1>3, <3>1, <4>1 DEF Grid
    <3>4. due' + phase' <= 0
      BY <1>0, <1>3, <3>1 DEF Grid
    <3> QED
      BY <1>1, <1>2, <3>1, <3>2, <3>3, <3>4 DEF Grid
  <2>3. CASE phase + 1 # p.interval
    <3>1. phase' # 0 /\ due' + phase' = due + phase /\ starts' = starts
      BY <1>1, <1>3, <1>4, <2>3
    <3> QED
      BY <1>0, <1>1, <1>2, <3>1 DEF Grid
  <2> QED
    BY <2>2, <2>3
<1> QED
  BY <1>5, <1>6, <1>7, <1>8, <1>9 DEF ProbeInv

\* No step of the peer, the executor or the clock breaks any of the accounts.
LEMMA ProbeInvNext == ProbeInv /\ [Next]_vars => ProbeInv'
<1> SUFFICES ASSUME ProbeInv, [Next]_vars PROVE ProbeInv'
  OBVIOUS
<1>1. CASE Answered
  <2>1. PICK o : Publish(Verdict(p, o), "answer")
    BY <1>1 DEF Answered
  <2> QED
    BY <1>1, <2>1, PublishKeepsInv, VerdictsAreBoolean DEF Answered, Reasons
<1>2. CASE StepFails
  BY <1>2, PublishKeepsInv DEF StepFails, Reasons
<1>3. CASE TimedOut
  BY <1>3, PublishKeepsInv DEF TimedOut, Reasons
<1>4. ASSUME NEW n \in 1..Chunk, ReadChunk(n) PROVE ProbeInv'
  <2>1. n \in Nat
    BY ProbeAssumption DEF ProbeAssumption
  <2> QED
    BY <1>4, <2>1, ReadKeepsInv
<1>5. CASE PeerCloses
  <2>1. 0 \in Nat
    OBVIOUS
  <2> QED
    BY <1>5, <2>1, ReadKeepsInv
<1>6. CASE UNCHANGED vars
  <2>1. ProbeInv /\ Longest' = Longest /\ Fits' = Fits
    BY <1>6, SameConfiguration DEF vars
  <2> QED
    BY <1>6, <2>1 DEF vars, ProbeInv, VarTypes, Positions, Budget, Lateness, Grid,
                      GreetingJudgedWhole
<1> QED
  BY <1>1, <1>2, <1>3, <1>4, <1>5, <1>6, TickKeepsInv, StepOnKeepsInv, PassKeepsInv
     DEF Next

\* The accounts are right at all times.
LEMMA AlwaysProbeInv == Spec => []ProbeInv
  BY ProbeInvInit, ProbeInvNext, PTL DEF Spec

-----------------------------------------------------------------------------
\* read_greeting_line: however TCP cuts the greeting, the verdict is on the whole of it.
THEOREM VerdictIgnoresReads == Spec => []GreetingJudgedWhole
<1>1. ProbeInv => GreetingJudgedWhole
  BY DEF ProbeInv
<1> QED
  BY AlwaysProbeInv, <1>1, PTL

\* with_probe_timeout: one timeout bounds a probe, two bound a UDP probe.
THEOREM ProbesEndInTime == Spec => []WithinBudget
<1>1. ProbeInv => WithinBudget
  BY DEF ProbeInv, Budget, WithinBudget
<1> QED
  BY AlwaysProbeInv, <1>1, PTL

\* The variables keep their types, and a tick is missed by no more than the longest probe
\* and the lateness of the runtime.
THEOREM TypeCorrect == Spec => []TypeOK
<1>1. ProbeInv => TypeOK
  <2> SUFFICES ASSUME ProbeInv PROVE TypeOK
    OBVIOUS
  <2>0. VarTypes /\ Budget /\ Lateness /\ Grid
    BY DEF ProbeInv
  <2>1. /\ Longest \in Nat /\ MaxLate \in Nat /\ p.interval \in Nat \ {0}
        /\ due \in Int /\ phase \in 0..(p.interval - 1) /\ starts \in {0, 1} /\ spent \in Nat
    BY <2>0, Numbers DEF VarTypes
  <2>2. due <= p.interval
    <3>1. CASE starts = 1
      BY <2>0, <2>1, <3>1 DEF Grid
    <3>2. CASE starts = 0
      BY <2>0, <2>1, <3>2 DEF Grid
    <3> QED
      BY <2>1, <3>1, <3>2
  <2>3. due \in -(Longest + MaxLate)..p.interval /\ spent \in 0..Longest /\ starts \in 0..2
    BY <2>0, <2>1, <2>2 DEF Budget, Lateness
  <2> QED
    BY <2>0, <2>3 DEF VarTypes, TypeOK, Reasons
<1> QED
  BY AlwaysProbeInv, <1>1, PTL

\* MissedTickBehavior::Skip: at most one probe starts in a slot, and exactly one if the
\* longest probe and the lateness of the runtime fit into it.
THEOREM SlotsKept == Spec => SlotsAreKept
<1>1. ASSUME ProbeInv, ProbeInv', [Next]_vars
      PROVE  [Pass /\ phase' = 0 =>
                 starts \in IF Longest + MaxLate < p.interval THEN {1} ELSE {0, 1}]_vars
  <2> SUFFICES ASSUME Pass, phase' = 0
               PROVE  starts \in IF Longest + MaxLate < p.interval THEN {1} ELSE {0, 1}
    OBVIOUS
  <2>1. VarTypes /\ Grid /\ Lateness' /\ p' = p
    BY <1>1 DEF ProbeInv, Pass
  <2> QED
    BY <2>1, SlotEnds DEF Fits
<1> QED
  BY AlwaysProbeInv, <1>1, PTL DEF Spec, SlotsAreKept
=============================================================================
