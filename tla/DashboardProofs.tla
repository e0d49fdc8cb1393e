--------------------------- MODULE DashboardProofs ---------------------------
(***************************************************************************)
(* Proofs about Dashboard, for any set of probes, any number of results,   *)
(* any capacities and any number of lost streams.                          *)
(*                                                                         *)
(* What a page is still to be told is what its receiver has not consumed   *)
(* and what the event loop is about to send.  The stream is in the order   *)
(* of the log and ends, for each probe, with what the web state keeps for  *)
(* it; so a probe of which nothing is to come either shows its latest      *)
(* result already or is in `missed`.                                       *)
(***************************************************************************)
EXTENDS Dashboard, SequenceTheorems, TLAPS

\* The page is still to be told of p.
Coming(p) ==
    \/ webHolds # None /\ log[webHolds] = p
    \/ \E j \in readAt + 1 .. Len(stream) : log[stream[j]] = p

\* The stream is sent in the order of the log, up to where the event loop is.
StreamOrdered ==
    /\ \A j \in 1 .. Len(stream) : stream[j] \in 1 .. webAt
    /\ \A i, j \in 1 .. Len(stream) : i < j => stream[i] < stream[j]
    /\ webHolds # None => webHolds > 0 /\ \A j \in 1 .. Len(stream) : stream[j] < webHolds

\* What `results` holds for a probe is a result of that probe, and it was sent or is about
\* to be.
LatestWasSent ==
    \A p \in Probes :
        /\ latest[p] <= webAt
        /\ latest[p] # None =>
              /\ log[latest[p]] = p
              /\ webHolds = latest[p] \/ \E k \in 1 .. Len(stream) : stream[k] = latest[p]

\* Nothing is newer than `results`, neither in the stream nor in the page.
ResultsAreNewest ==
    /\ SnapshotCoversStream
    /\ webHolds # None => latest[log[webHolds]] = webHolds
    /\ \A p \in Probes : snapshot[p] <= latest[p] /\ rows[p] <= latest[p]
    /\ \A i \in 1 .. Len(pending) :
          /\ pending[i] \in 1 .. webAt
          /\ pending[i] <= latest[log[pending[i]]]

\* Among the results held back for a probe one is the last, as Drained takes for granted.
LastIsHeld ==
    \A i \in 1 .. Len(pending) :
        \E l \in 1 .. Len(pending) :
            /\ log[pending[l]] = log[pending[i]]
            /\ \A j \in 1 .. Len(pending) : log[pending[j]] = log[pending[i]] => j <= l

\* The page seeds its table once, when its fetch is over.
SeededOnce ==
    /\ seeded <=> fetch = "done"
    /\ ~seeded => rows = NoResults

\* The heart of it: where nothing is to come and nothing was missed, nothing is amiss.
ToldOrMissed ==
    \A p \in Probes \ missed : ~Coming(p) => Shown[p] = latest[p]

DashboardInv ==
    /\ TypeOK
    /\ StreamOrdered
    /\ LatestWasSent
    /\ ResultsAreNewest
    /\ LastIsHeld
    /\ SeededOnce
    /\ ToldOrMissed

(***************************************************************************)
(* Sequences and tables.                                                   *)
(***************************************************************************)

\* Appending keeps the old elements in place and puts the new one last.
LEMMA Appended ==
    ASSUME NEW S, NEW s \in Seq(S), NEW e \in S
    PROVE  /\ Append(s, e) \in Seq(S)
           /\ Len(s) \in Nat /\ Len(Append(s, e)) = Len(s) + 1
           /\ Append(s, e)[Len(s) + 1] = e
           /\ \A i \in 1 .. Len(s) : Append(s, e)[i] = s[i]
  OBVIOUS

\* The row of a probe after a table was drained into: its own, if nothing was held back
\* for it, and otherwise the last of what was.
LEMMA DrainedRow ==
    ASSUME NEW table, NEW s, NEW p \in Probes
    PROVE  /\ (\A i \in 1 .. Len(s) : log[s[i]] # p) => Drained(table, s)[p] = table[p]
           /\ \A l \in 1 .. Len(s) :
                 /\ log[s[l]] = p
                 /\ Len(s) \in Nat
                 /\ \A j \in 1 .. Len(s) : log[s[j]] = p => j <= l
                 => Drained(table, s)[p] = s[l]
<1> DEFINE of == {i \in 1 .. Len(s) : log[s[i]] = p}
<1>1. Drained(table, s)[p] = IF of = {} THEN table[p]
                             ELSE s[CHOOSE i \in of : \A j \in of : j <= i]
  BY DEF Drained
<1>2. ASSUME \A i \in 1 .. Len(s) : log[s[i]] # p PROVE Drained(table, s)[p] = table[p]
  <2>1. of = {}
    BY <1>2
  <2> QED
    BY <1>1, <2>1
<1>3. ASSUME NEW l \in 1 .. Len(s), log[s[l]] = p, Len(s) \in Nat,
             \A j \in 1 .. Len(s) : log[s[j]] = p => j <= l
      PROVE  Drained(table, s)[p] = s[l]
  <2>1. l \in of /\ (\A j \in of : j <= l) /\ \A i \in of : i \in Nat
    BY <1>3
  <2>2. \A i \in of : (\A j \in of : j <= i) => i = l
    BY <2>1
  <2>3. (CHOOSE i \in of : \A j \in of : j <= i) = l
    <3> HIDE DEF of
    <3> QED
      BY <2>1, <2>2
  <2> QED
    BY <1>1, <2>1, <2>3
<1> QED
  BY <1>2, <1>3

(***************************************************************************)
(* The types.                                                              *)
(***************************************************************************)

\* Nothing published, nothing sent, nothing shown.
LEMMA DashboardInvInit == Init => DashboardInv
<1> SUFFICES ASSUME Init PROVE DashboardInv
  OBVIOUS
<1>1. TypeOK
  <2>1. log \in Seq(Probes) /\ Len(log) = 0 /\ stream \in Seq(Numbers) /\ Len(stream) = 0
        /\ pending \in Seq(Numbers)
    BY DEF Init
  <2>2. NoResults \in [Probes -> Numbers \cup {None}]
    BY DEF NoResults
  <2>3. 0 \in 0 .. Len(log) /\ 0 \in 0 .. Len(stream) /\ 0 \in 0 .. MaxDrops /\ Len(log) <= NResults
    BY <2>1, DashboardAssumption
  <2> QED
    BY <2>1, <2>2, <2>3 DEF Init, TypeOK
<1>2. Len(stream) = 0 /\ Len(pending) = 0
  BY DEF Init
<1>3. StreamOrdered /\ LatestWasSent /\ LastIsHeld /\ SeededOnce
  BY <1>2 DEF Init, StreamOrdered, LatestWasSent, LastIsHeld, SeededOnce, NoResults, None
<1>4. ResultsAreNewest
  BY <1>2 DEF Init, ResultsAreNewest, SnapshotCoversStream, NoResults, None
<1>5. ToldOrMissed
  BY <1>2, DrainedRow DEF Init, ToldOrMissed, Shown, NoResults
<1> QED
  BY <1>1, <1>3, <1>4, <1>5 DEF DashboardInv

\* The log only grows, and never past what was bounded.
LEMMA LogGrows ==
    ASSUME TypeOK, [Next]_vars
    PROVE  /\ log' \in Seq(Probes) /\ Len(log') <= NResults /\ Len(log') \in Nat
           /\ Len(log) \in Nat /\ Len(log) <= Len(log')
           /\ \A r \in 1 .. Len(log) : log'[r] = log[r] /\ log[r] \in Probes
<1>0. log \in Seq(Probes) /\ Len(log) <= NResults /\ Len(log) \in Nat /\ NResults \in Nat
  BY DashboardAssumption DEF TypeOK
<1>1. ASSUME NEW p \in Probes, Publish(p)
      PROVE  log' = Append(log, p) /\ Len(log) < NResults
  BY <1>1 DEF Publish
<1>2. (\E p \in Probes : Publish(p)) \/ log' = log
  BY DEF Next, DropHub, WebLoop, WebRecv, WebSend, WebLagged, WebClosed, Stream, Subscribe,
         OnMessage, StreamLagged, OnError, Fetch, ServeSnapshot, Seed, SeedFailed, Idle, vars,
         hubVars
<1>3. \A r \in 1 .. Len(log) : log[r] \in Probes
  BY <1>0
<1>4. ASSUME NEW p \in Probes, Publish(p)
      PROVE  /\ log' \in Seq(Probes) /\ Len(log') = Len(log) + 1 /\ Len(log') <= NResults
             /\ \A r \in 1 .. Len(log) : log'[r] = log[r]
  BY <1>0, <1>1, <1>4, Appended
<1> QED
  BY <1>0, <1>2, <1>3, <1>4

\* What the page would show of a probe: the last result held back for it, or the table's.
LEMMA DrainedPending ==
    ASSUME LastIsHeld, pending \in Seq(Numbers), NEW table, NEW p \in Probes
    PROVE  \/ /\ p \notin Held
              /\ Drained(table, pending)[p] = table[p]
           \/ \E l \in 1 .. Len(pending) :
                 /\ log[pending[l]] = p
                 /\ \A j \in 1 .. Len(pending) : log[pending[j]] = p => j <= l
                 /\ Drained(table, pending)[p] = pending[l]
<1>1. CASE \A i \in 1 .. Len(pending) : log[pending[i]] # p
  BY <1>1, DrainedRow DEF Held
<1>2. CASE \E i \in 1 .. Len(pending) : log[pending[i]] = p
  <2>1. PICK l \in 1 .. Len(pending) :
               /\ log[pending[l]] = p
               /\ \A j \in 1 .. Len(pending) : log[pending[j]] = p => j <= l
    BY <1>2 DEF LastIsHeld
  <2>2. Len(pending) \in Nat
    OBVIOUS
  <2>3. Drained(table, pending)[p] = pending[l]
    BY <2>1, <2>2, DrainedRow
  <2> QED
    BY <2>1, <2>3
<1> QED
  BY <1>1, <1>2

\* Draining what was held back gives a table again.
LEMMA DrainedIsTable ==
    ASSUME LastIsHeld, pending \in Seq(Numbers), NEW table \in [Probes -> Numbers \cup {None}]
    PROVE  Drained(table, pending) \in [Probes -> Numbers \cup {None}]
<1>1. ASSUME NEW p \in Probes PROVE Drained(table, pending)[p] \in Numbers \cup {None}
  BY DrainedPending
<1>2. Drained(table, pending) = [p \in Probes |-> Drained(table, pending)[p]]
  BY DEF Drained
<1> QED
  BY <1>1, <1>2

\* Every step keeps the types.
LEMMA TypeNext == TypeOK /\ LastIsHeld /\ [Next]_vars => TypeOK'
<1> SUFFICES ASSUME TypeOK, LastIsHeld, [Next]_vars PROVE TypeOK'
  OBVIOUS
<1>0. /\ webAt \in 0 .. Len(log) /\ Len(log) \in Nat /\ Len(log) <= NResults /\ NResults \in Nat
      /\ webHolds \in {None, webAt} /\ stream \in Seq(Numbers) /\ Len(stream) \in Nat
      /\ pending \in Seq(Numbers) /\ readAt \in 0 .. Len(stream) /\ drops \in 0 .. MaxDrops
      /\ latest \in [Probes -> Numbers \cup {None}] /\ rows \in [Probes -> Numbers \cup {None}]
      /\ snapshot \in [Probes -> Numbers \cup {None}]
      /\ HubSlots \in Nat \ {0} /\ SseSlots \in Nat \ {0} /\ MaxDrops \in Nat
      /\ missed \subseteq Probes
  BY DashboardAssumption DEF TypeOK
<1>1. /\ log' \in Seq(Probes) /\ Len(log') <= NResults /\ Len(log') \in Nat
      /\ webAt \in 0 .. Len(log')
  BY <1>0, LogGrows
<1>2. CASE (\E p \in Probes : Publish(p)) \/ DropHub
  <2>1. UNCHANGED <<webVars, streamVars, fetchVars, pending, rows, toldVars>> /\ hubOpen' \in BOOLEAN
    BY <1>2 DEF Publish, DropHub, TypeOK
  <2> QED
    BY <1>1, <2>1 DEF TypeOK, webVars, streamVars, fetchVars, toldVars
<1>3. CASE WebRecv
  <2>1. /\ webAt' = webAt + 1 /\ webAt' \in Numbers /\ webAt' \in 0 .. Len(log') /\ webHolds' = webAt'
        /\ latest' = [latest EXCEPT ![log[webAt + 1]] = webAt + 1]
        /\ UNCHANGED <<webDone, stream, hubVars, streamVars, fetchVars, pending, rows, toldVars>>
    BY <1>0, <1>3 DEF WebRecv, Numbers, hubVars
  <2>2. latest' \in [Probes -> Numbers \cup {None}]
    BY <1>0, <2>1
  <2> QED
    BY <1>1, <2>1, <2>2 DEF TypeOK, hubVars, streamVars, fetchVars, toldVars
<1>4. CASE WebSend
  <2>1. webHolds \in Numbers
    BY <1>0, <1>4 DEF WebSend, Numbers, None
  <2>2. stream' \in Seq(Numbers) /\ Len(stream') = Len(stream) + 1
    BY <1>0, <1>4, <2>1, Appended DEF WebSend
  <2>3. readAt \in 0 .. Len(stream')
    BY <1>0, <2>2
  <2> QED
    BY <1>1, <1>4, <2>2, <2>3 DEF WebSend, TypeOK, hubVars, streamVars, fetchVars, toldVars
<1>5. CASE WebLagged \/ WebClosed
  <2>1. webAt' \in 0 .. Len(log') /\ webHolds' = None /\ webDone' \in BOOLEAN
    <3>1. CASE WebLagged
      BY <1>0, <1>1, <3>1 DEF WebLagged, WebLagging, hubVars, TypeOK
    <3>2. CASE WebClosed
      BY <1>0, <1>1, <3>2 DEF WebClosed, hubVars
    <3> QED
      BY <1>5, <3>1, <3>2
  <2>2. UNCHANGED <<latest, stream, hubVars, streamVars, fetchVars, pending, rows, toldVars>>
    BY <1>5 DEF WebLagged, WebClosed
  <2> QED
    BY <1>1, <2>1, <2>2 DEF TypeOK, hubVars, streamVars, fetchVars, toldVars
<1>6. CASE Subscribe \/ StreamLagged \/ OnError
  <2>1. /\ readAt' \in 0 .. Len(stream) /\ drops' \in 0 .. MaxDrops /\ connected' \in BOOLEAN
        /\ missed' \subseteq Probes /\ lost' \in BOOLEAN
    <3>1. CASE Subscribe
      BY <1>0, <3>1 DEF Subscribe, MissedUpTo, TypeOK
    <3>2. CASE StreamLagged
      BY <1>0, <3>2 DEF StreamLagged, StreamLagging, MissedUpTo, TypeOK
    <3>3. CASE OnError
      <4>1. readAt' \in 0 .. Len(stream) /\ drops' \in 0 .. MaxDrops /\ missed' \subseteq Probes
        BY <1>0, <3>3 DEF OnError
      <4>2. connected' \in BOOLEAN /\ lost' \in BOOLEAN
        BY <3>3 DEF OnError
      <4> QED
        BY <4>1, <4>2
    <3> QED
      BY <1>6, <3>1, <3>2, <3>3
  <2>2. UNCHANGED <<hubVars, webVars, fetchVars, pending, rows>>
    BY <1>6 DEF Subscribe, StreamLagged, OnError
  <2> QED
    BY <1>1, <2>1, <2>2 DEF TypeOK, hubVars, webVars, fetchVars
<1>7. CASE OnMessage
  <2>1. readAt + 1 \in 1 .. Len(stream) /\ stream[readAt + 1] \in Numbers
    BY <1>0, <1>7 DEF OnMessage
  <2>2. pending' \in Seq(Numbers)
    <3>1. pending' = pending \/ pending' = Append(pending, stream[readAt + 1])
      BY <1>7 DEF OnMessage
    <3>2. Append(pending, stream[readAt + 1]) \in Seq(Numbers)
      BY <1>0, <2>1
    <3> QED
      BY <1>0, <3>1, <3>2
  <2>3. rows' \in [Probes -> Numbers \cup {None}]
    BY <1>0, <1>7, <2>1 DEF OnMessage, Upserted
  <2>4. /\ readAt' \in 0 .. Len(stream') /\ missed' \subseteq Probes
        /\ UNCHANGED <<connected, drops, hubVars, webVars, fetchVars, lost>>
    BY <1>0, <1>7, <2>1 DEF OnMessage, webVars, TypeOK
  <2> QED
    BY <1>1, <2>2, <2>3, <2>4 DEF TypeOK, hubVars, webVars, fetchVars
<1>8. CASE Fetch
  <2>1. /\ fetch' \in {"asked", "served", "done"} /\ seeded' \in BOOLEAN
        /\ pending' \in Seq(Numbers) /\ missed' \subseteq Probes /\ lost' \in BOOLEAN
    <3>1. CASE ServeSnapshot
      BY <1>0, <3>1 DEF ServeSnapshot, TypeOK
    <3>2. CASE Seed
      BY <1>0, <3>2 DEF Seed, TypeOK, toldVars
    <3>3. CASE SeedFailed
      BY <1>0, <3>3 DEF SeedFailed, TypeOK
    <3> QED
      BY <1>8, <3>1, <3>2, <3>3 DEF Fetch
  <2>2. snapshot' \in [Probes -> Numbers \cup {None}] /\ rows' \in [Probes -> Numbers \cup {None}]
    BY <1>0, <1>8, DrainedIsTable DEF Fetch, ServeSnapshot, Seed, SeedFailed
  <2>3. UNCHANGED <<hubVars, webVars, streamVars>>
    BY <1>8 DEF Fetch, ServeSnapshot, Seed, SeedFailed
  <2> QED
    BY <1>1, <2>1, <2>2, <2>3 DEF TypeOK, hubVars, webVars, streamVars
<1>9. CASE Idle \/ UNCHANGED vars
  BY <1>9 DEF Idle, vars, hubVars, webVars, streamVars, fetchVars, toldVars, TypeOK
<1> QED
  BY <1>2, <1>3, <1>4, <1>5, <1>6, <1>7, <1>8, <1>9 DEF Next, WebLoop, Stream

(***************************************************************************)
(* The event loop and its stream.                                          *)
(***************************************************************************)

\* What the arithmetic below needs of the types.
LEMMA Ranges ==
    ASSUME TypeOK
    PROVE  /\ webAt \in Nat /\ webAt <= Len(log) /\ Len(log) \in Nat /\ webHolds \in {None, webAt}
           /\ Len(stream) \in Nat /\ readAt \in Nat /\ readAt <= Len(stream)
           /\ stream \in Seq(Numbers) /\ \A i \in 1 .. Len(stream) : stream[i] \in Nat
           /\ pending \in Seq(Numbers) /\ Len(pending) \in Nat
           /\ \A i \in 1 .. Len(pending) : pending[i] \in Nat
           /\ latest \in [Probes -> Nat] /\ snapshot \in [Probes -> Nat] /\ rows \in [Probes -> Nat]
           /\ \A r \in 1 .. webAt : r \in 1 .. Len(log) /\ log[r] \in Probes
<1>1. Numbers \subseteq Nat /\ None \in Nat
  BY DEF Numbers, None
<1>2. log \in Seq(Probes) /\ Len(log) \in Nat /\ webAt \in 0 .. Len(log)
  BY DEF TypeOK
<1>3. /\ stream \in Seq(Numbers) /\ pending \in Seq(Numbers) /\ readAt \in 0 .. Len(stream)
      /\ webHolds \in {None, webAt}
      /\ latest \in [Probes -> Nat] /\ snapshot \in [Probes -> Nat] /\ rows \in [Probes -> Nat]
  BY <1>1 DEF TypeOK
<1>4. \A i \in 1 .. Len(stream) : stream[i] \in Nat
  <2>1. \A i \in 1 .. Len(stream) : stream[i] \in Numbers
    BY <1>3
  <2> QED
    BY <1>1, <2>1
<1>5. \A i \in 1 .. Len(pending) : pending[i] \in Nat
  <2>1. \A i \in 1 .. Len(pending) : pending[i] \in Numbers
    BY <1>3
  <2> QED
    BY <1>1, <2>1
<1>6. \A r \in 1 .. webAt : r \in 1 .. Len(log) /\ log[r] \in Probes
  BY <1>2
<1> QED
  BY <1>2, <1>3, <1>4, <1>5, <1>6

\* Only the event loop moves the web state.
LEMMA WebMoves ==
    ASSUME [Next]_vars
    PROVE  \/ WebRecv \/ WebSend \/ WebLagged
           \/ UNCHANGED <<webAt, webHolds, latest, stream>>
  BY DEF Next, Publish, DropHub, WebLoop, WebClosed, Stream, Subscribe, OnMessage, StreamLagged,
         OnError, Fetch, ServeSnapshot, Seed, SeedFailed, Idle, vars, webVars

\* Sending puts the held result after all that was sent.
LEMMA Sent ==
    ASSUME TypeOK, StreamOrdered, WebSend
    PROVE  /\ webHolds = webAt /\ webAt > 0 /\ webHolds' = None
           /\ Len(stream') = Len(stream) + 1
           /\ stream'[Len(stream) + 1] = webAt
           /\ \A i \in 1 .. Len(stream) : stream'[i] = stream[i] /\ stream[i] < webAt
           /\ UNCHANGED <<webAt, latest, hubVars>>
<1>1. webHolds = webAt /\ webAt \in Numbers /\ webAt > 0
  <2>1. webHolds # None /\ webHolds = webAt /\ webHolds > 0
    BY Ranges DEF WebSend, StreamOrdered
  <2>2. webAt \in Nat /\ webAt <= NResults /\ NResults \in Nat
    BY Ranges, DashboardAssumption DEF TypeOK
  <2> QED
    BY <2>1, <2>2 DEF Numbers
<1>2. stream' = Append(stream, webAt)
  BY <1>1 DEF WebSend
<1>3. /\ Len(stream') = Len(stream) + 1 /\ stream'[Len(stream) + 1] = webAt
      /\ \A i \in 1 .. Len(stream) : stream'[i] = stream[i]
  BY <1>1, <1>2, Ranges, Appended
<1>4. \A i \in 1 .. Len(stream) : stream[i] < webAt
  BY <1>1 DEF StreamOrdered, WebSend
<1> QED
  BY <1>1, <1>3, <1>4 DEF WebSend

\* The event loop sends in the order in which it receives.
LEMMA OrderedNext == TypeOK /\ StreamOrdered /\ [Next]_vars => StreamOrdered'
<1> SUFFICES ASSUME TypeOK, StreamOrdered, [Next]_vars PROVE StreamOrdered'
  OBVIOUS
<1>0. /\ webAt \in Nat /\ Len(stream) \in Nat
      /\ \A j \in 1 .. Len(stream) : stream[j] \in Nat /\ stream[j] \in 1 .. webAt
      /\ \A i, j \in 1 .. Len(stream) : i < j => stream[i] < stream[j]
  BY Ranges DEF StreamOrdered
<1>1. CASE WebRecv
  <2>1. webHolds' = webAt + 1 /\ webAt' = webAt + 1 /\ stream' = stream
    BY <1>1 DEF WebRecv
  <2> QED
    BY <2>1, Ranges DEF StreamOrdered
<1>2. CASE WebSend
  <2>1. /\ webAt > 0 /\ webHolds' = None /\ webAt' = webAt /\ Len(stream') = Len(stream) + 1
        /\ stream'[Len(stream) + 1] = webAt
        /\ \A i \in 1 .. Len(stream) : stream'[i] = stream[i] /\ stream[i] < webAt
    BY <1>2, Sent
  <2>2. \A j \in 1 .. Len(stream') : stream'[j] \in 1 .. webAt
    BY <1>0, <2>1
  <2>3. \A i, j \in 1 .. Len(stream') : i < j => stream'[i] < stream'[j]
    <3> TAKE i, j \in 1 .. Len(stream')
    <3>1. CASE j = Len(stream) + 1
      BY <1>0, <2>1, <3>1
    <3>2. CASE j # Len(stream) + 1
      BY <1>0, <2>1, <3>2
    <3> QED
      BY <3>1, <3>2
  <2> QED
    BY <2>1, <2>2, <2>3 DEF StreamOrdered
<1>3. CASE WebLagged
  <2>1. webAt' \in Nat /\ webAt' >= webAt /\ webHolds' = None /\ stream' = stream
    BY <1>3, Ranges, DashboardAssumption DEF WebLagged, WebLagging
  <2> QED
    BY <2>1, Ranges DEF StreamOrdered
<1>4. CASE UNCHANGED <<webAt, webHolds, latest, stream>>
  BY <1>4 DEF StreamOrdered
<1> QED
  BY <1>1, <1>2, <1>3, <1>4, WebMoves

\* The probe of a result that the event loop has passed does not change.
LEMMA ProbeStays ==
    ASSUME TypeOK, [Next]_vars, NEW r \in 1 .. webAt
    PROVE  log'[r] = log[r]
  BY Ranges, LogGrows

\* The event loop sends what it has put into `results`, and a full channel drops old ones only.
LEMMA SentNext ==
    TypeOK /\ StreamOrdered /\ LatestWasSent /\ [Next]_vars => LatestWasSent'
<1> SUFFICES ASSUME TypeOK, StreamOrdered, LatestWasSent, [Next]_vars, NEW p \in Probes
             PROVE  /\ latest'[p] <= webAt'
                    /\ latest'[p] # None =>
                          /\ log'[latest'[p]] = p
                          /\ \/ webHolds' = latest'[p]
                             \/ \E k \in 1 .. Len(stream') : stream'[k] = latest'[p]
  BY DEF LatestWasSent
<1>0. /\ latest[p] <= webAt /\ latest[p] \in Nat
      /\ latest[p] # None =>
            /\ log[latest[p]] = p /\ log'[latest[p]] = p
            /\ webHolds = latest[p] \/ \E k \in 1 .. Len(stream) : stream[k] = latest[p]
  BY Ranges, ProbeStays DEF LatestWasSent, None
<1>1. CASE WebRecv
  <2>1. /\ webHolds = None /\ webHolds' = webAt + 1 /\ webAt' = webAt + 1
        /\ latest' = [latest EXCEPT ![log[webAt + 1]] = webAt + 1]
        /\ UNCHANGED <<stream, log>>
    BY <1>1 DEF WebRecv, hubVars
  <2>2. CASE p = log[webAt + 1]
    BY <2>1, <2>2, Ranges
  <2>3. CASE p # log[webAt + 1]
    BY <1>0, <2>1, <2>3, Ranges
  <2> QED
    BY <2>2, <2>3
<1>2. CASE WebSend
  <2>1. /\ webHolds = webAt /\ webAt' = webAt /\ latest' = latest
        /\ Len(stream) \in Nat /\ Len(stream') = Len(stream) + 1
        /\ stream'[Len(stream) + 1] = webAt
        /\ \A i \in 1 .. Len(stream) : stream'[i] = stream[i]
    BY <1>2, Sent, Ranges
  <2>2. ASSUME latest[p] # None
        PROVE  \E k \in 1 .. Len(stream') : stream'[k] = latest[p]
    <3>1. CASE webHolds = latest[p]
      BY <2>1, <3>1
    <3>2. CASE \E k \in 1 .. Len(stream) : stream[k] = latest[p]
      <4>1. PICK k \in 1 .. Len(stream) : stream[k] = latest[p]
        BY <3>2
      <4>2. k \in 1 .. Len(stream') /\ stream'[k] = stream[k]
        BY <2>1
      <4> QED
        BY <4>1, <4>2
    <3> QED
      BY <1>0, <2>2, <3>1, <3>2
  <2> QED
    BY <1>0, <2>1, <2>2
<1>3. CASE WebLagged
  <2>1. webAt' \in Nat /\ webAt' >= webAt /\ UNCHANGED <<webHolds, latest, stream>>
    BY <1>3, Ranges, DashboardAssumption DEF WebLagged, WebLagging
  <2> QED
    BY <1>0, <2>1, Ranges
<1>4. CASE UNCHANGED <<webAt, webHolds, latest, stream>>
  BY <1>0, <1>4
<1> QED
  BY <1>1, <1>2, <1>3, <1>4, WebMoves

\* The event loop never replaces a result by an older one.
LEMMA LatestGrows ==
    ASSUME TypeOK, LatestWasSent, [Next]_vars, NEW p \in Probes
    PROVE  latest'[p] >= latest[p]
<1>1. latest[p] \in Nat /\ latest[p] <= webAt
  BY Ranges DEF LatestWasSent
<1>2. CASE WebRecv
  BY <1>1, <1>2, Ranges DEF WebRecv
<1>3. CASE latest' = latest
  BY <1>1, <1>3
<1> QED
  BY <1>2, <1>3, WebMoves DEF WebSend, WebLagged

\* What the page does not change, the event loop does, and the other way round.
LEMMA PageMoves ==
    ASSUME [Next]_vars
    PROVE  \/ OnMessage \/ ServeSnapshot \/ Seed \/ SeedFailed
           \/ UNCHANGED <<fetchVars, pending, rows>>
  BY DEF Next, Publish, DropHub, WebLoop, WebRecv, WebSend, WebLagged, WebClosed, Stream, Subscribe,
         StreamLagged, OnError, Fetch, Idle, vars

\* One message: the next one of the stream, for the table or to be held back.
LEMMA MessageRead ==
    ASSUME TypeOK, StreamOrdered, OnMessage
    PROVE  LET r == stream[readAt + 1] IN
           /\ readAt + 1 \in 1 .. Len(stream) /\ readAt' = readAt + 1
           /\ r \in 1 .. webAt /\ log[r] \in Probes
           /\ IF seeded
              THEN rows' = [rows EXCEPT ![log[r]] = r] /\ pending' = pending
              ELSE /\ rows' = rows
                   /\ Len(pending') = Len(pending) + 1 /\ pending'[Len(pending) + 1] = r
                   /\ \A i \in 1 .. Len(pending) : pending'[i] = pending[i]
           /\ missed' = missed \ {log[r]}
           /\ UNCHANGED <<hubVars, webVars, fetchVars>>
<1> DEFINE r == stream[readAt + 1]
<1>1. readAt + 1 \in 1 .. Len(stream)
  BY Ranges DEF OnMessage
<1>2. r \in 1 .. webAt /\ log[r] \in Probes /\ r \in Numbers
  BY <1>1, Ranges DEF StreamOrdered
<1>3. ~seeded => pending' = Append(pending, r)
  BY DEF OnMessage
<1>4. ~seeded => /\ Len(pending') = Len(pending) + 1 /\ pending'[Len(pending) + 1] = r
                 /\ \A i \in 1 .. Len(pending) : pending'[i] = pending[i]
  BY <1>2, <1>3, Ranges, Appended
<1>5. IF seeded THEN rows' = [rows EXCEPT ![log[r]] = r] /\ pending' = pending ELSE rows' = rows
  BY DEF OnMessage, Upserted
<1> QED
  BY <1>1, <1>2, <1>4, <1>5 DEF OnMessage

\* Neither a message nor a snapshot brings the page something newer than `results`.
LEMMA NewestNext ==
    TypeOK /\ StreamOrdered /\ LatestWasSent /\ ResultsAreNewest /\ LastIsHeld /\ [Next]_vars
        => ResultsAreNewest'
<1> SUFFICES ASSUME TypeOK, StreamOrdered, LatestWasSent, ResultsAreNewest, LastIsHeld, [Next]_vars
             PROVE  ResultsAreNewest'
  OBVIOUS
<1>0. /\ \A p \in Probes : /\ latest[p] \in Nat /\ latest'[p] \in Nat /\ latest'[p] >= latest[p]
                           /\ snapshot[p] \in Nat /\ rows[p] \in Nat
                           /\ snapshot[p] <= latest[p] /\ rows[p] <= latest[p]
      /\ \A r \in 1 .. webAt : r \in Nat /\ log[r] \in Probes /\ log'[r] = log[r]
      /\ webAt \in Nat /\ Len(stream) \in Nat /\ Len(pending) \in Nat
      /\ \A j \in 1 .. Len(stream) : stream[j] \in 1 .. webAt /\ stream[j] <= latest[log[stream[j]]]
      /\ \A i \in 1 .. Len(pending) : pending[i] \in 1 .. webAt /\ pending[i] <= latest[log[pending[i]]]
      /\ webHolds # None => webHolds = webAt /\ webAt > 0 /\ latest[log[webAt]] = webAt
  <2>1. TypeOK'
    BY TypeNext
  <2>2. \A p \in Probes : latest'[p] \in Nat
    BY <2>1 DEF TypeOK, Numbers, None
  <2>3. \A p \in Probes : /\ latest[p] \in Nat /\ snapshot[p] \in Nat /\ rows[p] \in Nat
    BY Ranges
  <2>4. /\ \A r \in 1 .. webAt : r \in Nat /\ log[r] \in Probes
        /\ webAt \in Nat /\ Len(stream) \in Nat /\ Len(pending) \in Nat /\ webHolds \in {None, webAt}
    BY Ranges
  <2> QED
    BY <2>2, <2>3, <2>4, LatestGrows, ProbeStays
    DEF ResultsAreNewest, SnapshotCoversStream, StreamOrdered
<1>1. SnapshotCoversStream' /\ (webHolds' # None => latest'[log'[webHolds']] = webHolds')
  <2>1. CASE WebRecv
    <3>1. /\ webHolds' = webAt + 1 /\ log' = log /\ stream' = stream
          /\ log[webAt + 1] \in Probes
          /\ latest' = [latest EXCEPT ![log[webAt + 1]] = webAt + 1]
      <4>1. log \in Seq(Probes) /\ webAt + 1 \in 1 .. Len(log)
        BY <2>1, Ranges DEF WebRecv, TypeOK
      <4> QED
        BY <2>1, <4>1 DEF WebRecv, hubVars
    <3>2. latest'[log[webAt + 1]] = webAt + 1
      BY <3>1, Ranges
    <3> QED
      BY <1>0, <3>1, <3>2 DEF SnapshotCoversStream
  <2>2. CASE WebSend
    <3>1. /\ webHolds' = None /\ webHolds = webAt /\ webAt > 0 /\ latest' = latest
          /\ Len(stream') = Len(stream) + 1 /\ stream'[Len(stream) + 1] = webAt
          /\ \A i \in 1 .. Len(stream) : stream'[i] = stream[i]
      BY <2>2, Sent
    <3>2. ASSUME NEW j \in 1 .. Len(stream') PROVE stream'[j] <= latest'[log'[stream'[j]]]
      <4>1. CASE j = Len(stream) + 1
        <5>1. latest[log[webAt]] = webAt /\ webAt \in 1 .. webAt
          BY <1>0, <2>2, <3>1 DEF WebSend
        <5> QED
          BY <1>0, <3>1, <4>1, <5>1
      <4>2. CASE j # Len(stream) + 1
        <5>1. j \in 1 .. Len(stream)
          BY <1>0, <3>1, <4>2
        <5> QED
          BY <1>0, <3>1, <5>1
      <4> QED
        BY <4>1, <4>2
    <3> QED
      BY <3>1, <3>2 DEF SnapshotCoversStream
  <2>3. CASE WebLagged \/ UNCHANGED <<webAt, webHolds, latest, stream>>
    <3>1. UNCHANGED <<webHolds, latest, stream>>
      BY <2>3 DEF WebLagged
    <3> QED
      BY <1>0, <3>1 DEF SnapshotCoversStream
  <2> QED
    BY <2>1, <2>2, <2>3, WebMoves
<1>2. ASSUME NEW table \in [Probes -> Nat], \A q \in Probes : table[q] <= latest[q], NEW p \in Probes
      PROVE  Drained(table, pending)[p] <= latest[p]
  <2>1. pending \in Seq(Numbers)
    BY DEF TypeOK
  <2> QED
    BY <1>0, <1>2, <2>1, DrainedPending
<1>3. \A p \in Probes : snapshot'[p] <= latest'[p] /\ rows'[p] <= latest'[p]
  <2>1. CASE OnMessage
    <3>1. snapshot' = snapshot /\ latest' = latest
      BY <2>1, MessageRead DEF fetchVars, webVars
    <3>2. rows' = rows \/ rows' = [rows EXCEPT ![log[stream[readAt + 1]]] = stream[readAt + 1]]
      BY <2>1, MessageRead
    <3>3. readAt + 1 \in 1 .. Len(stream)
      BY <2>1, MessageRead
    <3> QED
      BY <1>0, <3>1, <3>2, <3>3, Ranges
  <2>2. CASE ServeSnapshot
    BY <1>0, <2>2 DEF ServeSnapshot, webVars
  <2>3. CASE Seed
    <3>1. snapshot \in [Probes -> Nat]
      BY Ranges
    <3>2. \A p \in Probes : Drained(snapshot, pending)[p] <= latest[p]
      BY <1>0, <1>2, <3>1
    <3> QED
      BY <1>0, <2>3, <3>2 DEF Seed, webVars
  <2>4. CASE SeedFailed
    <3>1. rows \in [Probes -> Nat]
      BY Ranges
    <3>2. \A p \in Probes : Drained(rows, pending)[p] <= latest[p]
      BY <1>0, <1>2, <3>1
    <3> QED
      BY <1>0, <2>4, <3>2 DEF SeedFailed, webVars
  <2>5. CASE UNCHANGED <<fetchVars, pending, rows>>
    BY <1>0, <2>5 DEF fetchVars
  <2> QED
    BY <2>1, <2>2, <2>3, <2>4, <2>5, PageMoves
<1>4. webAt' \in Nat /\ webAt' >= webAt
  BY WebMoves, Ranges, DashboardAssumption DEF WebRecv, WebSend, WebLagged, WebLagging
<1>5. ASSUME NEW r \in 1 .. webAt, r <= latest[log[r]]
      PROVE  r \in 1 .. webAt' /\ r <= latest'[log'[r]]
  <2>1. r \in 1 .. webAt'
    BY <1>0, <1>4
  <2>2. log'[r] = log[r] /\ log[r] \in Probes /\ r \in Nat
    BY <1>0
  <2>3. latest'[log[r]] >= latest[log[r]] /\ latest[log[r]] \in Nat /\ latest'[log[r]] \in Nat
    BY <1>0, <2>2
  <2> QED
    BY <1>5, <2>1, <2>2, <2>3
<1>6. \A i \in 1 .. Len(pending') :
         pending'[i] \in 1 .. webAt' /\ pending'[i] <= latest'[log'[pending'[i]]]
  <2>1. CASE OnMessage /\ ~seeded
    <3>1. /\ readAt + 1 \in 1 .. Len(stream)
          /\ Len(pending') = Len(pending) + 1 /\ pending'[Len(pending) + 1] = stream[readAt + 1]
          /\ \A i \in 1 .. Len(pending) : pending'[i] = pending[i]
      BY <2>1, MessageRead
    <3>2. TAKE i \in 1 .. Len(pending')
    <3>3. CASE i = Len(pending) + 1
      <4>1. pending'[i] = stream[readAt + 1]
        BY <3>1, <3>3
      <4>2. /\ stream[readAt + 1] \in 1 .. webAt
            /\ stream[readAt + 1] <= latest[log[stream[readAt + 1]]]
        BY <1>0, <3>1
      <4> QED
        BY <1>5, <4>1, <4>2
    <3>4. CASE i # Len(pending) + 1
      <4>1. i \in 1 .. Len(pending)
        BY <1>0, <3>1, <3>4
      <4>2. pending'[i] = pending[i]
        BY <3>1, <4>1
      <4>3. pending[i] \in 1 .. webAt /\ pending[i] <= latest[log[pending[i]]]
        BY <1>0, <4>1
      <4> QED
        BY <1>5, <4>2, <4>3
    <3> QED
      BY <3>3, <3>4
  <2>2. CASE pending' = <<>>
    BY <2>2
  <2>3. CASE pending' = pending
    BY <1>0, <1>4, <2>3
  <2> QED
    BY <2>1, <2>2, <2>3, PageMoves DEF OnMessage, ServeSnapshot, Seed, SeedFailed
<1> QED
  BY <1>1, <1>3, <1>6 DEF ResultsAreNewest

\* Among the results held back for a probe one stays the last.
LEMMA HeldNext ==
    TypeOK /\ StreamOrdered /\ ResultsAreNewest /\ LastIsHeld /\ [Next]_vars => LastIsHeld'
<1> SUFFICES ASSUME TypeOK, StreamOrdered, ResultsAreNewest, LastIsHeld, [Next]_vars
             PROVE  LastIsHeld'
  OBVIOUS
<1>0. /\ Len(pending) \in Nat
      /\ \A i \in 1 .. Len(pending) : pending[i] \in 1 .. webAt
      /\ \A r \in 1 .. webAt : log'[r] = log[r]
  BY Ranges, ProbeStays DEF ResultsAreNewest
<1>1. CASE OnMessage /\ ~seeded
  <2> DEFINE r == stream[readAt + 1]
             n == Len(pending) + 1
  <2>1. /\ r \in 1 .. webAt /\ Len(pending') = n /\ pending'[n] = r
        /\ \A i \in 1 .. Len(pending) : pending'[i] = pending[i]
    BY <1>1, MessageRead
  <2>2. \A i \in 1 .. n : log'[pending'[i]] = log[pending'[i]]
    <3>1. \A i \in 1 .. n : pending'[i] \in 1 .. webAt
      BY <1>0, <2>1
    <3> QED
      BY <1>0, <3>1
  <2>3. ASSUME NEW i \in 1 .. n
        PROVE  \E l \in 1 .. n :
                  /\ log[pending'[l]] = log[pending'[i]]
                  /\ \A j \in 1 .. n : log[pending'[j]] = log[pending'[i]] => j <= l
    <3>1. CASE log[pending'[i]] = log[r]
      <4>1. n \in 1 .. n /\ \A j \in 1 .. n : j <= n
        BY <1>0
      <4> QED
        BY <2>1, <3>1, <4>1
    <3>2. CASE log[pending'[i]] # log[r]
      <4>1. i \in 1 .. Len(pending) /\ pending'[i] = pending[i]
        BY <1>0, <2>1, <3>2
      <4>2. PICK l \in 1 .. Len(pending) :
                   /\ log[pending[l]] = log[pending[i]]
                   /\ \A j \in 1 .. Len(pending) : log[pending[j]] = log[pending[i]] => j <= l
        BY <4>1 DEF LastIsHeld
      <4>3. \A j \in 1 .. n : log[pending'[j]] = log[pending'[i]] => j \in 1 .. Len(pending)
        BY <1>0, <2>1, <3>2
      <4>4. \A j \in 1 .. Len(pending) : j \in 1 .. n /\ pending'[j] = pending[j]
        BY <1>0, <2>1
      <4>5. l \in 1 .. n /\ log[pending'[l]] = log[pending'[i]]
        BY <4>1, <4>2, <4>4
      <4>6. ASSUME NEW j \in 1 .. n, log[pending'[j]] = log[pending'[i]] PROVE j <= l
        BY <4>1, <4>2, <4>3, <4>4, <4>6
      <4> QED
        BY <4>5, <4>6
    <3> QED
      BY <3>1, <3>2
  <2>4. \A i \in 1 .. n : \E l \in 1 .. n :
            /\ log'[pending'[l]] = log'[pending'[i]]
            /\ \A j \in 1 .. n : log'[pending'[j]] = log'[pending'[i]] => j <= l
    BY <2>2, <2>3
  <2> QED
    BY <2>1, <2>4 DEF LastIsHeld
<1>2. CASE pending' = <<>>
  BY <1>2 DEF LastIsHeld
<1>3. CASE pending' = pending
  <2>1. \A i \in 1 .. Len(pending) : log'[pending[i]] = log[pending[i]]
    BY <1>0
  <2> QED
    BY <1>3, <2>1 DEF LastIsHeld
<1> QED
  BY <1>1, <1>2, <1>3, PageMoves DEF OnMessage, ServeSnapshot, Seed, SeedFailed

(***************************************************************************)
(* The page.                                                               *)
(***************************************************************************)

\* The page seeds its table when its fetch ends, and never again.
LEMMA SeededNext == SeededOnce /\ [Next]_vars => SeededOnce'
<1> SUFFICES ASSUME SeededOnce, [Next]_vars PROVE SeededOnce'
  OBVIOUS
<1>1. CASE OnMessage
  BY <1>1 DEF OnMessage, SeededOnce, fetchVars
<1>2. CASE ServeSnapshot
  BY <1>2 DEF ServeSnapshot, SeededOnce
<1>3. CASE Seed \/ SeedFailed
  BY <1>3 DEF Seed, SeedFailed, SeededOnce
<1>4. CASE UNCHANGED <<fetchVars, pending, rows>>
  BY <1>4 DEF SeededOnce, fetchVars
<1> QED
  BY <1>1, <1>2, <1>3, <1>4, PageMoves

\* The page never shows more than the web state has.
LEMMA ShownIsOlder ==
    ASSUME TypeOK, ResultsAreNewest, LastIsHeld, NEW p \in Probes
    PROVE  Shown[p] \in Nat /\ Shown[p] <= latest[p]
<1>1. rows[p] \in Nat /\ rows[p] <= latest[p] /\ snapshot[p] \in Nat /\ snapshot[p] <= latest[p]
  BY Ranges DEF ResultsAreNewest
<1>2. Drained(snapshot, pending)[p] \in Nat /\ Drained(snapshot, pending)[p] <= latest[p]
  <2>1. \A l \in 1 .. Len(pending) : pending[l] \in Nat /\ pending[l] <= latest[log[pending[l]]]
    BY Ranges DEF ResultsAreNewest
  <2>2. pending \in Seq(Numbers)
    BY DEF TypeOK
  <2> QED
    BY <1>1, <2>1, <2>2, DrainedPending
<1> QED
  BY <1>1, <1>2 DEF Shown

\* What is not in flight either was never anything, or was sent last of its probe.
LEMMA LastSent ==
    ASSUME TypeOK, StreamOrdered, LatestWasSent, ResultsAreNewest, NEW p \in Probes,
           ~(webHolds # None /\ log[webHolds] = p),
           NEW j \in 1 .. Len(stream), log[stream[j]] = p
    PROVE  \E k \in j .. Len(stream) : stream[k] = latest[p] /\ log[stream[k]] = p
<1>1. stream[j] \in Nat /\ stream[j] > 0 /\ stream[j] <= latest[p] /\ latest[p] \in Nat
  BY Ranges DEF StreamOrdered, ResultsAreNewest, SnapshotCoversStream
<1>2. latest[p] # None /\ log[latest[p]] = p
  BY <1>1 DEF LatestWasSent, None
<1>3. PICK k \in 1 .. Len(stream) : stream[k] = latest[p]
  BY <1>2 DEF LatestWasSent
<1>4. k >= j
  <2>1. ~(k < j)
    BY <1>1, <1>3 DEF StreamOrdered
  <2> QED
    BY <2>1
<1> QED
  BY <1>2, <1>3, <1>4, Ranges

\* A receiver that goes on after the n-th message has missed what it had not shown.
LEMMA SkippedIsMissed ==
    ASSUME TypeOK, StreamOrdered, LatestWasSent, ResultsAreNewest, LastIsHeld, ToldOrMissed,
           NEW n \in readAt .. Len(stream), NEW p \in Probes \ (missed \cup MissedUpTo(n)),
           ~(webHolds # None /\ log[webHolds] = p),
           \A j \in n + 1 .. Len(stream) : log[stream[j]] # p
    PROVE  Shown[p] = latest[p]
<1>0. readAt \in Nat /\ Len(stream) \in Nat /\ readAt <= Len(stream)
  BY Ranges
<1>1. CASE \A j \in readAt + 1 .. Len(stream) : log[stream[j]] # p
  BY <1>1 DEF ToldOrMissed, Coming
<1>2. CASE \E j \in readAt + 1 .. Len(stream) : log[stream[j]] = p
  <2>1. PICK j \in readAt + 1 .. Len(stream) : log[stream[j]] = p
    BY <1>2
  <2>2. j \in 1 .. Len(stream)
    BY <1>0
  <2>3. PICK k \in j .. Len(stream) : stream[k] = latest[p] /\ log[stream[k]] = p
    BY <2>1, <2>2, LastSent
  <2>4. k \in readAt + 1 .. n
    BY <1>0, <2>2, <2>3
  <2>5. ~(stream[k] > Shown[p])
    BY <2>3, <2>4 DEF MissedUpTo
  <2>6. Shown[p] \in Nat /\ Shown[p] <= latest[p] /\ latest[p] \in Nat
    BY ShownIsOlder, Ranges
  <2> QED
    BY <2>3, <2>5, <2>6
<1> QED
  BY <1>1, <1>2

\* A message is the latest result of its probe, or another one is coming.
LEMMA ToldByMessage ==
    ASSUME TypeOK, StreamOrdered, LatestWasSent, ResultsAreNewest, LastIsHeld, ToldOrMissed,
           SeededOnce, OnMessage, NEW p \in Probes \ missed', ~Coming(p)'
    PROVE  Shown'[p] = latest[p]
<1> DEFINE r == stream[readAt + 1]
<1>0. /\ readAt + 1 \in 1 .. Len(stream) /\ readAt' = readAt + 1
      /\ r \in 1 .. webAt /\ log[r] \in Probes /\ missed' = missed \ {log[r]}
      /\ readAt \in Nat /\ Len(stream) \in Nat /\ Len(pending) \in Nat
      /\ UNCHANGED <<log, webHolds, stream, seeded, snapshot>>
  BY MessageRead, Ranges DEF hubVars, webVars, fetchVars
<1>1. /\ ~(webHolds # None /\ log[webHolds] = p)
      /\ \A j \in readAt + 2 .. Len(stream) : log[stream[j]] # p
  BY <1>0 DEF Coming
<1>2. seeded => rows' = [rows EXCEPT ![log[r]] = r] /\ Shown' = rows' /\ Shown = rows
  BY <1>0, MessageRead DEF Shown
<1>3. ~seeded => /\ Len(pending') = Len(pending) + 1 /\ pending'[Len(pending) + 1] = r
                 /\ \A i \in 1 .. Len(pending) : pending'[i] = pending[i]
                 /\ Shown = Drained(snapshot, pending) /\ Shown' = Drained(snapshot, pending')
  <2>1. Drained(snapshot, pending)' = Drained(snapshot, pending')
    BY <1>0 DEF Drained
  <2> QED
    BY <1>0, <2>1, MessageRead DEF Shown
<1>4. CASE p = log[r]
  <2>1. r = latest[p]
    <3>1. PICK k \in readAt + 1 .. Len(stream) : stream[k] = latest[p] /\ log[stream[k]] = p
      BY <1>0, <1>1, <1>4, LastSent
    <3>2. k = readAt + 1
      BY <1>0, <1>1, <3>1
    <3> QED
      BY <3>1, <3>2
  <2>2. CASE seeded
    <3>1. rows \in [Probes -> Nat]
      BY Ranges
    <3> QED
      BY <1>2, <1>4, <2>1, <2>2, <3>1
  <2>3. CASE ~seeded
    <3>1. /\ Len(pending) + 1 \in 1 .. Len(pending') /\ Len(pending') \in Nat
          /\ log[pending'[Len(pending) + 1]] = p
          /\ \A j \in 1 .. Len(pending') : j <= Len(pending) + 1
      BY <1>0, <1>3, <1>4, <2>3
    <3>2. Drained(snapshot, pending')[p] = pending'[Len(pending) + 1]
      BY <3>1, DrainedRow
    <3> QED
      BY <1>3, <2>1, <2>3, <3>2
  <2> QED
    BY <2>2, <2>3
<1>5. CASE p # log[r]
  <2>1. Shown[p] = latest[p]
    <3>1. \A j \in readAt + 1 .. Len(stream) : log[stream[j]] # p
      BY <1>0, <1>1, <1>5
    <3> QED
      BY <1>0, <1>1, <1>5, <3>1 DEF ToldOrMissed, Coming
  <2>2. CASE seeded
    <3>1. rows \in [Probes -> Nat]
      BY Ranges
    <3> QED
      BY <1>2, <1>5, <2>1, <2>2, <3>1
  <2>3. CASE ~seeded
    <3>1. pending \in Seq(Numbers) /\ Len(pending') \in Nat /\ Len(pending') = Len(pending) + 1
      BY <1>0, <1>3, <2>3 DEF TypeOK
    <3>2. \A j \in 1 .. Len(pending') : log[pending'[j]] = p => j \in 1 .. Len(pending)
      BY <1>0, <1>3, <1>5, <2>3, <3>1
    <3>3. CASE p \notin Held /\ Shown[p] = snapshot[p]
      <4>1. \A j \in 1 .. Len(pending') : log[pending'[j]] # p
        BY <1>3, <2>3, <3>2, <3>3 DEF Held
      <4> QED
        BY <1>3, <2>1, <2>3, <3>3, <4>1, DrainedRow
    <3>4. CASE \E l \in 1 .. Len(pending) :
                  /\ log[pending[l]] = p
                  /\ \A j \in 1 .. Len(pending) : log[pending[j]] = p => j <= l
                  /\ Shown[p] = pending[l]
      <4>1. PICK l \in 1 .. Len(pending) :
                   /\ log[pending[l]] = p
                   /\ \A j \in 1 .. Len(pending) : log[pending[j]] = p => j <= l
                   /\ Shown[p] = pending[l]
        BY <3>4
      <4>2. /\ l \in 1 .. Len(pending') /\ log[pending'[l]] = p /\ pending'[l] = pending[l]
            /\ \A j \in 1 .. Len(pending') : log[pending'[j]] = p => j <= l
        BY <1>0, <1>3, <2>3, <3>1, <3>2, <4>1
      <4>3. Drained(snapshot, pending')[p] = pending'[l]
        BY <3>1, <4>2, DrainedRow
      <4> QED
        BY <1>3, <2>1, <2>3, <4>1, <4>2, <4>3
    <3> QED
      <4>1. Shown[p] = Drained(snapshot, pending)[p]
        BY <1>3, <2>3
      <4> QED
        BY <3>1, <3>3, <3>4, <4>1, DrainedPending
  <2> QED
    BY <2>2, <2>3
<1> QED
  BY <1>4, <1>5

\* The answer to the page's fetch, and what the page makes of it.
LEMMA ToldByFetch ==
    ASSUME TypeOK, ResultsAreNewest, LastIsHeld, ToldOrMissed, SeededOnce, Fetch,
           NEW p \in Probes \ missed', ~Coming(p)
    PROVE  Shown'[p] = latest[p]
<1>0. pending \in Seq(Numbers) /\ ~seeded /\ rows = NoResults /\ Shown = Drained(snapshot, pending)
  BY DEF TypeOK, Fetch, ServeSnapshot, Seed, SeedFailed, SeededOnce, Shown
<1>1. \A s, t : p \in Held => Drained(s, pending)[p] = Drained(t, pending)[p]
  <2> SUFFICES ASSUME NEW s, NEW t, p \in Held
               PROVE  Drained(s, pending)[p] = Drained(t, pending)[p]
    OBVIOUS
  <2>1. PICK l \in 1 .. Len(pending) :
               /\ log[pending[l]] = p
               /\ \A j \in 1 .. Len(pending) : log[pending[j]] = p => j <= l
    BY <1>0, DrainedPending
  <2>2. Len(pending) \in Nat
    BY <1>0
  <2> QED
    BY <2>1, <2>2, DrainedRow
<1>2. \A s : p \notin Held => Drained(s, pending)[p] = s[p]
  BY DrainedRow DEF Held
<1>3. CASE ServeSnapshot
  <2>1. Shown' = Drained(latest, pending) /\ (p \notin Held \/ p \notin missed)
    <3>1. Drained(snapshot, pending)' = Drained(latest, pending)
      BY <1>3 DEF ServeSnapshot, Drained, hubVars
    <3> QED
      BY <1>0, <1>3, <3>1 DEF ServeSnapshot, Shown
  <2> QED
    BY <1>0, <1>1, <1>2, <2>1 DEF ToldOrMissed
<1>4. CASE Seed
  BY <1>0, <1>4 DEF Seed, Shown, ToldOrMissed, toldVars
<1>5. CASE SeedFailed
  <2>1. /\ Shown' = Drained(rows, pending) /\ p \notin missed
        /\ snapshot[p] = None \/ p \in Held
    BY <1>5 DEF SeedFailed, Shown
  <2>2. rows[p] = None
    BY <1>0 DEF NoResults
  <2> QED
    BY <1>0, <1>1, <1>2, <2>1, <2>2 DEF ToldOrMissed
<1> QED
  BY <1>3, <1>4, <1>5 DEF Fetch

\* Whoever else moves leaves alone what the page shows.
LEMMA ShownStays ==
    ASSUME TypeOK, ResultsAreNewest, [Next]_vars, UNCHANGED <<fetchVars, pending, rows>>
    PROVE  Shown' = Shown
<1>1. \A i \in 1 .. Len(pending) : log'[pending[i]] = log[pending[i]]
  BY ProbeStays DEF ResultsAreNewest
<1>2. Drained(snapshot, pending)' = Drained(snapshot, pending)
  <2>1. snapshot' = snapshot /\ pending' = pending
    BY DEF fetchVars
  <2> DEFINE row(of, p) == IF of = {} THEN snapshot[p]
                          ELSE pending[CHOOSE i \in of : \A j \in of : j <= i]
             was(p) == {i \in 1 .. Len(pending) : log[pending[i]] = p}
             is(p)  == {i \in 1 .. Len(pending) : log'[pending[i]] = p}
  <2>2. /\ Drained(snapshot, pending) = [p \in Probes |-> row(was(p), p)]
        /\ Drained(snapshot, pending)' = [p \in Probes |-> row(is(p), p)]
    BY <2>1 DEF Drained
  <2>3. \A p \in Probes : is(p) = was(p)
    BY <1>1
  <2> HIDE DEF row, was, is
  <2> QED
    BY <2>2, <2>3
<1> QED
  BY <1>2 DEF Shown, fetchVars

\* Whatever a page reads, skips or loses, it is told or the probe is in `missed`.
LEMMA ToldNext ==
    /\ TypeOK /\ StreamOrdered /\ LatestWasSent /\ ResultsAreNewest /\ LastIsHeld
    /\ SeededOnce /\ ToldOrMissed /\ [Next]_vars
    => ToldOrMissed'
<1> SUFFICES ASSUME TypeOK, StreamOrdered, LatestWasSent, ResultsAreNewest, LastIsHeld,
                    SeededOnce, ToldOrMissed, [Next]_vars,
                    NEW p \in Probes \ missed', ~Coming(p)'
             PROVE  Shown'[p] = latest'[p]
  BY DEF ToldOrMissed
<1>0. /\ readAt \in Nat /\ Len(stream) \in Nat /\ readAt <= Len(stream)
      /\ webAt \in Nat /\ webHolds \in {None, webAt}
      /\ \A j \in 1 .. Len(stream) : stream[j] \in 1 .. webAt
      /\ \A r \in 1 .. webAt : log'[r] = log[r]
  BY Ranges, ProbeStays DEF StreamOrdered
<1>1. CASE WebRecv
  <2>1. /\ webHolds = None /\ webHolds' # None /\ webHolds' = webAt + 1
        /\ latest' = [latest EXCEPT ![log[webAt + 1]] = webAt + 1]
        /\ UNCHANGED <<log, stream, readAt, missed, fetchVars, pending, rows>>
    BY <1>0, <1>1 DEF WebRecv, hubVars, streamVars, toldVars, None
  <2>2. p # log[webAt + 1] /\ ~Coming(p)
    BY <2>1 DEF Coming
  <2>3. latest'[p] = latest[p]
    BY <2>1, <2>2, Ranges
  <2> QED
    BY <2>1, <2>2, <2>3, ShownStays DEF ToldOrMissed
<1>2. CASE WebSend
  <2>1. /\ webHolds = webAt /\ webHolds' = None /\ Len(stream') = Len(stream) + 1
        /\ stream'[Len(stream) + 1] = webAt /\ \A i \in 1 .. Len(stream) : stream'[i] = stream[i]
        /\ UNCHANGED <<log, latest, readAt, missed, fetchVars, pending, rows>>
    BY <1>2, Sent DEF WebSend, hubVars, streamVars, toldVars
  <2>2. \A j \in readAt + 1 .. Len(stream) + 1 : log[stream'[j]] # p
    BY <2>1 DEF Coming
  <2>3. log[webAt] # p /\ \A j \in readAt + 1 .. Len(stream) : log[stream[j]] # p
    BY <1>0, <2>1, <2>2
  <2> QED
    BY <2>1, <2>3, ShownStays DEF ToldOrMissed, Coming
<1>3. CASE Subscribe \/ StreamLagged
  <2>1. PICK n \in readAt .. Len(stream) : readAt' = n /\ missed' = missed \cup MissedUpTo(n)
    <3>1. CASE Subscribe
      BY <1>0, <3>1 DEF Subscribe
    <3>2. CASE StreamLagged
      <4>1. Len(stream) - SseSlots \in readAt .. Len(stream)
        BY <1>0, <3>2, DashboardAssumption DEF StreamLagged, StreamLagging
      <4> QED
        BY <3>2, <4>1 DEF StreamLagged
    <3> QED
      BY <1>3, <3>1, <3>2
  <2>2. UNCHANGED <<log, webHolds, stream, latest, fetchVars, pending, rows>>
    BY <1>3 DEF Subscribe, StreamLagged, hubVars, webVars
  <2>3. /\ ~(webHolds # None /\ log[webHolds] = p)
        /\ \A j \in n + 1 .. Len(stream) : log[stream[j]] # p
    BY <2>1, <2>2 DEF Coming
  <2>4. Shown[p] = latest[p]
    BY <2>1, <2>3, SkippedIsMissed
  <2> QED
    BY <2>2, <2>4, ShownStays
<1>4. CASE OnMessage
  BY <1>4, ToldByMessage DEF OnMessage, webVars
<1>5. CASE Fetch
  <2>1. UNCHANGED <<log, webHolds, stream, latest, readAt>>
    BY <1>5 DEF Fetch, ServeSnapshot, Seed, SeedFailed, hubVars, webVars, streamVars
  <2>2. ~Coming(p)
    BY <2>1 DEF Coming
  <2> QED
    BY <1>5, <2>1, <2>2, ToldByFetch
<1>6. CASE /\ UNCHANGED <<webHolds, stream, latest, readAt, missed>>
           /\ UNCHANGED <<fetchVars, pending, rows>>
  <2>1. \A j \in readAt + 1 .. Len(stream) : log'[stream[j]] = log[stream[j]]
    BY <1>0
  <2>2. webHolds # None => log'[webHolds] = log[webHolds]
    BY <1>0 DEF StreamOrdered
  <2>3. ~Coming(p)
    BY <1>6, <2>1, <2>2 DEF Coming
  <2> QED
    BY <1>6, <2>3, ShownStays DEF ToldOrMissed
<1> QED
  BY <1>1, <1>2, <1>3, <1>4, <1>5, <1>6
  DEF Next, Publish, DropHub, WebLoop, WebLagged, WebClosed, Stream, OnError, Idle, vars, webVars,
      streamVars, toldVars

\* No step of the hub, the event loop, the stream or the page breaks any of the parts.
LEMMA DashboardInvNext == DashboardInv /\ [Next]_vars => DashboardInv'
  BY TypeNext, OrderedNext, SentNext, NewestNext, HeldNext, SeededNext, ToldNext DEF DashboardInv

\* The invariant holds at all times.
LEMMA AlwaysDashboardInv == Spec => []DashboardInv
  BY DashboardInvInit, DashboardInvNext, PTL DEF Spec

(***************************************************************************)
(* What it establishes.                                                    *)
(***************************************************************************)

\* The variables keep their types, and no receiver gets ahead of what it reads.
THEOREM TypeCorrect == Spec => []TypeOK
<1>1. DashboardInv => TypeOK
  BY DEF DashboardInv
<1> QED
  BY <1>1, AlwaysDashboardInv, PTL

\* The event loop inserts a result before it sends it, so a snapshot is never behind what
\* was sent to a page, however the loop lags and whatever is sent meanwhile.
THEOREM SnapshotIsAhead == Spec => []SnapshotCoversStream
<1>1. DashboardInv => SnapshotCoversStream
  BY DEF DashboardInv, ResultsAreNewest
<1> QED
  BY <1>1, AlwaysDashboardInv, PTL

\* The page's buffering and drain (app.js) repair every order of the two answers: once the
\* page has read its stream, a row that is not the latest is one the page was not told of.
THEOREM TableConverges == Spec => []DrainedShowsLatest
<1>1. DashboardInv => DrainedShowsLatest
  <2> SUFFICES ASSUME DashboardInv, CaughtUp, NEW p \in Probes \ missed
               PROVE  rows[p] = latest[p]
    BY DEF DrainedShowsLatest
  <2>1. ~Coming(p)
    BY Ranges DEF Coming, CaughtUp, DashboardInv
  <2> QED
    BY <2>1 DEF ToldOrMissed, CaughtUp, Shown, DashboardInv
<1> QED
  BY <1>1, AlwaysDashboardInv, PTL
===============================================================================
