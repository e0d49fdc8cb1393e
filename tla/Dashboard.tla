------------------------------ MODULE Dashboard ------------------------------
(***************************************************************************)
(* The debug UI, from the event hub to the browser: the event loop that    *)
(* keeps WebState (huginn-web/src/state.rs), the two handlers a page uses  *)
(* (sse_handler in sse.rs, handle_metrics in server.rs) and the script of  *)
(* one page (assets/app.js).  The page opens the stream and asks for the   *)
(* snapshot at once; the two requests travel on connections of their own,  *)
(* so the server may answer them in either order.                          *)
(*                                                                         *)
(* A result is its position in the log of all results published.           *)
(***************************************************************************)
EXTENDS Naturals, Sequences

CONSTANTS
    Probes,
    NResults,    \* bound: results published
    HubSlots,    \* event_hub_capacity, which tokio rounds up to a power of two
    SseSlots,    \* the capacity of sse_tx
    MaxDrops     \* bound: how often the page loses its stream

ASSUME DashboardAssumption ==
    /\ NResults \in Nat /\ MaxDrops \in Nat
    /\ HubSlots \in Nat \ {0} /\ SseSlots \in Nat \ {0}

VARIABLES
    \* EventHub
    log,         \* log[r]: the probe whose result is the r-th
    hubOpen,
    \* WebState and its event loop
    webAt,       \* the last result the loop's receiver has consumed or missed
    webHolds,    \* a result that is in `results` and not yet in the stream; 0: none
    webDone,
    latest,      \* results: the latest result of each probe, 0 for none
    stream,      \* everything sent to sse_tx
    \* the page
    connected,   \* its /events request is being served
    readAt,      \* how much of the stream its receiver has consumed or missed
    drops,
    fetch,       \* /metrics/latest: "asked", "served" or "done"
    snapshot,    \* what it was answered
    seeded, pending,
    rows,        \* what the table shows for each probe, 0 for no row
    \* history
    missed,      \* the probes with a result the page was not told of, nor of a later one
    lost         \* the page lagged, lost its stream or got no snapshot

hubVars    == <<log, hubOpen>>
webVars    == <<webAt, webHolds, webDone, latest, stream>>
streamVars == <<connected, readAt, drops>>
fetchVars  == <<fetch, snapshot, seeded>>
toldVars   == <<missed, lost>>
vars       == <<hubVars, webVars, streamVars, fetchVars, pending, rows, toldVars>>

None == 0
NoResults == [p \in Probes |-> None]

Init ==
    /\ log = <<>> /\ hubOpen = TRUE
    /\ webAt = 0 /\ webHolds = None /\ webDone = FALSE
    /\ latest = NoResults /\ stream = <<>>
    /\ connected = FALSE /\ readAt = 0 /\ drops = 0
    /\ fetch = "asked" /\ snapshot = NoResults
    /\ seeded = FALSE /\ pending = <<>> /\ rows = NoResults
    /\ missed = {} /\ lost = FALSE

-----------------------------------------------------------------------------
(* EventHub *)

Publish(p) ==
    /\ hubOpen /\ Len(log) < NResults
    /\ log' = Append(log, p)
    /\ UNCHANGED <<hubOpen, webVars, streamVars, fetchVars, pending, rows, toldVars>>

DropHub ==
    /\ hubOpen
    /\ hubOpen' = FALSE
    /\ UNCHANGED <<log, webVars, streamVars, fetchVars, pending, rows, toldVars>>

WebLagging    == Len(log) - webAt > HubSlots
StreamLagging == Len(stream) - readAt > SseSlots

\* upsertRow: the row of a probe is replaced by whatever comes last.
Upserted(table, r) == [table EXCEPT ![log[r]] = r]

\* A table after the results of s, in order.
Drained(table, s) ==
    [p \in Probes |->
        LET of == {i \in 1 .. Len(s) : log[s[i]] = p}
        IN  IF of = {} THEN table[p]
            ELSE s[CHOOSE i \in of : \A j \in of : j <= i]]

\* What the page shows, or would show if its snapshot arrived now.
Shown == IF seeded THEN rows ELSE Drained(snapshot, pending)

\* The probes the page knows less of when its receiver goes on after the i-th message.
MissedUpTo(i) ==
    {p \in Probes : \E j \in readAt + 1 .. i :
        log[stream[j]] = p /\ stream[j] > Shown[p]}

Held == {log[pending[i]] : i \in 1 .. Len(pending)}

-----------------------------------------------------------------------------
(* Faults: variants of the operators below with a plausible bug in them.  None is part *)
(* of Spec; putting one in the place of the operator it is named after breaks the      *)
(* property named in its comment, which shows what that property guards against.       *)

\* WebRecv, sends before it inserts (which WebSend then repeats): SnapshotCoversStream.
WebRecvSendsFirst ==
    /\ ~webDone /\ webHolds = None
    /\ webAt < Len(log) /\ ~WebLagging
    /\ webAt' = webAt + 1
    /\ webHolds' = webAt + 1
    /\ stream' = Append(stream, webAt + 1)
    /\ UNCHANGED <<webDone, latest, hubVars, streamVars, fetchVars, pending, rows, toldVars>>

\* Seed, the snapshot goes on top of what arrived meanwhile: DrainedShowsLatest.
SeedSnapshotLast ==
    /\ fetch = "served"
    /\ fetch' = "done" /\ seeded' = TRUE
    /\ rows' = [p \in Probes |-> IF snapshot[p] # None THEN snapshot[p]
                                 ELSE Drained(rows, pending)[p]]
    /\ pending' = <<>>
    /\ UNCHANGED <<snapshot, hubVars, webVars, streamVars, toldVars>>

\* SeedFailed, the page does not seed without a snapshot: PendingIsShown.
SeedFailedIgnored ==
    /\ fetch # "done"
    /\ fetch' = "done" /\ lost' = TRUE
    /\ UNCHANGED <<seeded, rows, pending, snapshot, missed, hubVars, webVars, streamVars>>

-----------------------------------------------------------------------------
(* WebState's event loop *)

\* A result is received and inserted under the write lock ...
WebRecv ==
    /\ ~webDone /\ webHolds = None
    /\ webAt < Len(log) /\ ~WebLagging
    /\ webAt' = webAt + 1
    /\ latest' = [latest EXCEPT ![log[webAt + 1]] = webAt + 1]
    /\ webHolds' = webAt + 1
    /\ UNCHANGED <<webDone, stream, hubVars, streamVars, fetchVars, pending, rows, toldVars>>

\* ... and then sent to whoever is subscribed.
WebSend ==
    /\ webHolds # None
    /\ stream' = Append(stream, webHolds)
    /\ webHolds' = None
    /\ UNCHANGED <<webAt, webDone, latest, hubVars, streamVars, fetchVars, pending, rows, toldVars>>

\* Lagged is only logged.
WebLagged ==
    /\ ~webDone /\ webHolds = None /\ WebLagging
    /\ webAt' = Len(log) - HubSlots
    /\ UNCHANGED <<webHolds, webDone, latest, stream,
                   hubVars, streamVars, fetchVars, pending, rows, toldVars>>

WebClosed ==
    /\ ~webDone /\ webHolds = None
    /\ webAt = Len(log) /\ ~hubOpen
    /\ webDone' = TRUE
    /\ UNCHANGED <<webAt, webHolds, latest, stream,
                   hubVars, streamVars, fetchVars, pending, rows, toldVars>>

-----------------------------------------------------------------------------
(* The page's stream *)

\* sse_handler subscribes when the request arrives and replays nothing.
Subscribe ==
    /\ ~connected
    /\ connected' = TRUE /\ readAt' = Len(stream)
    /\ missed' = missed \cup MissedUpTo(Len(stream))
    /\ UNCHANGED <<drops, hubVars, webVars, fetchVars, pending, rows, lost>>

\* es.onmessage.
OnMessage ==
    /\ connected /\ readAt < Len(stream) /\ ~StreamLagging
    /\ readAt' = readAt + 1
    /\ IF seeded
       THEN rows' = Upserted(rows, stream[readAt + 1]) /\ UNCHANGED pending
       ELSE pending' = Append(pending, stream[readAt + 1]) /\ UNCHANGED rows
    /\ missed' = missed \ {log[stream[readAt + 1]]}
    /\ UNCHANGED <<connected, drops, hubVars, webVars, fetchVars, lost>>

\* A page that is too slow is not told what it missed.
StreamLagged ==
    /\ connected /\ StreamLagging
    /\ readAt' = Len(stream) - SseSlots
    /\ missed' = missed \cup MissedUpTo(Len(stream) - SseSlots)
    /\ lost' = TRUE
    /\ UNCHANGED <<connected, drops, hubVars, webVars, fetchVars, pending, rows>>

\* es.onerror: the connection is lost; the browser will open another one.
OnError ==
    /\ connected /\ drops < MaxDrops
    /\ connected' = FALSE /\ drops' = drops + 1
    /\ lost' = TRUE
    /\ UNCHANGED <<readAt, hubVars, webVars, fetchVars, pending, rows, missed>>

-----------------------------------------------------------------------------
(* The page's snapshot *)

\* handle_metrics, under the read lock.
ServeSnapshot ==
    /\ fetch = "asked"
    /\ fetch' = "served" /\ snapshot' = latest
    /\ missed' = missed \cap Held    \* what is held back will overwrite the snapshot's
    /\ UNCHANGED <<seeded, hubVars, webVars, streamVars, pending, rows, lost>>

\* seed(results): the snapshot, then what arrived while it was in flight.
Seed ==
    /\ fetch = "served"
    /\ fetch' = "done" /\ seeded' = TRUE
    /\ rows' = Drained(snapshot, pending)
    /\ pending' = <<>>
    /\ UNCHANGED <<snapshot, hubVars, webVars, streamVars, toldVars>>

\* seed(null): the request or its answer was lost.
SeedFailed ==
    /\ fetch # "done"
    /\ fetch' = "done" /\ seeded' = TRUE
    /\ rows' = Drained(rows, pending)
    /\ pending' = <<>>
    /\ missed' = missed \cup ({p \in Probes : snapshot[p] # None} \ Held)
    /\ lost' = TRUE
    /\ UNCHANGED <<snapshot, hubVars, webVars, streamVars>>

WebLoop == WebRecv \/ WebSend \/ WebLagged \/ WebClosed
Stream  == Subscribe \/ OnMessage \/ StreamLagged \/ OnError
Fetch   == ServeSnapshot \/ Seed \/ SeedFailed

\* Nothing is left to show, or the page stays as it is.
Idle == webDone /\ UNCHANGED vars

Next ==
    \/ \E p \in Probes : Publish(p)
    \/ DropHub \/ WebLoop \/ Stream \/ Fetch \/ Idle

Spec == Init /\ [][Next]_vars

\* The event loop is polled and the browser's fetch is settled, one way or the other.
Fairness == WF_vars(WebLoop) /\ WF_vars(Fetch)

FairSpec == Spec /\ Fairness

-----------------------------------------------------------------------------
(* Properties *)

Numbers == 1 .. NResults

\* The types of all variables; no receiver is ahead of what it reads.
TypeOK ==
    /\ log \in Seq(Probes) /\ Len(log) <= NResults
    /\ hubOpen \in BOOLEAN /\ webDone \in BOOLEAN
    /\ webAt \in 0 .. Len(log) /\ webHolds \in {None, webAt}
    /\ latest \in [Probes -> Numbers \cup {None}] /\ stream \in Seq(Numbers)
    /\ connected \in BOOLEAN /\ readAt \in 0 .. Len(stream) /\ drops \in 0 .. MaxDrops
    /\ fetch \in {"asked", "served", "done"}
    /\ snapshot \in [Probes -> Numbers \cup {None}]
    /\ seeded \in BOOLEAN /\ pending \in Seq(Numbers)
    /\ rows \in [Probes -> Numbers \cup {None}]
    /\ missed \subseteq Probes /\ lost \in BOOLEAN

\* A snapshot is never behind the stream: whatever was ever sent to a page is in
\* `results`, itself or a later result of that probe.  A page that subscribes first can
\* therefore rely on its snapshot for everything sent before it subscribed.
SnapshotCoversStream ==
    \A i \in 1 .. Len(stream) : stream[i] <= latest[log[stream[i]]]

CaughtUp == seeded /\ connected /\ readAt = Len(stream) /\ webHolds = None

\* A page that has read its stream shows the latest result of each probe, although results
\* kept arriving while the snapshot was in flight and the drain may have put back an older
\* row for a while.  What it may show too late, over lag, lost streams, a stream that was
\* subscribed after the snapshot was taken and a snapshot that never came, are the probes
\* it was not told of, each until that probe's next result.
DrainedShowsLatest ==
    CaughtUp => \A p \in Probes \ missed : rows[p] = latest[p]

\* What the page holds back is shown in the end, even if no snapshot ever arrives.
PendingIsShown ==
    \A r \in Numbers : (r \in {pending[i] : i \in 1 .. Len(pending)})
                           ~> (r \notin {pending[i] : i \in 1 .. Len(pending)})

\* app.js: opening the stream before asking for the snapshot leaves no window in which a
\* result is shown only at the next tick.
WindowIsClosed ==
    CaughtUp /\ ~lost => rows = latest
=============================================================================
