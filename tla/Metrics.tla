------------------------------- MODULE Metrics -------------------------------
(***************************************************************************)
(* GET /metrics (huginn-web/src/prometheus.rs) against the two sides that  *)
(* keep changing what it shows: the write path, whose counters and gauges  *)
(* (huginn-core/src/stats.rs) it loads without a lock, and the event loop  *)
(* of WebState, which it keeps out of `results` while it renders.          *)
(*                                                                         *)
(* Loads and stores are Relaxed: each number has its own order of stores,  *)
(* a load may return an old one of them, but not one before that which an  *)
(* earlier load returned, and nothing orders two numbers among each other. *)
(* `visible` is, for each number, what the next load may return.  Loads of *)
(* two responses are ordered: both are made under the lock of `results`.   *)
(* A result of a probe is its number; a family is what it shows for each   *)
(* probe, the number of a result or 0 for no sample.                       *)
(*                                                                         *)
(* A byte is the set of its bits that are one, so that ^ is the symmetric  *)
(* difference and |= is the union.                                         *)
(***************************************************************************)
EXTENDS WritePath, SequencesExt

CONSTANTS
    Probes,
    NResults,   \* bound: results of each probe
    Families,   \* the per-probe families, in the order render writes them
    Loads,      \* the numbers a response loads, in the order of render_write_path
    Clock,      \* the seconds the wall clock may show: it may be set back
    MaxLag,     \* bound: how many stores a load may be behind the newest one
    ApiKey,     \* the content of metrics.api_key_file, or NoKey
    NoKey,
    Headers     \* what a request may present, [scheme, token], or NoKey

\* The eight numbers: WriteStats, and in it the wall-clock second of the last accepted
\* write, which is a gauge.
Counters  == {"writtenBatches", "writtenBytes", "droppedBatches", "droppedBytes",
              "rejectedBatches"}
LastWrite == "lastWrite"
Gauges    == {"depthBatches", "depthBytes", LastWrite}
Numbers   == Gauges \cup Counters

Byte == SUBSET (0 .. 7)

ASSUME MetricsAssumption ==
    /\ NResults \in Nat
    /\ Families # <<>>
    /\ Loads \in Seq(Numbers) /\ MaxLag \in Nat
    /\ Clock # {} /\ Clock \subseteq Nat
    /\ ApiKey = NoKey \/ ApiKey \in Seq(Byte)
    /\ \A h \in Headers : h = NoKey \/ h \in [scheme : STRING, token : Seq(Byte)]

VARIABLES
    results,    \* WebState.results: the latest result of each probe
    at,         \* the handler: "answered" (between requests), "waiting" (for the lock of
                \* `results`), or one of Rendering
    header,     \* what its request presented
    families,   \* the families it has rendered
    visible,    \* the stores to each number from the one last loaded on, the newest last
    loaded,     \* how many numbers it has loaded
    numbers     \* what it has loaded; for the counters before that, the last response

handlerVars == <<at, header, families, loaded, numbers>>
metricsVars == <<vars, results, visible, handlerVars>>

\* Where the handler holds the read lock of `results`.
Rendering == {"families", "numbers"}

\* A store of v comes after all others of its number; the oldest one is no longer returned
\* where a load would be too far behind.
Store(s, v) ==
    IF v = s[Len(s)] THEN s
    ELSE Append(IF Len(s) > MaxLag THEN Tail(s) ELSE s, v)

\* What a step of the write path leaves in a number; record_written is called at `now`.
Stored(n, now) ==
    IF n # LastWrite THEN stats'[n]
    ELSE IF acked' # acked THEN now
    ELSE visible[n][Len(visible[n])]

MetricsInit ==
    /\ Init
    /\ results = [p \in Probes |-> 0]
    /\ at = "answered" /\ header = NoKey
    /\ visible = [n \in Numbers |-> <<0>>]
    /\ families = <<>> /\ loaded = 0 /\ numbers = [n \in Numbers |-> 0]

-----------------------------------------------------------------------------
(* Faults: variants of the operators below with a plausible bug in them.  None is part *)
(* of MetricsSpec; each names the property it breaks.                                  *)

XorBits(x, y) == (x \ y) \cup (y \ x)

\* ConstantTimeEq, the accumulator keeps only the last byte's difference: OnlyWithKey.
ConstantTimeEqLastByte(a, b) ==
    /\ Len(a) = Len(b)
    /\ a # <<>> => XorBits(Last(a), Last(b)) = {}

\* InsertResult, the handler does not hold the lock while it renders: FamiliesAgree.
InsertResultUnlocked(p) ==
    /\ results[p] < NResults
    /\ results' = [results EXCEPT ![p] = @ + 1]
    /\ UNCHANGED <<vars, visible, handlerVars>>

\* LoadNumber, swap(0) instead of load: CountersNeverFall.
LoadNumberResets ==
    /\ at = "numbers" /\ loaded < Len(Loads)
    /\ LET n == Loads[loaded + 1] IN
           /\ numbers' = [numbers EXCEPT ![n] = visible[n][Len(visible[n])]]
           /\ visible' = [visible EXCEPT ![n] = <<0>>]
           /\ stats' = [f \in DOMAIN stats |-> IF f = n THEN 0 ELSE stats[f]]
    /\ loaded' = loaded + 1
    /\ UNCHANGED <<queueVars, batcherVars, writerVars, shutdown, history, results,
                   at, header, families>>

-----------------------------------------------------------------------------
(* WebState::start_event_loop *)

\* Inserting takes the write lock, so never while a handler holds the read lock.
InsertResult(p) ==
    /\ results[p] < NResults
    /\ at \notin Rendering
    /\ results' = [results EXCEPT ![p] = @ + 1]
    /\ UNCHANGED <<vars, visible, handlerVars>>

-----------------------------------------------------------------------------
(* handle_prometheus *)

\* constant_time_eq: no early exit but for the length; diff gathers the bits of all pairs.
ConstantTimeEq(a, b) ==
    /\ Len(a) = Len(b)
    /\ UNION {XorBits(a[i], b[i]) : i \in DOMAIN a} = {}

\* A header that is missing, not readable as text or not Bearer is refused.
RequestIsAuthorized(h) ==
    h # NoKey /\ h.scheme = "Bearer" /\ ConstantTimeEq(h.token, ApiKey)

\* A request that is answered 401, before anything is looked at ...
Unauthorized(h) ==
    /\ at = "answered"
    /\ ApiKey # NoKey /\ ~RequestIsAuthorized(h)
    /\ UNCHANGED metricsVars

\* ... and one that goes on to results.read().await.
Authorized(h) ==
    /\ at = "answered"
    /\ ApiKey = NoKey \/ RequestIsAuthorized(h)
    /\ at' = "waiting" /\ header' = h
    /\ UNCHANGED <<vars, results, visible, families, loaded, numbers>>

ReadLock ==
    /\ at = "waiting"
    /\ at' = "families"
    /\ UNCHANGED <<vars, results, visible, header, families, loaded, numbers>>

\* render_family: one sample for each probe that has a result.
RenderFamily ==
    /\ at = "families" /\ Len(families) < Len(Families)
    /\ families' = Append(families, results)
    /\ UNCHANGED <<vars, results, visible, at, header, loaded, numbers>>

\* render_write_path begins ...
RenderWritePath ==
    /\ at = "families" /\ Len(families) = Len(Families)
    /\ at' = "numbers" /\ loaded' = 0
    /\ UNCHANGED <<vars, results, visible, header, families, numbers>>

\* ... loads one number after the other, each as it is or as it was ...
LoadNumber ==
    /\ at = "numbers" /\ loaded < Len(Loads)
    /\ LET n == Loads[loaded + 1] IN
           \E i \in 1 .. Len(visible[n]) :
               /\ numbers' = [numbers EXCEPT ![n] = visible[n][i]]
               /\ visible' = [visible EXCEPT ![n] = SubSeq(@, i, Len(@))]
    /\ loaded' = loaded + 1
    /\ UNCHANGED <<vars, results, at, header, families>>

\* ... and the response is complete; the guard is dropped.
Respond ==
    /\ at = "numbers" /\ loaded = Len(Loads)
    /\ at' = "answered" /\ header' = NoKey /\ families' = <<>> /\ loaded' = 0
    /\ numbers' = [n \in Numbers |-> IF n \in Gauges THEN 0 ELSE numbers[n]]
    /\ UNCHANGED <<vars, results, visible>>

Handle == ReadLock \/ RenderFamily \/ RenderWritePath \/ LoadNumber \/ Respond

\* A step of the write path, and its stores.
WritePathStep ==
    /\ Next
    /\ \E now \in Clock :
           visible' = [n \in Numbers |-> Store(visible[n], Stored(n, now))]
    /\ UNCHANGED <<results, handlerVars>>

MetricsNext ==
    \/ WritePathStep
    \/ \E p \in Probes : InsertResult(p)
    \/ \E h \in Headers : Unauthorized(h) \/ Authorized(h)
    \/ Handle

MetricsSpec == MetricsInit /\ [][MetricsNext]_metricsVars
-----------------------------------------------------------------------------
(* Properties *)

\* rate() and increase() see no reset: from one response to the next no counter falls,
\* however late a Relaxed load is.  (The time of the last accepted write is a gauge and may
\* fall: the clock may be set back.)
CountersNeverFall ==
    [][\A n \in Counters : numbers'[n] >= numbers[n]]_metricsVars

\* All per-probe families of a response show the same results: success of one run is
\* never beside the duration of another (the guard of results.read() is held by render).
FamiliesAgree ==
    \A i, j \in DOMAIN families : families[i] = families[j]

\* With a key configured, rendering begins for no request but one that presents exactly
\* this key as a bearer token (constant_time_eq against equality).
OnlyWithKey ==
    at \in {"waiting"} \cup Rendering =>
        ApiKey = NoKey \/ header = [scheme |-> "Bearer", token |-> ApiKey]
=============================================================================
