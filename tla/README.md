# huginn.io in TLA+

huginn.io is an uptime monitor: probe loops measure targets and publish results
on an in-process event hub; the console, a batcher that feeds InfluxDB, and the
web state subscribe. This directory models the parts of it in which order,
concurrency, timeouts and partial failure matter, checks them with TLC, and
proves with TLAPS, for every value of the constants, every safety property that a
passing run checks, and that the write path implements a small abstract queue.

Paths below are relative to the repository. All tasks run on tokio's
multi-threaded runtime, so two tasks interleave at every shared access, not only
at awaits.

## 1. Inventory

| Component | Where | State | Operations | Talks to | What is hard |
|---|---|---|---|---|---|
| Event hub | `crates/huginn-core/src/event.rs` | broadcast channel, reference count | publish, subscribe, last `Arc` dropped | every consumer | lag per receiver; closes only when *every* holder is gone |
| Scheduler | `huginn/src/scheduler.rs` | one loop per probe: interval, shutdown receiver, hub `Arc` | tick, probe, publish, stop | hub, shutdown channel | shutdown in the middle of a probe, abort |
| Batcher | `crates/huginn-influx/src/writer.rs` (`run_batcher`, `enqueue`) | buffer, flush deadline | receive, flush (size, deadline, close), lag | hub, retry queue | three flushes, two deadline resets, end of stream |
| Retry queue | `crates/huginn-influx/src/queue.rs` | deque, byte count, closed flag, `Notify` | push with eviction, peek, pop_if_front, wait_for_batch, close | batcher, writer, stats | lost wakeups, eviction of the batch being written |
| Writer | `writer.rs` (`run_writer`) | held batch, attempt | write, retry, back off, give up | retry queue, InfluxDB, shutdown channel | lost answers, outages, shutdown |
| Write statistics | `crates/huginn-core/src/stats.rs` | relaxed atomics | record_*, set_queue_depth, the loads | queue, writer, scrape | double counting, reads without the lock |
| Daemon | `huginn/src/main.rs` (`main`, `run`, `stop_probes`) | startup stage, shutdown stage | bind, spawn, wait, stop probes, drop hub, drain | everything | signal during startup, staged shutdown, two timeouts |
| Web state and debug UI | `crates/huginn-web/src/{state,sse,server}.rs`, `assets/app.js` | latest results, SSE channel, the page's table | event loop, `/events`, `/metrics/latest`, seeding | hub, browser | snapshot and stream on two connections |
| Connection limits | `crates/huginn-web/src/serve.rs` | permits | accept, serve, time out | UI, metrics, health | permit leaks, slow heads |
| Health check | `crates/huginn-web/src/health.rs`, `main.rs` | none; a second process with its own reading of the configuration | bind, answer, ask | Docker, the daemon's socket | the file changes between the two readings |
| Prometheus endpoint | `crates/huginn-web/src/prometheus.rs` | the API key | authorise, take the read lock, render | web state, stats | numbers of several moments in one response |
| Probes | `crates/huginn-probes/src/` | an HTTP client and a TLS configuration, built once | eight executors with nested timeouts | network | worst-case duration of a tick; what is reported for which outcome |
| Configuration and startup | `crates/huginn-core/src/config.rs`, `main.rs` | the loaded configuration, the secrets, the listeners | parse, override, rewrite, validate, warn, read secrets, bind | file, environment, secret files, kernel | rules that relate several settings, three sources of one setting |
| Result and its texts | `types.rs`, `writer.rs`, `prometheus.rs`, `main.rs` (`print_result`) | none | escape, line protocol, write URL, exposition, console line | InfluxDB, Prometheus, a terminal | the order of escapes, text from remote hosts |

What makes each correct:

* **Retry queue and writer**: drop-oldest FIFO with an exact byte budget; no
  batch vanishes without a counter; no batch is taken out of order or after its
  verdict; no wakeup is lost; the writer returns at shutdown.
* **Batcher**: each result once and in order, or reported as missed; no result
  waits past the deadline; nothing is left when the queue is closed.
* **Daemon**: a signal at any moment makes `run` return, and the process ends
  once the polls still under way have; nothing stops without a signal; the hub
  closes only after all publishers; the final message is true.
* **Debug UI**: a page that has read everything shows the latest results.
* **Connection limits**: as many connections as permits, each permit comes back,
  and peers that never finish a request head do not keep others out.
* **Probes**: a result within the budget whatever the peer does, the same verdict
  however TCP cuts a greeting, and no bursts after missed ticks.
* **Configuration**: what validation accepts binds its listeners, has no probe that
  is DOWN for ever by construction (but for two expectations that are overlooked, see
  section 3), gives the writer a sane backoff, and is never
  served without a secret it names; no setting is ignored without a word.
* **Health check**: it disagrees with the daemon only if the file was changed.
* **Results and formats**: a result says what happened to its probe, reads back as
  what it is from each format, and cannot drive a terminal.
* **Scrape**: one response shows the same results in every family, no counter falls
  from one to the next, and nobody without the key gets one. Two numbers of one
  response need not fit together; the code promises nothing of the kind.

The hazards, each at its line and with the properties aimed at it, are listed in
`PROJECT.json`.

## 2. Modules

| Module | Content |
|---|---|
| `DropOldestFifo` | the abstract promise of the write buffer: a FIFO with a byte budget that loses from the old end only |
| `WritePath` | retry queue, batcher's push/close side and writer, one step per critical section, atomic access, Notify operation or await; instantiates `DropOldestFifo` as `Fifo` |
| `WritePathProofs` | its theorems, the refinement of `DropOldestFifo` included |
| `Batcher` | event hub, receiver with lag, `run_batcher` with a relative clock |
| `BatcherProofs` | its theorems |
| `Daemon` | startup, shutdown channel, probe loops, staged shutdown, with a coarse batcher and writer |
| `DaemonProofs` | its theorems |
| `Dashboard` | hub, web state, SSE and snapshot handlers, one browser page |
| `DashboardProofs` | its theorems |
| `Verdicts` | pure operators: what each probe concludes from what it saw |
| `Probe` | one probe loop in time: ticks, the executor's awaits, its deadline; uses `Verdicts` |
| `ProbeProofs` | its theorems |
| `Metrics` | extends `WritePath` with the web state's event loop and a `GET /metrics` that reads while both go on |
| `MetricsProofs` | its theorems; extends `WritePathProofs` |
| `Rendering` | pure operators: control characters, line protocol, write URL, exposition, console line, and how they are read back |
| `Reports` | pure operators: the `ProbeResult` each executor builds for an outcome; uses `Verdicts` and `Rendering` |
| `Settings` | pure operators: schema and defaults, overrides, rewriting, validation, secrets, retry delays; uses `Reports` |
| `Startup` | the daemon from the command line to its bound sockets, an operator who edits the file, and the healthcheck process; uses `Settings` |
| `StartupProofs` | its theorems, and those about the operators it uses |
| `Listener` | `serve_with` for several listeners: permits, head deadline, kept connections, streams |
| `ListenerProofs` | its theorems |
| `MC*` and `*.cfg` | the instances TLC checks |

Operators whose comment says *Fault* are variants with a bug in them. They are
not part of any specification; replacing the operator they are named after makes
the property in their comment fail, which shows that the property is sensitive to
the code it is about.

### WritePath

A batch is its sequence number; `Offset` gives the bytes before it, so sizes are
differences and byte sums telescope. `push` is `PushLock`, any number of
`EvictOldest`, `PushBack` (mutex held from the first to the last: `Locked`) and
`NotifyOne`; the loop is split because each eviction updates shared counters at
once. `close` is `Close` and `NotifyWaiters`. `wait_for_batch` is `Peek`,
`CheckClosed`, `Register`, `Recheck`, `RecheckClosed`, `Poll`, `Wake`. Notify is
modelled by what tokio does: `notify_one` wakes a parked waiter or stores one
permit; `notify_waiters` reaches every existing `Notified` future and stores
nothing. A write ends in `WriteOk`, `WriteRefused` (4xx except 408 and 429) or
`WriteFailed`, after which the points may or may not be stored; `record_written`
and `pop_if_front` are separate steps.

`evicted`, `acked`, `refused` and `stored` are history variables. Memory accesses
are taken to be sequentially consistent: the deque is under a mutex, `closed` is
acquire/release, and the statistics are only compared with the queue where a
mutex orders them.

### Batcher

Each select arm is one step: no arm awaits. Time is relative: `left` is what
remains of the flush deadline, `waited` (history) the time since the oldest
buffered result was taken. At `left = 0` time may still pass; that is the
scheduling delay of the task and not counted. `handed` is everything given to
the queue. `BatchesAreBounded` (proved) discharges what `WritePathAssumption` takes for
granted, that batches are not empty.

### Daemon

`mpc` follows `run` line by line. A receiver is `none`, `open` or has a
`message`; `Ready` is true of a message and of a channel whose two senders are
gone. A hub holder is `run` until `DropHub` and each probe loop until it ends.
`Block` stands for a poll that does not return to the runtime; such a task sees
neither the channel nor an abort. An aborted task is not polled again, but a poll
under way may finish and publish. `outcome` is the message the shutdown logs.
Each startup step that can fail may end in `failed`.

The end of `run` (`returned`) is not the end of the process: `#[tokio::main]` then
drops the multi-threaded runtime, which drops what waits at an await and waits for
the polls under way (`DropRuntime`, `UnblockLate`). A poll that never returns
therefore keeps the process alive after the shutdown has logged its last message.
`StopsOnSignal` says both: `run` returns whatever the probes do, and the process
ends if each blocked poll returns.

Batcher and writer appear with the control that the shutdown depends on: flush
and close as two steps, the queue read before the closed flag, backoff with the
shutdown receiver. Lag and eviction are left to the other modules. A panic of a
task is not modelled: the code has no path to one that is not marked unreachable.

### Dashboard

A result is its position in the log of publications. The page's stream and
snapshot requests are independent steps, because the browser sends them on
different connections. Reading the SSE channel and the browser's `onmessage` are
one step: what is on the wire is taken for unread. The stream's capacity is
`SseSlots`, smaller than the code's 256. Pages do not influence each other, so
there is one.

`missed` (history) is what the page cannot know: the probes whose latest result was
skipped by lag, fell into a gap of the stream or was in a snapshot that never
came, each until the next result of that probe arrives. `DrainedShowsLatest` is
about all other probes, over any number of lost streams. One case is in `missed`
although the page was told: a result that is held back overwrites a snapshot that
is newer, and the result that would put it right was lost with the first stream.
"A later event always wins over the snapshot it overtook" (app.js:92); so does an
earlier one, and here nothing follows it.

### Probe and Verdicts

`pc` is `wait`, or the await the executor is at; `Program` gives each type's
awaits. `left` is what remains of the deadline of `with_probe_timeout`, which only
the UDP probe sets twice (`AddressFound`). An answer that is there when the
deadline passes may still win, because the future is polled before the timer.
A greeting is its length, how much of it agrees with the expected prefix, and
where its newline is: `read_greeting_line` and `starts_with` look at nothing else.
The peer may deliver it in any chunks, at any pace, and close at any time.

`due` is the time to the interval's next tick. The runtime may take a tick up
late, but an idle loop by no more than `MaxLate`; `Rearm` is
`MissedTickBehavior::Skip`. `phase`, `starts` and `spent` are history. Shutdown
in the middle of a tick is in `Daemon`.

### Metrics

A scrape is `Unauthorized`, or `Authorized`, `ReadLock`, one `RenderFamily` per
family of results, and one `LoadNumber` per number, in the order of
`render_write_path`; the steps of `WritePath` and `InsertResult` come between them,
as far as the read guard lets them.

`Ordering::Relaxed` gives each number an order of stores and nothing between two
numbers, so `visible` keeps, for each number on its own, the stores a load may still
return: the newest and up to `MaxLag` before it, but none before one that an earlier
response returned (responses follow each other under the lock of `results`).
`record_written` stores the second the wall clock shows (`Clock`), which may be an
earlier one than before, so `lastWrite` is a gauge. `numbers` keeps a counter until the
next response has loaded it; this is what `CountersNeverFall` compares with.

### Reports, Rendering, Settings and Startup

An outcome is what the world did to a probe; `Report` is the result the executor
builds from it, with what is escaped where. `Rendering` writes a result as the code
does and reads it as InfluxDB and Prometheus document it; the readers are the
reference and share nothing with the writers. An exposition reads back if each
family has one header with its samples behind it, and the samples of a family are
those of the results with such a value, one per result. The strings are those in which one
escape can be taken for another, with one control of each kind (named, C0, C1).

A file is the record its YAML says, with the keys that are there; `Schema` gives
each section's required keys and defaults, and refuses any other key. `Configured`
is the three passes of `load_with_warnings` in their order, `Valid` every rule of
`validate`. A bind string is a name with a meaning (`Parse`); `Endpoints`, the
reference that `AddressesContend` is compared with, says what the kernel gives a
bound socket. A target is its text and a shape, because the rules look at its shape
and the formats at its text. `CanExist` names the targets that `NoDeadProbe` makes a
promise about: `has_port_suffix` admits a bare IPv6 address, as its comment says,
and such a probe, or a `tcp` probe whose target is an URL with a port, stays DOWN.
`Statuses` are those the HTTP client returns: it speaks HTTP/1 only and reads past
`Informational` responses. `Days` are those a certificate may have left, and end where
`notAfter` does. `Overlooked` names the accepted expectations that are outside of
these, and `NoDeadProbe` says that they are the dead ones, and no others.
Integers are small, with `LargestDuration` and `LargestShift` where the code's
saturate.

`Startup` has one action for each step of `main` and `run` that can end the
process. The healthcheck is a process of its own: it reads the file as it is then,
and asks whatever listens on the loopback port it finds there, which may be the
debug UI, whose `/health` answers too. `RUST_LOG` is not set. What happens after
`running` is `Daemon`'s.

### Listener

A peer stands for its connection, and what it wants is fixed: nothing (it never finishes
a head), one answer, more answers on the same connection, or a stream without an end.
`age` is how long the server has waited for a head. hyper applies `header_read_timeout`
to each head of a connection, so an idle kept connection is closed too. This is an
assumption about an external library, and it covers what the tests of `serve.rs` cover:
a peer that has sent part of a head. Whether hyper's automatic builder arms the deadline
before the first byte, while it is still telling HTTP/1 from HTTP/2, is not settled by
the repository and not modelled. `accept` may fail because the peer has gone, or for a
reason that leaves the backlog as it is (no file descriptors); both go through
`continue`.

## 3. Runs

| Run | States | Shows |
|---|---|---|
| `write_path` | 110 626 | all interleavings of push, evict, close, wait, retry and pop, with outages, lost answers and the signal, keep the nine properties, refinement of `DropOldestFifo` included |
| `drained_means_empty` | violation | `wait_for_batch` returns `None` with a batch queued (peek, then push and close, then the flag) |
| `metrics` | 3 656 176 | a scrape at every point of the write path and of the event loop, with loads that come late, and with the right key, a wrong one and none |
| `batcher` | 12 900 | each result once, in order, in time; lag, deadline and close at every moment |
| `daemon` | 119 174 | a signal at every point of startup and operation, blocked and aborted probes, a dead InfluxDB, and the polls the runtime has to wait for at the end |
| `clean_means_drained` | violation | a writer that gives up is logged as "drained cleanly" |
| `dashboard` | 191 266 | stream and snapshot in every order of arrival, lag, a lost connection and a lost snapshot |
| `window_is_closed` | violation | the snapshot overtakes the subscription; a result in between is not shown |
| `probe` | 38 301 | every type of probe against a peer that answers, stalls, closes or fails at any step, in an interval that is long enough and in one that is not |
| `budget_is_the_timeout` | violation | a UDP probe takes a full timeout for the lookup and another for the answer |
| `startup` | 53 479 | eight families of situations, from the file to the bound sockets, each probe's result in every format for every outcome, and healthchecks while the file is edited |
| `listener` | 61 978 | two listeners whose slots half-open peers, a stream and a kept connection compete for |

The four violations are disagreements between a sentence of the repository and
what the code does; `PROJECT.json` quotes both. Smaller ones that no run is spent on:

* main.rs:104-107 says that the daemon and the healthcheck "cannot disagree about
  where to look", because they read the same configuration. They read the same file
  at two times; `HealthcheckAgrees` names the case. It also needs the case of
  `health.port: 0`, which `validate` does not refuse for this listener
  (config.rs:803 looks at `ui` and `metrics`): the check then fails for ever.
* A `Retry-After: 0` makes the writer retry without any delay (writer.rs:267), which
  `validate` says it prevents (config.rs:748); `BackoffIsPaced` excepts it.
* stats.rs:47 says of an evicted batch that it "will never be written"; one that the
  writer holds may still be written and is then counted as both.
* stats.rs:40 says that the published batches and bytes "always describe the same
  moment"; they are two stores, and a scrape may load between them.
* queue.rs:36-39 says that a scrape "never sees a depth that belongs to a different
  moment than the eviction count", because both are updated under the lock. A scrape
  does not take that lock: `EvictOldest` counts the eviction (queue.rs:83), `PushBack`
  publishes the depth (queue.rs:89), and `LoadNumber` may come between them, or find
  one store and not yet the other.
* config.rs:928-930 says that `validate` exists to prevent a probe that is DOWN on
  every tick for ever. It accepts `expected_status` 100 and 102 to 199, which the HTTP
  client never returns (http.rs:82 sees the final response), and any finite
  `tls_expiry_fail_days`, 1e300 too, which no certificate reaches (config.rs:912-927
  refuses `.inf` for this very reason). `NoDeadProbe` names the two as `Overlooked`.
* docs/architecture.md:148 ends the shutdown with "The process exits", and
  docs/architecture.md:158-159 and main.rs:439-442 take an abort to make a probe that
  never returns let go of the hub. Both wait for the poll under way: one that never
  returns keeps its `Arc`, the drain then ends by its timeout, and the drop of the
  runtime waits for it for ever. `StopsOnSignal` has the return of such polls as the
  premise of the process's end.
* With a dual-stack name and an IPv6 `dns_expected_ip` the probe never asks for IPv6
  addresses (`Ipv4thenIpv6`), so it stays DOWN; `NoDeadProbe` holds because there is
  an outcome, a name without IPv4 addresses, for which it is UP.
* A log level that `EnvFilter` does not know mutes the warnings as well.

**Bounds.** `write_path`: four batches of 2, 1, 3 and 6 bytes against 4: a batch that
fits exactly, one that evicts one batch, one larger than the budget that evicts up to
two, and a push while the writer holds a batch already evicted. Two batches beyond the
held one suffice for a wrong pop to hit a different batch. `batcher`: seven results, two
slots, batches of three: the receiver lags more than once and each flush finds a full, a
partial and an empty buffer. `daemon`: two probes (one may block), three results,
batches of two: a full batch, a partial one and an unread result coexist at the signal.
`dashboard`: two probes, four results, two slots each. `metrics`: two batches of 2 and 1
bytes against 2, so that the second push evicts the first unless it is gone, a result
that arrives meanwhile, the five counters and the time of the last write, each load up
to one store behind, a clock that may be set back, and a key of two bytes; responses
follow each other without end. The two depths are not loaded, because no property is
about them. `probe`: intervals of 4 and 2 with
timeouts of 1 and 3, so that a probe fits, overruns by part of an interval, and (UDP)
misses several ticks; reads of up to 3 of 6 bytes against a cap of 5, so that prefix,
newline and cap fall inside, at the end of and across a read. `startup`: every pair of
seven bind strings and three ports for two listeners, with the health listener on and
off, under each environment; every pair of ten names, among them two that are rewritten
to the same one; each probe type with each shape of target; values on both sides of
every limit, among them a threshold beyond every certificate of the instance and the
statuses 100, 101 and 102; each pair of backoffs that overflows, saturates or does neither; every
combination of key file, its content and its variable, and of output flag, variable and
file; each pair of files before and after an edit. A family varies one part of the input
over a plain rest, because no rule relates the parts. `listener`: two slots and four
peers on one listener, so that the half-open peers alone can fill it, and the stream
with the kept connection can; a third of them always waits. Nothing else is bounded:
retries, ticks and waits are loops.

**Fairness.** The runtime polls every ready task (weak fairness of the tasks'
steps), a write ends within `HTTP_TIMEOUT`, sleeps elapse. In `Daemon`, where polls may
block, this takes a worker thread that is left: fewer blocked polls than workers.
`select!` picks at
random among ready arms, so an arm that stays ready is taken in the end; the
writer's shutdown arm gets strong fairness because the backoff is left and entered
again with the message pending each time (a zero `Retry-After` makes the sleep
ready at once too). Nothing is assumed about the signal, the next result, or
InfluxDB: where a property needs an outage to end (`LeavesQueueIfOutagesEnd`,
`DrainsByItself`), the drain timer (`StopsOnSignal`) or the return of blocked polls (the
end of the process in both of `Daemon`'s), that is a premise of the property. `Fetch` of
`Dashboard` is settled by an answer or an error. In `Listener`
tasks are polled and timers fire; taking a peer from the backlog gets strong
fairness, because a failed `accept` goes back to `acquire` and the code tries
again as long as it takes. Peers owe nothing. `Probe`, `Metrics` and `Startup` have
no liveness properties: with time modelled, a deadline is a safety property.

Deadlock is checked in every run; finished systems stutter by an explicit step
(`Finished`, `Gone`, `Idle`), and healthchecks never end.

## 4. Proofs

Each module `XProofs` proves theorems about `X` from the named assumptions on its
constants and, where a theorem states one of its own, from that. The properties are
seldom inductive; each module states the strengthening as a conjunction of named
parts and proves the parts one by one.

**`WritePathProofs`** has everything the `write_path` run checks except the two
liveness properties, for any number of batches, any positive sizes and any
capacity. The argument is built in layers, each an invariant that may use the ones
below:

1. `QueueInv`: types, the queue is a window of the most recent batches, and the
   byte count is the telescoped difference. It is what makes `bytes - Size(...)`
   stay a natural number and eviction and pop commute.
2. `WakeupInv`: what the waiter and the permit look like at each position of the
   writer; a push after the second look leaves a permit or a notified future.
   `NoLostWakeup` follows.
3. `BudgetInv`: capacity and the published gauges, which need the eviction loop's
   exit condition.
4. `FateInv`: what the held batch may be: still in front, or evicted; every batch
   up to `pushed` has a fate; verdicts are only given for batches older than
   anything the writer can still take. `NoSilentLoss` and `TakenInOrder` follow.
5. Counters equal cardinalities, and under the mapping
   `finished <- judged batches that are neither queued nor evicted` each step of
   `WritePath` is `Send`, `Lose`, `Finish` or a stutter of `DropOldestFifo`.

**`BatcherProofs`** has every safety property of the `batcher` run, for any number of
results, slots, batch size and timeout. `BufferInv` is the strengthening that the
others use: types, a buffer that is never as long as a batch when the loop is back
at its select, and no waiting time while it is empty. Under it the other properties
are inductive. `EachResultOnce` rests on two lemmas: a flush leaves `Taken` (what was
handed over, then the buffer) as it is, and a receive extends it by exactly the
result after the cursor.

**`DaemonProofs`** has the three safety properties of the `daemon` run, for any
probes, whichever of them may block, and any number of results. `DaemonInv` says that
the stages close each other from the top down: no signal, no end of a probe loop; no
end of the last loop and of `run`'s own `Arc`, no end of the hub; no end of the hub,
no batcher past its loop (`UpstreamEnded`); no batcher past its loop, no closed queue;
no closed queue, no drained writer (`ClosedInTurn`). `DrainedMeansFlushed` is the chain
read from its end.

**`DashboardProofs`** has `SnapshotCoversStream` and `DrainedShowsLatest`, for any
probes, any number of results, any capacity of the two channels and any number of
lost streams. The stream is in the order of the log (`StreamOrdered`), the latest
result of each probe was sent or is in the event loop's hands (`LatestWasSent`), and
nothing that a page has is newer (`ResultsAreNewest`). The heart is `ToldOrMissed`: of a
probe of which nothing is still to come and nothing was missed, the page shows, or
will show when it seeds its table, the latest result. Its proof follows one result
from the channel into the table, or past it.

**`MetricsProofs`** has the three properties of the `metrics` run, for any key, any
number of results, any sequence of loads and any lag. `ScrapingIsPassive` (a scrape is a
stutter of the write path) carries the types of `WritePathProofs` over. For
`CountersNeverFall` each counter is followed on its own, as Relaxed allows nothing else:
the write path only adds to it (`CountersGrow`), so its visible stores ascend and the
newest is the counter itself (`NewestIsCurrent`), and what was loaded is not above the
first store that is still visible (`LoadedBefore`). `FamiliesAgree` is the read lock,
`OnlyWithKey` rests on `constant_time_eq` being equality.

**`ProbeProofs`** has all four properties of the `probe` run, for every set of
configurations, every size of greeting, read and cap (of at least four bytes), and
every lateness. `ProbeInv` keeps three accounts. *Budget*: time spent plus time left
is within the timeout, or within two once the UDP probe has its address.
*Lateness*: while a probe is under way, its tick is missed by less than it has
spent. *Grid*: `due + phase` is a multiple of the interval, one interval when the
slot's tick was taken and none when it is still to come; this is where `Skip`
matters, since it makes the lateness modulo the interval equal to the place in the
slot. `GreetingJudgedWhole` needs only that a newline lies after the bytes that
agree with the prefix, and that the cap is longer than each prefix.

**`ListenerProofs`** has `TypeOK` and `PermitsReturn` for any listeners, any finite
set of peers with any wishes, any number of permits and any timeout, and from them
that connections never outnumber permits. The strengthening is about the backlog:
who waits there has no task and waits once, or an accept would give a permit to a
connection that has one.

**`StartupProofs`** has every property of the `startup` run, for any file, edit,
environment, command line and disk, any bind strings and local addresses, and any
outcomes. In `StartupInv` the configuration past `Load` is the accepted one of the file
that was read, the sockets are determined by the stage, and a secret that was read is
the content of its file. The rest is about the operators:

* `ListenersBind`: addresses that share an endpoint contend. The converse holds on a
  host with an IPv4 loopback, so `validate` refuses nothing that would bind
  (`RuleIsTheKernels`).
* `FailsClosed`, `OverridesAreHeard`, `HealthcheckAgrees`: what becomes of one key on
  its way through defaults, file and environment.
* `ResultsAreHonest` and `NoDeadProbe`: by the executors, one after the other.
  `NoDeadProbe` is an equivalence. That an `Overlooked` probe is dead needs nothing
  (`OverlookedIsDead`); that any other one is UP at times (`OthersAreHoped`) needs an
  outcome for it, so `OnlyOverlookedProbesAreDead` assumes that whatever can be seen may
  happen: `Statuses` has all of 100 to 599 that is not informational, and `Outcomes` has
  `AnyOutcome`, whose certificates have `Days` left. The run shows it for the few
  outcomes of its instance.
* `ConsoleIsInert`: for strings of any length. What is escaped has none of the
  controls, and each text an executor makes is of the code's own words, of numbers,
  and of what it quotes.
* `ResultsReadBack`: see below.
* `BackoffIsPaced`: for any widths of `Duration` and shift, from the doubling of
  `ShiftedOne`.

`ResultsReadBack` says that what is written is read as what it was, for strings of any
length. The argument has four floors:

1. *Characters.* Writing goes character by character: `EscapeTag` is four `replace`
   calls over the whole string, and what a later one does to the backslashes of an
   earlier one has to be shown to be nothing (`EscapeTagOne`; it is false when the
   backslash goes last). What is written for a character is read as that character,
   wherever the reader is.
2. *Strings.* `IsRead(format, place, t, s)`: a reader at that place who has any word so
   far adds `s` to it when it reads `t`, and stays there. It is kept by `Cat`, so it
   holds of every string whose characters have it (`LeastNatural`, over the length).
3. *Words.* `Tells(format, p, q, t, ws)`: text `t` takes a reader from place `p` to `q`
   and adds the words `ws`. A line, a sample and a query are chains of it. What the
   chain needs is what loading makes sure of: no name, target or error text has a
   control character that would end the record (`Inert`), by `Escaped`, `ValidTarget`
   and the executors.
4. *Families.* `Series`: a list of samples has one for each result that has such a
   value. `Orderly(text, names)`: headers once, samples behind their header, no name but
   those. Two orderly texts whose names are disjoint make one (`FamiliesFollow`), and no
   sample of the one is taken for one of the other. Two samples of a family are of two
   results because the names are unique, and they are unique *after*
   `escape_control_chars_in_names`, which is why that pass comes before `validate`.

`FlattenSeq`, `ReadFrom` and `ShiftedOne` are recursive functions. They are shown to
exist for every length, and to have their properties, by taking the least counterexample
(`LeastNatural`), which is induction without a theorem over operators.

What `StartupAssumption` takes for granted is what the outside makes sure of: serde
gives a name as a string, a list as a list and a number as a number, no variable has
the value that stands for an unset one, a number is written without control characters
and without the marks of a format; and that an outcome is one the program can see: statuses
that the HTTP client returns, and days that a certificate may have left.

The type invariants are proved too and therefore not in a run's list of properties, as
are `MostRecentWindow`, `DepthPublished` and `BatchesAreBounded`.

Model-checked only: all liveness (out of TLAPS's reach).

## 5. Not modelled

* Logging, the static assets, the security headers (constants on every response), the
  error types and the check of a secret file's mode (a log line) have no control of
  their own. TLS, DNS and HTTP are external, as are the characters of YAML, URLs and
  addresses, and the JSON of serde.
* The subscription of the console: a receiver like the batcher's, which prints and
  keeps no state. What it prints is `Console`.
* IPv4-mapped IPv6 addresses: `addresses_contend` (config.rs:383) takes two
  different specific addresses never to contend, which `::ffff:127.0.0.1` and
  `127.0.0.1` do. `LocalAddresses` holds no mapped address, so `ListenersBind` says
  nothing of them.
* Relations between two statistics as a scrape sees them. Stores to different counters
  become visible in any order (see Metrics), and stats.rs:21-25 says that nobody relies
  on more; so there is no property about two of them.
* Duplicated or reordered messages: everything but the writes to InfluxDB and the
  browser's two connections is in one process, on channels that do neither. Crashes:
  nothing is persisted, so a restart is a start.

## 6. Plan

What is left is a refinement: `Daemon`'s coarse batcher and writer are implemented by
`Batcher`'s and `WritePath`'s. The other direction of breadth is the JSON of serde and
the console's subscription, if they ever get control of their own.

New properties are to replace weaker ones rather than be added to them: each
component keeps the few that say most.
