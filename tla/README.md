# Verification of the inference simulator

TLA+ models of the program under `src/`, the TLC runs that check them on small
instances, and TLAPS proofs about them for every size. The models are written from
the code; comments name the functions they translate, `PROJECT.json` maps every
definition to its lines.

## 1. The system

The program simulates, one day after another, a fleet of LLM inference replicas
serving analysts, and shows the simulated week in a browser while it is computed. The
repository also holds the benchmarks its cost model is calibrated from.

* The **engine** (`src/src/engine`) is a deterministic discrete-event simulator of one
  day. Its modules (load, router, replica, failure, metrics) share one state, register
  handlers for events and *notices*, and call each other synchronously: a handler runs
  to its end with every notice it raises, so nothing interleaves inside one. What does
  interleave are the pending events, whose times depend on parameters, random draws and
  the user's forks. A **reference** engine (`engine/oracle`) does the same the slow way.
* The **worker** (`src/src/worker`) runs the engine in a web worker. It computes the days
  of the week in chunks, most urgent work first, keeps checkpoints, and streams results.
* The **playback store** (`src/src/playback`) lives on the main thread. It plays the
  week back from what has been computed, and turns what the user does (fork, reset,
  seek, track, detail) into messages to the worker. The two sides share nothing but two
  ordered channels, and either may be arbitrarily slow.
* The **viewer** (`src/src/charts`, `sim-view`, `ui`) shows what the store holds, and takes
  seeks, zooms and parameter changes.
* The **benchmark harness** (`src/benchmarks`) runs servers, load and samplers on a GPU host.

### Inventory

| Component | State it keeps | Operations | Hard because | Correct when |
|---|---|---|---|---|
| Client and load (`engine/load`) | session records, live slot, armed timeout, pending send; envelope, spikes, shifts | candidate, next turn, retry, extra, timeout, first token, request ended | timeout against first token; a request may end inside the notice of its own arrival; sends past the day's end; overlapping spikes | one request per session, every session ends, no stale event; the day is the plan's |
| Request table (`engine/shared`) | slots, live/ended/free | alloc, release, reuse | a slot outlives its request until the next allocation | a slot is reused only when nobody refers to it |
| Router (`engine/router`) | rotation, pending dispatches, outstanding counts, sampled signals, round-robin position | arrive, admit, choose, dispatch, reroute, end, refresh | stale choice at dispatch; cap that shrinks; sees no crash | counts exact, gate exact, choices in rotation, affinity stable |
| Replica scheduler (`engine/replica`) | phases, waiting and running lists, step in flight, span, mode | dispatch, eligible, cancel, kick, step end, span truncation, meter sync, crash, rejoin | preemption inside composition; many steps merged into one event and cut in the middle | it is the reference scheduler; every request served |
| KV pool (`engine/kv`) | ref counts, keys, free stack, LRU list, paged index by content | prefix search, acquire, allocate, register, release, wipe | eviction while acquiring; two sequences computing one prefix; pages that change owner | blocks partition, shared blocks agree, cached content exists |
| Failure (`engine/failure`) | phase per replica, pending phase end | crash, phase end | crash while recovering; work sent to a dead replica | dead replicas hold nothing and come back |
| Event queue (`engine/core/queue.ts`) | heap, slots, generations, cancelled entries | push, pop, cancel, compact | lazy cancellation, slot reuse, stale handles | it is a set of events in order |
| Day runner (`engine/core`) | now, patches applied, buckets closed, checkpoint | advance, checkpoint, restore | ties at one instant, any cut of the day, restore with other patches | the cut is not observable; `advance(T)` is exact |
| Metrics (`engine/metrics`) | levels, open requests, bucket and histogram counters, rollup | every notice, bucket end, day end | quiet buckets are omitted; a request ends inside the notice of its arrival | every bucket says what happened in it |
| Cost model (`engine/cost`) | none | step cost, closed form of many steps and its inverse | the switch between memory and compute bound | the closed form is one step after another |
| Worker host (`worker`) | run, revision, patches, day slots, checkpoints, jobs | init, reset, fork, focus, track, detail; stream, densify, detail and trace work | forks against checkpoints, live runs, queued jobs and a cached run | every run it restores has applied its own patches; it gets to rest |
| Playback store (`playback/store.ts`, `forks.ts`, `detail.ts`) | run id, revision, cuts, computed ranges, focus, detail tracker | what the user does, every message | results of an older revision arrive late, partly valid, and are never sent again | what is shown is current, and nothing is lost |
| Fixture transport (`playback/fake-transport.ts`) | a run that plays fixtures, its tasks | the worker's protocol | must answer a fork as a worker does | same promises as the worker |
| Results index (`playback/index`) | slots of results, dot streams, traces, details | add, cut, drop; records, dots, series in a range | one stretch of a request is told by several sources, each cut or dropped on its own | what a query answers is what a fresh computation would |
| Playhead (`playback/throttle.ts`, `timing.ts`, `shift.ts`, frame loop) | playhead, speed, buffering, pending notification | frame, set, seek, fork, message | waits for computed data; delayed notification; skipped nights | never plays a hole, gets to the end, loses no change |
| Charts (`charts`) | window, zoom, page, run in view | zoom, pan, page, day | clamping at both ends of a day and a run | the window holds what it says; a zoom keeps its focus |
| Simulation view (`sim-view`) | layout, scene, picture, hover | resize, frame, pointer | layout and picture of an earlier frame reused | what is hit is what is drawn; lanes and dots are the fleet's |
| Timeline and controls (`ui/timeline`, `ui/chrome`) | drag, playhead, drafts, tab, list of changes | scrub, key, slider, switch, tab, reset | drag across a fork or a tab change | seeks land where play can go; the drawer shows what is in force |
| Benchmark harness (`benchmarks/scripts/harness`) | servers, samplers, directories moved aside, manifest | plan steps, stop rules, checks, cleanup | servers die, steps fail, the operator interrupts | every server of a run stopped, caches back, flags true |
| Scale study (`spikes/scale`) | a day engine of its own | its events | prefix by owner trusts blocks that others may have taken | its two caches agree with a plain day |

`PROJECT.json` has the complete list, with scenarios, fixtures and tools, and under
`hazards` what in this code a test would hardly reach, each at its line.

## 2. Modules

| Module | Models | Refines / uses |
|---|---|---|
| `Fleet` | a request's life across load, request table, router, replica and failure; its fairness and liveness | |
| `KvOps`, `KvPool` | the pool's operations as operators; any sequence of the calls its callers make | |
| `ContentMap`, `ContentIndex` | a map from content to blocks, and the paged index that implements it | refinement |
| `ReplicaScheduler` | one replica's scheduler over `KvOps` | extends `KvOps`; `MCReplica` maps it to `OracleScheduler`: spans, lazy counts and late registrations are only optimisations |
| `OracleScheduler` | the reference scheduler, one step at a time | uses `KvOps` |
| `CostModel` | the cost of a step, the closed form of many, and the meters of work | |
| `EventSet`, `EventQueue` | the promise of the queue, and the heap that keeps it | refinement |
| `DayOrder`, `DayRun` | the promise of a day run, and the loop that keeps it | refinement |
| `OracleDay` | the reference's day: agenda, arrivals, timeouts, cancels, admission, crashes, meters | uses `OracleScheduler`'s operators |
| `LoadDay` | the load module over a day, beside the plan drawn from the same keys | |
| `SpikeDay` | the scale study's day with its two prefix caches | |
| `RoutingPolicy` | ring, policies, signals, rotation, refresh chain | |
| `Metrics` | the metrics of a day with a history of what happened, the index they go to, and the status panel that reads it | extends `ResultSlots` |
| `WorkerProtocol` | messages, grid, what a patch changes | |
| `EngineHost`, `PlaybackStore`, `Playback` | the worker; the store and its results; both with their channels | extend `WorkerProtocol` |
| `DayStream` | the worker's grid of chunks and checkpoints, which checkpoints it keeps, and densifying | |
| `FakeTransport` | the transport that plays fixtures, below the same store | extends `PlaybackStore` |
| `Playhead` | playing, speed, throttle, buffering, prefetch, over a worker that computes what it is asked for | |
| `ResultSlots`, `ResultsIndex` | the index of results: slots; chunks, streams of dots, and the queries over all sources | |
| `ChartWindow`, `SimView`, `WeekTimeline`, `Controls` | charts' window; canvas; timeline; parameter drawer | |
| `BenchRun` | plans and executor of the benchmarks | |
| `MC*` | instances for TLC | |
| `FleetProofs` | proofs about the fleet, section 5 | extends `Fleet` |
| `PlaybackProofs`, `PlaybackStoreProofs` | proofs about playback, section 5 | the second extends the first |
| `KvPoolProofs` | proof about the KV pool, section 5 | extends `KvPool` |
| `DayRunProofs` | proofs about the day run, section 5 | extends `DayRun` |
| `RoutingProofs` | proofs about the router's choices, section 5 | extends `RoutingPolicy` |
| `PlayheadProofs` | proofs about the playhead, section 5 | extends `Playhead` |

### How state and actions correspond to the code

**Fleet.** `sess`, `slotOf`, `timeoutEv` and `sessEv` are columns of the session table;
`live`, `reqId`, `outcome` and `first` of the request table; `routable`, `pending`,
`dispatched` and `outstanding` the router's; `phase`, `at`, `eligibleEv`, `mode` and `stepEv`
the replicas'; `fstate` and `phaseEv` the failure module's. The event queue is one set of
pending events per kind. An event is a value that carries what its handler's arguments
carry (slot and request id, and the chosen replica), so cancelling through a handle removes exactly
that event and a forgotten cancel leaves it behind. The table's free list and its queue of ended slots are `freeSlots` and `pendingFree`, as bags: which free
slot is popped is left open, but a slot that is listed twice, or listed while its request lives, is handed out. Each handler is one action with its
whole tree of notices: `ClientEnds`, `TableEnds` and `RouterEnds` are the subscribers
of `requestEnded`, as operators over the set of slots that end. Time is left out: a
pending event may fire at any moment, which covers every timing. `late` says that the
day has come so close to its end that `ctx.schedule` may drop an event (`Lossy`). A replica's
step here may bring any first tokens, finishes, preemptions and admissions;
`ReplicaScheduler` decides which.

**ReplicaScheduler.** `eng` holds the fields of `ReplicaEngine` and of the requests on it. A
span is one pending event; `elapsed` counts the steps of it that have ended by now, and
`SyncSpan` applies them as the code does when somebody looks. Durations are arbitrary.
`thrown` records that a `throw` was reached. `MCReplica` maps it to the reference by applying
the steps that have elapsed (`stepped`).

**KvPool, ContentIndex.** Holders make the calls of `steps.ts` and `requests.ts` in their order;
the pool sees the index of `kv/content.ts` by what it answers, and `ContentIndex` shows that its pages,
hints and free list answer so. An answer names what was asked: the key that was registered, and of a walk the owner and range, all of them at
once. So the map cannot take another of its steps for what the pages did.

**EventQueue.** The heap with its sift loops as recursive functions, slots, generations
(modulo `Span`), lazy cancellation, compaction. `handles` keeps every handle that was ever given out, in the order of the pushes, and any may be
cancelled at any time. The answer of a cancel names the event whose handle it was, so a stale handle that takes another event off is no step of `EventSet`.

**DayRun.** The loop of `advance`, one action per iteration or closed boundary. Three kinds
of handlers schedule, as the real ones do: a periodic refresh that a parameter change moves, an
injected request, and events at the same instant with other priorities. A handler may throw
(`Throw`), and a failed run can only be replaced. `DayOrder` is the same day without advances or checkpoints.

**OracleDay, SpikeDay, LoadDay.** Whole days in real (small) time, their random draws given as tables
in the inputs. `LoadDay` runs the plan of `load/plan.ts` beside the module and compares what each produced.

**Metrics.** One action per notice, with time that advances between them; `past` and `trail` are a history of what happened,
and the property recomputes from it every bucket that was emitted. The chunks go to a store with
forks, so that a rollup and the status panel are checked from what is left after cuts.

**EngineHost, PlaybackStore, Playback.** A day is a row of histogram buckets. The result of a
bucket is abstracted to the revisions of the forks it was computed with and the analyst it
was recorded for: that is all the fork rules tell apart. Every command, message and unit
of work is one action. Details and traces are sets of jobs that know their order. `failed` and the
`error` message are modelled where a checkpoint cannot be restored. The active window is the whole day; baseline patches
and the byte sizes behind the checkpoint budget (any subset may be kept) are left out.

**DayStream.** What `EngineHost` leaves open: times of day instead of buckets, an active window inside the day, the
coarse and the fine grid of checkpoints, `focus` messages that prefetch, a budget that takes the checkpoints of the
other days in the code's order, and a day that is run again silently to fill its grid when it gets the focus. A run
or a checkpoint is the time it is at. Checkpoints have one size, and one job at a time stands for details and traces.

**Playhead.** `view` holds the store's fields, `wall` counts wall-clock ticks up to the throttle's
interval; the worker is abstracted to days that grow when they were asked for.

**ResultsIndex.** A request is a list of steps (instant, state, replica), a fork replaces the
story from its time on; sources tell parts of the current or an older story. Queries are the code's, properties compare
their answers with the story.

**SimView, ChartWindow, WeekTimeline, Controls.** State is what the components keep between renders;
a render is part of the action that causes it.

**BenchRun.** `pc` walks the steps of the plan of one run; each step may fail, a server may die at any
moment, and Ctrl-C may come where `Windows` says. `procs` are the processes that exist, `servers`
those the executor knows. A process stands for a server's whole group: that its workers end with it when it dies is assumed of vLLM, for the harness signals a group
only while its leader lives (`server.py:159`).

## 3. Runs

`tlc -config X.cfg M` in this directory; two cores, up to four minutes each. Components that share no state share a run: the
`MC` module has one set of variables per component and a variable `machine` that says which of them moves in a
behaviour, while the others stay in one state they may start in. So the state space of a run is the sum of its components', an invariant
of a component is guarded by its `machine`, and each behaviour is a behaviour of one component. Names a run's module gives
to such guarded properties (`MetricsExact`, `CostExact`, ...) lead to the component's own statement of it.

| Run | Instance | Shows |
|---|---|---|
| `fleet` | 2 sessions, 2 replicas, 2 slots, one turn of at most two attempts, 1 crash, 1 parameter change, admission limit none or 1, late day | types, and how load, table, router, replicas and failure agree |
| `liveness` | fleet: 2 sessions (one whose requests no replica can run), 1 replica, no overhead, 1 crash. Scheduler: 2 requests that do not fit together | every session ends, every replica recovers; both requests are served |
| `replica` | scheduler: 3 requests of 2 sessions, 5 blocks of 2 tokens, 2 places, 3 tokens a step. Index: 2 owners, 3 pages of 2. Cost: 2 calibrations, 2 sequences, 9 tokens | the scheduler is exact and implements the reference; the paged index implements a map; closed form and meters are one step after another |
| `structures` | queue: 5 events of 3 ranks in time and priority. Pool: 2 holders, 2 sessions, 4 blocks, partly filled system prompt. Router: 3 replicas, 5 ring points (two at one position), all five policies | pool exact in every order of calls; choices in rotation, fair, affine; the heap implements a set |
| `days` | day run: 3 buckets of 2 instants, 2 of 6 patches. Reference: 3 requests, 2 replicas, 5 blocks. Scale study: 3 sessions, 2 replicas. Load: 8 candidates, 2 patches of every kind. Worker's grid: 3 days of 18, window 3 to 15, chunks of 2, checkpoints every 4 and 8, a budget of 2, 2 messages | any way of running a day is one day; whole days do what they promise; the worker keeps the checkpoints it should |
| `playback` | 2 days of 3 buckets, any 2 user actions, 2 messages in flight; the store over the worker, and over the fixtures | what is shown is current and complete |
| `plays` | playback: a fork and a seek. Playhead: 2 days of 6 instants, 2 speeds, up to 2 user actions and a seek, fork or reset | the worker comes to rest; the playhead gets to the end, plays no hole, loses no change |
| `viewer` | index: 2 days, 2 requests with two stories each, 2 forks or a fork with a detail or a change of analyst. Canvas: 4 scenes, 3 sizes. Timeline: 3 days, 2 shifts. Drawer: 2 tabs, 2 forks, 2 runs | what is shown was computed, what is asked is sent |
| `measures` | metrics: 2 requests, 2 replicas, 6 buckets, a status window of 4, a fork, a crash and its recovery with a step of the meters. Charts: 2 days, 2 zoom steps. Benchmarks: one run of each kind, dying servers, an interrupt | buckets, rollups and status exact; window faithful; runs leave nothing behind |
| `stale_detail` | 1 day of 4 buckets, two detail windows and a fork | a finding, below |
| `bucket_hook` | the day run with a hook that schedules | a finding, below |
| `bench_interrupt` | the benchmarks, an interrupt anywhere | a finding, below |

### Why these bounds are enough

* **Fleet.** The hard cases involve two requests (a reused slot, a cap of one, two requests
  on a dying replica) and two replicas (reroute, stale choice). One retry gives each session
  two requests that follow each other, so a stale reference to the first meets the second. There are at
  least as many slots as sessions, so an ended slot is always free when one is needed, as in the
  growing table of the code. `late` may become true in any state, so any suffix
  of the day may lose its events. `liveness` sets the two constants `fleet` leaves
  off, `Oversized` and no overhead, and with them fires the branches that need them.
* **Scheduler.** With five blocks, two running requests can exhaust the pool, so each may
  preempt the other; a prompt of more than three tokens is prefilled in chunks; the
  third request waits for a place; spans are of several lengths and are cut at every step
  by arrivals, cancellations, meter reads and crashes.
* **KV pool and index.** Both holders may have the same session, so they hit, compute and register
  the same prefix; four blocks are fewer than two sequences need, so every order evicts. The index
  starts with one page, grows to three, and hands freed pages to the other owner.
* **Playback.** A violation needs a message in flight across a fork, or two actions whose
  effects meet, and all pairs occur in every interleaving. A bucket row of three with chunks
  of two has full chunks, partial chunks, and cuts before, in and after each.
  `MaxInFlight` is back-pressure of the model: without it the worker could run ahead
  without end; a run may still have two messages on their way.
* **DayRun.** The patches collide with the refreshes, with both kinds of boundary, with each
  other, with the morning and the end of the day. `advance` may stop anywhere.
* **OracleDay, SpikeDay, LoadDay.** The inputs place timeouts at the instant of a first token and of a dispatch, a cancel and a crash around
  them; pools that hold hardly more than one request; draws that thin, accept and cross the shift's edges, with spikes that overlap.
* **EventQueue.** Five events make a heap of three levels; two dead entries compact it. `Span`
  is greater than the number of events, so that generations do not wrap: in the code
  they wrap after 2^32 events of one slot, more than the queue admits in a day.
* **Routing.** Three replicas are the least with which one can leave and the others keep
  theirs; load and KV of each are light or heavy, independent of what the router sampled.
* **Metrics.** Each behaviour spends its steps on one part of the environment (`EightProfiles`): one request's whole life, a shorter one
  with a fork, two side by side, a crash and the whole recovery with one step of the meters anywhere in them, meters alone, one step of a replica and one of the
  meters with a fork, a request on a replica that crashes. Instants lie at, in and after bucket boundaries, so that a replica may use KV, crash and come back in one
  bucket.
* **ResultsIndex.** Two stories part in the middle of a chunk or at its end; all pairs of fork, detail window and change of analyst.
* **DayStream.** A window that starts inside the first checkpoint interval and ends inside the last; a middle day on which focus can arrive
  from either side; a budget of two, less than one day's checkpoints.
* **BenchRun.** The four runs have every kind of step, warmup, generated data, stop rule, both restarts and both host conditions.
  One expects preemptions and the others do not, so both checks are planned and left out.

`CHECK_DEADLOCK FALSE` is set where the system may stop: a day ends, the user stops, a benchmark is over.

### What the properties say

*Fleet.* `HeldOnce`: a live request is in exactly the places its state names. `EventsExact`: a session never has two requests, a session in flight and its request name
each other, and no pending event is stale. `RouterTrue`: the rotation follows the failure states and the counts are those of the
requests. `ReplicasTrue`: a crash leaves nothing behind, and no replica sleeps on work. `TimeoutBeforeToken`: a timeout is armed only
while it may still end the request. `AssertsHold`: the checks the modules make of themselves (`assertInvariants`) pass. `StepsLegal`: nothing is admitted above the cap of that moment, and no slot
is handed to a new request while an earlier one still lives in it, which the list of ended slots would do if it were not emptied (`shared/requests.ts:162`).

*Scheduler.* `SchedulerImplementsOracle` is a refinement: the engine with spans does what the
reference that ends every step by its own event does, so merging, truncation and the lazy
meters change nothing that can be observed. `SchedulerExact` adds that no `throw` is reached, that output and tokens survive preemption,
and that the pool's blocks are those of the requests, and that the checks of the scheduler and of its requests pass. `Served` says that preemption ends.
`CostExact`: a span costs what its steps cost one by one, the inverse finds the last step that fits, and the meters count the work of those steps.

*Playback.* `StoreTrue`: what is shown is what a fresh run would give, nothing counts as computed
that is not held, and the two sides agree when the channels are empty. `NothingLost`: when the worker
rests, the main thread has everything, because nothing is sent twice. `WindowsTrue`: the detail windows are current too, and the worker can restore whatever it
kept (`restoreDayRun` does not throw). `FakeHonest` says the same of the fixtures.

*Day.* `Whole` is the refinement of `DayOrder`; `CheckpointExact` is the invariant
`core/README.md` states: before `T` everything has run, from `T` on nothing has; and `assertCore` passes at all times, unless
the run has failed. `StreamExact`: no checkpoint lies after a fork's cut or outside the
window, the focus day has one near every mark once it is densified, the other days keep a thin set within the budget, which the farthest
days lose first; chunks end on the grid.

*Measures.* `MetricsExact`: every bucket, rollup and status the viewer reads says what the history says of that
stretch, also after a fork cut it. `WindowTrue`, `ZoomFaithful`: section 2's charts show the playhead, and a zoom keeps its focus.
`BenchTrue`: no server outlives its run, caches come back, and flags are true.

*Playing.* `NothingMissed`, `PlaysComputed`: section 5. `ReachesTheEnd`: the worker comes to rest with the whole week
computed, and a playhead that plays for good gets to the end.

### Findings

* **`stale_detail`** (code). `stepDetail` caches the run of the job it finishes under the
  revision of that moment (`src/src/worker/jobs.ts:103`). A job that ends at or before a
  fork's cut is kept, with the run it was opened with; after the fork that run enters the cache
  under the new revision, and the next window of that day, after the cut, is computed without
  the fork's patch. `host.ts:23` promises the opposite. The same run may leave checkpoints that lack the patch: when the
  day's stream opens one of them, `restoreDayRun` throws and the whole run fails.
* **`bucket_hook`** (code, latent). When the last boundaries of an `advance` are closed, the loop does
  not look again for what their hooks scheduled (`src/src/engine/core/run.ts:176`), against
  `core/README.md:171`. No shipped hook schedules; a test does, and passes by its schedule.
* **`bench_interrupt`** (documentation). The executor promises that servers are stopped whatever happens, but a
  server is let go before it is stopped and started before it is held (`executor.py:286`, `129`): Ctrl-C
  in either gap leaves it running.

`DetailsCurrent` is a part of `WindowsTrue` in `playback`, which allows only one detail window, and
`CheckpointExact` is checked in `days` without the scheduling hook: apart from the findings both hold.

Met while modelling, and stated by no run:

* Leaving out `headSessionClear` (`replica/steps.ts:248`) breaks no property on the instance: the
  check is conservative there.
* `RoutingPolicy` models the refresh chain with its one handle; no run counts pending refreshes, and none states the scale of weighted scores.
* `ready` is posted as soon as a run starts (`worker/host.ts:184`), so the branch of `pick` that still
  owes it (`host.ts:126`) is never taken; the comment at `worker/state.ts:91` describes it. The
  UI never calls `track(null)` before `ready`, so neither does the model.
* The restore step of a privileged trial checks only that the path exists, so it passes when its author confirms without moving anything
  back; and the manifest of an aborted run says `prefix_cache_zero` although the check never ran (`executor.py:455`).
* `PageUp` from a shift's end goes to the start of the shift two days on (`ui/timeline/geometry.ts:103`), which is playable and
  so breaks no property.
* A slider released outside the window keeps its draft until it is touched again (`ui/chrome/ParametersDrawer.tsx:163`). `DragTakes`
  speaks of sliders that are let go of.

## 4. Fairness

* **Event queue.** Simulated time advances until the day ends, so every pending event fires unless it is
  cancelled: weak fairness of each kind of event (`Fairness` of `Fleet`).
* **The engine under Fleet.** `Fleet` does not count tokens, so it cannot know that a
  running request finishes or that a waiting one is admitted. `Fairness` assumes both by
  strong fairness of `Finishes` and `GetsAdmitted`: a request that can again and again finish or be admitted
  does. This is the one assumption that is not of the scheduling; the other half of `liveness` shows it of the real
  scheduler (`Served`).
* **Scheduler.** A replica that is not idle has a pending event or has time passing: it works again and
  again. `MCLiveness` says so with a history variable that flips whenever it works (`MustWork`).
* **Playback.** The worker's loop posts itself its next turn, and `postMessage` delivers: weak fairness
  of the worker's work and of both deliveries (`HostStep`, `ClientStep`). Nothing is assumed of the user.
* **Playhead.** The browser calls the frame loop again and again (`Frame`), wall-clock time passes (`Elapse`), and the worker
  computes a day it was asked for (`AskedProgress`), which the worker's half of `ReachesTheEnd` (`EventuallyIdle`) shows.

## 5. Proofs

Twenty-five theorems, each for every value of the constants. `PROJECT.json` lists them; the lemmas they rest on stand
before them. The assumptions are the named ones of the models: `FleetAssumption` (finite sets,
special values outside them, natural bounds), `ProtocolAssumption`, `HostAssumption`, `StoreAssumption`,
`EntryAssumption` (the grid's chunk is at least a bucket, the run starts in a bucket of the week,
and the special value is none of the day runs, records and sets of revisions it stands beside), and for the pool `KvAssumption` (a block and the pool are at least one token and one block, and the
system prompt fits) and `PoolAssumption` (finitely many holders, the system prompt is no session, no key is `NoKey`);
`PlayheadAssumption` (a window is whole buckets, a day whole windows and whole chunks, the shift lies in the day, as `timeline.ts` and the grid have
them) `DayAssumption` (a day is whole buckets) and, for the router, `RoutingAssumption` (ring points and parameters of their types, a point for each replica, as `buildRing` makes at least one). The two theorems of the day run also assume `~HookSchedules`: that no
bucket hook schedules an event, as none that the repository ships does. With one that does they are false, which is the finding `bucket_hook`.
Nothing else is assumed: any number of days, buckets, sessions,
replicas, slots, forks, messages in flight, blocks, holders, days in the week, patches, events.

| Theorem | States | Rests on |
|---|---|---|
| `TypeCorrect` | `[]TypeOK` | `HeldInv == TypeOK /\ HeldOnce /\ Named /\ AssertRequestTable` |
| `HeldExactlyOnce` | `[]HeldOnce` | `HeldInv` |
| `RotationCorrect` | `[]RoutableView` | itself, with `TypeOK` |
| `SlotsNotReused` | `SlotNotReused` | `HeldInv`, with `AssertRequestTable`: a listed slot has no live request |
| `DeadReplicasEmpty` | `[]DeadHoldsNothing` | `HeldInv /\ DeadInv` |
| `EventsAreExact` | `[]EventsExact` | `HeldInv /\ DeadInv /\ EventInv` |
| `TokensDisarm` | `[]TimeoutBeforeToken` | `EventInv` |
| `RouterIsRight` | `[]RouterTrue` | `HeldInv /\ OutstandingExact` |
| `ReplicasAreRight` | `[]ReplicasTrue` | `HeldInv /\ NoIdleWithWork` |
| `StepsAreLegal` | `StepsLegal` | `HeldInv`: the live requests are those the router has admitted and not ended |
| `AssertionsHold` | `[]AssertsHold` | `HeldInv /\ DeadInv /\ EventInv /\ OutstandingExact /\ NoIdleWithWork /\ RoutableView /\ HandlesKept` |
| `PlaybackIsTyped` | `[]PlaybackTyped` | itself |
| `ChannelsAreOrdered` | `[]Ordered` | `PlaybackTyped /\ Ordered` |
| `TheTwoSidesAgree` | `[]Agreed` | `Ordered /\ FocusAgreed /\ TrackAgreed` |
| `ResultsAreCurrent` | `[]ResultsCurrent` | `Ordered /\ StreamsRight /\ SentRight /\ ResultsCurrent` |
| `ComputedIsHeld` | `[]ComputedHeld` | `Ordered /\ StaleUncomputed /\ StreamedCovered /\ ProgressCovered /\ ComputedHeld` |
| `StoreIsTrue` | `[]StoreTrue` | the last three |
| `NothingIsLost` | `[]NothingLost` | `NothingDropped`, eighteen parts, below |
| `PoolIsConsistent` | `[]PoolConsistent` of `KvPool` | `PoolInv == Typed /\ Filled /\ KeysTrue /\ AllAgree /\ Counted /\ Accounted /\ ~thrown` |
| `RoutingIsSound` | `[]RoutingSound` of `RoutingPolicy` | `RouterInv == TypeInv /\ CycleInv` |
| `AffinityMovesOnlyItsOwn` | `AffinityMoves`, an action property | `TypeInv`, and the order of the ring |
| `NothingIsMissed` | `[]NothingMissed` of `Playhead` | `Inv == Sound /\ ` typed budgets |
| `PlaysOnlyComputed` | `PlaysComputed`, an action property | the same, and what `Advance` returns |
| `CheckpointsAreExact` | `[]CheckpointExact` of `DayRun` | `Inv`: by phase `Rest`, `Under`, `Clear`; a checkpoint is a day at rest |
| `RunsAreDays` | `Whole`: `DayRun` implements `DayOrder` | the same, and one step of the one for each of the other |

### Fleet (`FleetProofs`)

All eight properties that the run `fleet` checks are theorems.

*Types.* `TypeOK` is cut into the types of the six modules, and each operator that
a handler is built from (`ClientEnds`, `TableEnds`, `RouterEnds`, `Enter`, ...) has a lemma that it keeps
its module's; a handler's lemma then combines those. `TypeOK` is not inductive alone: a dispatch
event copies the identity in a slot, which is one only if slots in use have one
(`Named`), and that a slot with a dispatch pending is in use is a part of `HeldOnce`. So the three are one
induction, with a fourth.

*The table.* `AssertRequestTable` is the check of `shared/requests.ts` and more: every slot is listed once as free, once as ended, or holds a live request. Release is legal
because a handler ends live requests only (`HeldOnce`), and allocation because it empties the list of ended slots before it pops a free one: `Reusable` is the lemma that
what it pops has no live request, and `SlotNotReused` follows.

*Held once.* `EndsHeld` settles, once, every way a set of requests can end; `SameHeld` every
step that moves none. What remains are arrival, dispatch and the passage into the engine.

*Dead replicas.* `DeadHoldsNothing` is not inductive: a step event that a crash forgot could
still fire. `StepHandles` adds that every pending step event is the one its replica's handle names, so cancelling
through the handle removes it. `HeldInv` gives that a slot held by a replica is there and nowhere else.

*Events.* That no event is stale is not inductive either: the timeout handler finds the request it was armed
for only if arming, disarming and reuse of the slot all go through the same handle. `EventInv` says for each kind
of event that every pending one is what its holder's handle names and carries the identity the slot has now; `Unended` adds
that a live request has no outcome: without it a first token could be noted for a request that timed out. With those, `OneRequestPerSession` and
`TimeoutBeforeToken` are preserved together.

*Counts.* `OutstandingExact` compares a counter with a cardinality: `EndsCount` and `DispatchCounts` say what taking a set of requests away, and
moving one to a replica, do to it, and every handler is one of those. `NoIdleWithWork`
needs to know of each step which requests can become work (`SameWork`, `FinishAndComposeWork`, `EnterWork`).
The gate of `StepsLegal` counts live requests of the table, while the code
compares the router's own two maps with the cap; `LiveAreAdmitted` (from `HeldOnce`) says that these are the same requests, and `SendWithinCap` that an arrival, the only step
that adds one, leaves them within the cap of its moment.

*Assertions.* The `invariants.ts` of the modules say that no handle dangles: what a session, a request, a replica or the failure module
keeps a handle of is still queued, or the day ran out for it. `EventInv` says the converse only, that what is queued has its
handle, so `HandlesKept` is an induction of its own, handler by handler. Checks of what the model does not have (the load module's cursor and spikes, the
router's refresh) are not in `AssertsHold`.

### Playback (`PlaybackProofs`, `PlaybackStoreProofs`)

`StoreTrue` and `NothingLost`, which the run `playback` checks for two days and two user actions, are theorems.

*Kinds of steps.* Twenty actions of two sides are too many to repeat in each induction.
`PlaybackProofs` proves once that every step is one of a few kinds (`AStep`: a fork or a reset is posted, another message is posted,
the worker starts a run, takes a fork or another message, drops an old one or works, the main thread receives); the other inductions
go by kind, and descend to the action only where what was computed matters.

*Order.* `Ordered` is what two FIFO channels give: the cuts of the store are numbered by its revisions without gap; the
runs and forks on their way to the worker are the ones it lacks, in order, so that what it has applied and what is on its way
make up the store's cuts; results on their way carry runs and revisions that never decrease and never exceed
the worker's. For `Agreed` each thing the two sides share is traced through the channel: the store's value is what the worker will
have after the messages on their way (`FocusAgreed`, `TrackAgreed`; the analyst is delicate, since the worker chooses the first
one and tells the store only by `ready`).

*Current.* `ResultsCurrent` alone says nothing of results on their way. `StreamsRight` says that each day run and trace run of the
worker, which may be older than its latest fork, differs from a fresh one only by patches dated after all it will compute;
`SentRight` that a result on its way is right under the cuts the worker had seen at its revision. Then a message that arrives late is right but for the later
cuts, and `Drops` and `Recuts` of the store take exactly those off.

*Held.* Progress may count a bucket only because its chunk came before it. `Covered(d, b, n)` says that once the first `n` messages are taken,
the bucket is in the store; `StreamedCovered` says so of all the worker has streamed, `ProgressCovered` of what each progress message counts, and
`StaleUncomputed` that nothing counts as computed that a fork the worker has yet to see would change. A fork keeps
the three because it cuts both sides at the same bucket.

*Nothing is lost.* `NothingLost` speaks of rest only. `NothingDropped` says at every moment where each thing that will be needed is: still at the worker, on its way, or in the
store. Of the buckets `StreamedCovered` and `ProgressCovered` say so, and `ProgressTold` that what the worker knows to be computed is told or about to be; of a day's rollup `RollupDue`. Of the
detail windows `PendingDue` says that each one the store waits for is a job, a request or an answer on its way, with the tags in order (`TagsRight`, `TagsBounded`, `JobsRight`, `WindowsHeld`). Of
the tracked analyst `AnalystKept` says that each bucket's records are owed by the trace to come, or held by a chunk or a trace; it rests on what a day run, a trace run and a checkpoint are tracked
for (`RunsTracked`, `TracesTracked`, `NotAhead`, `NoTraces`, `TracesShown`, and `TrackAgreed`). A fork keeps all of them because both sides cut at the same bucket, and the channels keep order.

Proving led to a correction of the model. A detail job that outlived a fork leaves checkpoints computed without it (the finding `stale_detail`), and
`restoreDayRun` throws on those; the model had assumed that it restores only what it can. `Fail` is now the code's
`catch`: the run fails and an `error` is sent (`worker/host.ts:108`). The theorems of playback hold with it; that it is never taken (`NeverFails`) is
only true as long as no stale run is cached, and is checked, not proved.

### KV pool (`KvPoolProofs`)

`PoolConsistent` of `KvPool`, which the run `structures` checks with a few blocks and holders (through its own `PoolConsistent`, for the machine `pool`), is a theorem.

*Operators.* Each call (`TakeBlocks`, `ReferenceBlocks`, `ReleaseBlocks`, `Register`) has a lemma that it keeps `Accounted`, and says
which blocks' counts and keys it touches. `Accounted` is not kept by calls alone: to release a block one must hold it, to register it too.
That it is so is what the tables know.

*Tables.* `Counted`: the reference count of a block is the number of tables it is in. `Filled`: a table has the blocks of what is
allocated, and has registered those of what is computed, rounded down. `KeysTrue`: a registered block of a table has the key of its place, so
a hit is on the right content. `AllAgree`: two tables share a block only at one place, under one key, registered by both. `PoolConsistent`
alone is not inductive: it says nothing of a block in two tables that is not registered yet, whose registration by one
would name the other's content. The fresh blocks of a table had no holder (`TakeAccounted`, `HeldCounted`), which keeps `AllAgree`.

*Registration.* `Compute` registers several blocks in a loop; `ComputeInv` is an induction over that interval, with what
the invariant says after `i` blocks. Induction over an interval, and that a function defined by recursion over one exists, are themselves
proved, from the least element of a set of numbers (`Least`, `IntervalInduction`, `Recursion`): those lemmas take a set or a function
where the library's take an operator.

### Routing (`RoutingProofs`)

*Choices.* That a policy has a candidate is the existence of a least element: of ids (round robin), of sampled values or weighted scores
(`LowestFound`, for integers of any sign), of ring points by distance, owner and virtual node (`FirstFound`), and of a replica with a given place in the list
(`RankTaken`, for mod-N), each from the least element of a set of numbers.

*Round robin.* `RoundRobinFair` compares any two choices, so an induction over steps needs their relation: `CycleInv` says that choices are as far apart in rank as
in time (`Ahead`), over at most one round and one choice. Each choice is the next rank (`NextInTurn`); two equal ranks are then a whole round apart, and every rank lies between.

*Ring.* Two owners that differ before and after, both in rotation throughout, would have first points that each come before the other.

### Playhead (`PlayheadProofs`)

*Operators.* Most of it is about `Advance`, what one frame makes of the playhead: `Ranks` and `RankMet` say how shift time grows along the week, so that the playhead
stops where the shift time of the frame is used up, at the first hole, or at the end; `Advanced` that it passes nothing that is not computed. Days, buckets and detail
windows are quotients: `DayTime`, `WindowInDay`, `WindowOf` and `BucketOf` show, from the uniqueness of quotient and remainder (`Quotient`), that a window lies in
one day and that its buckets are the ones the store counts.

*Missed.* `NothingMissed` is not inductive. `AskedFor` must know that a window the client holds is computed to its end (`AllThere`), or a fork could leave a
window that is neither wanted nor there; a change that the canvas has not drawn has marked it dirty *and* has a frame to come (`CanvasTold`), for which playing must
have its handle. The actions are made of a few parts (`DetailStep`, `FocusStep`, `FrameStep`, `PlayStep`, ...), each with a lemma.

### Day run (`DayRunProofs`)

*Invariant.* `CheckpointExact` speaks of a day between two advances. During one, what has happened is before the goal
only (`Under`), and the goal may be before the next item's time; while boundaries are closed nothing is due before the last of them (`Clear`), which is what the finding's hook breaks. A checkpoint is
a day at rest (`Rest`), for whatever patches it is restored with: `PartitionFacts` says what the restored list has before `atMs` and after.

*Sorting.* The patches of a day are sorted by a stable insertion sort, a recursive function; `InsertedInOrder` and
`SortedInOrder` are inductions over an interval, as in `KvPoolProofs`. `Prefix` says that the patches of the day are a prefix of all.

*Refinement.* `DayOrder` takes the least item by time, boundaries before patches before events; `DayRun` takes one of three that are
each the least of its kind, in rounds. `NextFacts` says that nothing is due before the one it takes, and each action is then one of `DayOrder`'s or
changes neither day nor checkpoint.

### Not proved

* Liveness, fairness and everything with `ENABLED`: `FleetRecovers`, `Served`, `ReachesTheEnd` (with `EventuallyIdle`). Out of the prover's reach.
* What recursive definitions over sequences of records compute: `SchedulerExact`, `CostExact`, `SchedulerImplementsOracle`, `DayExact`, `SpikeExact`, `PlanHolds`, `StreamExact`,
  `MetricsExact`, `IndexCurrent`, `PictureTrue`. The step of the scheduler, a whole reference day, a bucket row are folds whose results are
  compared with another way of computing them, an induction over data. `QueueImplements` rests on a RECURSIVE operator (`Peeked`). For `IndexImplementsMap`,
  `ChartsExact`, `InputsTrue`, `DragTakes`, `WindowTrue`, `ZoomFaithful` and `BenchTrue` no proof has been tried.
* `WindowsTrue` (and that `Fail` is never taken) is false for more than one detail window, which is the finding `stale_detail`, so it
  is checked for one and cannot be proved. `FakeHonest` of `playback`, which says the same of the fixtures' transport, is only model-checked.

## 6. Not modelled

* Random draws and histograms' bins: numeric code without control; models take any outcome, or a small table.
* The rollup queries and the byte layout of the results index; colours, strokes and markup of everything that draws.
* The headless API, scenarios, calibration data and fixtures: data, or loops over what is modelled.
* Parsing of the benchmarks' configurations and result files; infrastructure, deployment, scripts.
* The scale study's recorder, storage and heap measurements.
* Errors of the worker other than a checkpoint that cannot be restored: `SchedulerExact` and the fleet's theorems cover the
  throws of the engine the models know of.
* Baseline patches in the worker. The shift window is in `DayStream` only; in `EngineHost` the window is the whole day.
* The sizes of checkpoints: in `DayStream` each counts one, so a budget is a number of them; a trace stands there as a detail job.
* The meter of the tokens that a preempted request computes again (`recomputedPrefillTokens`); the others are modelled.
* Growth of the request table and of the queue's arrays; the plain-data checks of checkpoints.

## 7. State

The models are written, in the order of the table in section 2, and checked. Proved are all of the fleet's safety, of the KV pool's, of the router's choices, of the playhead's and of the day
run's with its refinement, and of playback over the worker `StoreTrue` and `NothingLost`. What remains, in the order of what it would say:

1. The window of the charts (`WindowTrue`), arithmetic on a few values.
2. `IndexImplementsMap`, whose recursion is over an interval of pages, as the KV pool's is.
3. `FakeHonest`, by the argument of `StoreTrue` and `NothingLost` on one queue of tasks instead of two channels.
