# TLA+ models of llamesh

llamesh is a mesh proxy in front of llama.cpp: each node starts, shares and
stops `llama-server` processes for its own cookbook, queues requests while it
has no room, forwards requests to peers, and keeps llama.cpp itself up to date.
Almost everything that can go wrong in it is a matter of order: a request is
dropped at an `await`, a task runs between two locks, a message overtakes
another, the node is killed in the middle of a build or of a file's repair. These
modules model the parts where order matters and check them with TLC on small
instances. TLAPS proves, for every size, the safety of eight of them: live updates,
the circuit breaker, the request queue, the admission of instances, builds, gossip,
connections and shutdown, and routing, which implements the service a client is
promised and counts every request exactly.

All source paths below are relative to `src/src/`. Line numbers of every
definition are in `PROJECT.json` under `map`.

## 1. Inventory

### 1.1 Parts of the system

| Part | Source | State it owns | What changes it | Model |
|---|---|---|---|---|
| Circuit breaker | `circuit_breaker.rs` | one circuit per peer: state, failure and success counts, backoff, last probe | dispatch claims, recorded results, gossip's reconciliation of URL circuits | `CircuitBreaker` |
| Request queue | `node_state/mod.rs` | queue per model:profile, oneshot channels, pending priority tokens, in-flight counts | requests, wake tasks, the maintenance loop, guards' `Drop`, shutdown, cookbook reloads | `RequestQueue` |
| Instance admission | `node_state/mod.rs`, `node_state/spawn_reservations.rs`, `node_state/port_pool.rs`, `instance.rs` | instances map, reservations, ports, processes | requests, prewarms, evictions, retirement tasks, exits, the idle sweep | `SpawnAdmission` |
| Live updates | `node_state/mod.rs`, `node_state/model_index.rs`, `main.rs` | binary generation, cookbook version, model index, draining flags | build swaps, the swap watcher, reloads, the scheduler's drains | `LiveUpdate` |
| Build manager | `build_manager.rs`, `main.rs`, `util.rs`, `api.rs` | build directories, the symlink, the recorded version, the rebuild lock | initial, scheduled and manual builds, clean-up, kills | `BuildManager` |
| Gossip ordering | `cluster.rs`, `node_state/mod.rs` | the entry a node keeps of each peer; epoch and sequence number of the sender | gossip rounds, the network, restarts, time | `Gossip` |
| Gossip sending | `cluster.rs` | send permits, URL circuits | gossip loop | in `CircuitBreaker` (claims and records), `Gossip` (rounds) and `Serving` (the announcing round) |
| Routing and forwarding | `router.rs`, `node_state/mod.rs` | one invocation of `route_request` per hop, request and forward counts, subscriptions to `capacity_notify` | clients, peers' answers, drains, deadlines | `Forwarding`, over `PeerSelection`; its promise is `ProxyService` |
| Peer selection | `node_state/mod.rs` | none | — | `PeerSelection` (operators) |
| Wedge watchdog | `wedge_detector.rs`, `memory_sampler.rs`, `node_state/mod.rs`, `router.rs` | streaks of idle samples, trust in GPU readings, activity stamps, downstream waits | the sampling task, requests and their streams | `Watchdog` |
| Token counting | `router.rs` | line buffer and count of a stream | chunks | `TokenCounter` |
| Connections and shutdown | `api.rs`, `protocol_detect.rs`, `main.rs`, `noise/transport.rs` | accept loop, connections, drain flag, drain announcement | clients, signals, timeouts, gossip rounds | `Serving` |
| Startup and configuration | `main.rs`, `config.rs`, `noise/*.rs`, `node_state/model_index.rs` | configuration, key and token files, cookbook in use | starts, crashes, edits | `Startup` |
| Log files | `logging.rs` | daily files, compressed files, unfinished copies | starts, rotation, crashes, the clock | `LogFiles` |
| Metrics | `metrics.rs`, `node_state/mod.rs` | counts per argument hash, snapshot and temporary file | requests, persisters, starts, reloads | `MetricsStore` |
| HTTP API, prewarm | `api.rs` | none of its own | handlers | the rebuild handler in `BuildManager`, prewarms in `SpawnAdmission` and `Serving` |
| Health, errors | `health.rs`, `errors.rs` | none | — | not modelled |
| TLS, mDNS, mock server | `security.rs`, `discovery/`, `bin/` | certificates, addresses | libraries | not modelled |

### 1.2 How the parts interact

A connection is told apart, accepted and served (`Serving`). Its request enters the
router, which chooses a node for it (`Forwarding`, `PeerSelection`) from what gossip
says of the peers (`Gossip`) and what their circuits allow (`CircuitBreaker`), sends
it there or asks its own node for an instance (`get_instance_for_model`). The queue
(`RequestQueue`) orders requests of one profile; a request that may go on tries
admission (`SpawnAdmission`), which takes a slot of a running instance or plans a
spawn. A spawn reads the binary link and the cookbook, and either may be replaced
before it is inserted (`LiveUpdate`). The link is moved by the build manager
(`BuildManager`), whose swap signal is what `LiveUpdate` starts from. The response
streams from the instance to the client (`Watchdog`, `TokenCounter`) while the
watchdog looks for instances that hang. Retirements and released slots wake the
queues again. Around all this, a node starts from the files its last process left
(`Startup`, with `LogFiles` and `MetricsStore`) and ends with a drain (`Serving`).

### 1.3 Behaviours that are hard to test

They are listed one by one, at the line where each bites and with the properties
that would catch it, under `hazards` in `PROJECT.json`. The recurring kinds:

- a request future dropped at any `await`, with a token, a slot, a port, a
  reservation, a popped queue entry, a count or a deferred wake in its hands;
- a plan, a verdict or a choice made from a snapshot and carried out after other
  tasks have run;
- an instance that is being spawned and is not in the map yet, so that a swap or
  a reload misses it;
- one flag (`draining`) with several owners, and a cancellation decided while the
  flag was somebody else's;
- results and messages that arrive after the state they belong to has gone;
- a kill between any two steps of a build, of a log's repair, of a snapshot, or of
  the creation of a key;
- wakes: given to a waiter that has left, collapsed, deferred, lost, or sent just
  before somebody waits for them;
- bytes cut anywhere: the first ones of a connection, the last ones of a body, the
  middle of a line.

### 1.4 What has to be true

Every client gets one answer, and one that something that happened justifies; every
request ends for everyone who works on it. No live waiter is unreachable and every
waiter leaves the queue; tokens, slots, ports and memory have exactly one owner at
every moment; admissions respect the limits; an idle instance is evicted only when
it has to be and a busy one is not; a hung one is stopped and a slow one is not;
freed capacity is announced; no instance of an old build or with old arguments
keeps taking requests; the link resolves to a binary that runs unless that very build
is being made again; a drain is announced, is not undone by a late message, and waits for what was admitted; a peer
that is down is blocked and one that is back is used again; a restart loses nothing
that was kept.

## 2. The modules

A step of a model is what the code does between two points where another task
may run: two lock acquisitions, or two `await`s. Every operation a step makes is
part of it. Operators commented *Variant* just before a definition are wrong
versions of it, used to see that the properties notice (section 3.3).

### 2.1 `CircuitBreaker`

One peer's circuit, the routed requests and gossip sends that consult it, and the
peer. Times are kept as ages that saturate at the largest value the code compares
them with. `AdmitClosed`, `AdmitContended` (the `try_read` that fails), `DenyBlocked`,
`BeginClaim` and `FinishClaim` are `try_claim_dispatch_sync`, cut where
`try_claim_probe` has loaded `last_probe_ms` and has not yet exchanged it. `Buffered`,
`Streaming`, `Failed` and `Neutral` are what the callers do with an answer;
`RecordSuccess` and `RecordFailure` are the two functions of that name. `Forget` is
`reconcile_gossip_url_circuits`. `should_allow` and `reset` have no caller outside
tests.

### 2.2 `RequestQueue`

`get_instance_for_model` for one key served by one instance, as a program counter
per request; `notify_queue_by_key` as a small state machine per caller (a request
that wakes inline, a spawned wake task, the maintenance loop); the guards' `Drop`
as sets of scheduled clean-ups (`entry_drops`, `permit_drops`, `releases`). `Cancel`
drops a request's future wherever it stands, with everything it holds. The
deadline, shutdown (`BeginShutdownDrain`) and a reload that removes the profile
(`ReloadCookbook`, `FailRemoved`) are included. `Retain` is `VecDeque::retain`: the kept
entries in their order, each at its `Rank`, the number of kept positions up to its own.
This form, unlike a recursive one, can be reasoned about for queues of any length.

### 2.3 `SpawnAdmission`

`try_get_or_spawn_resolved` and its helpers: pruning of dead instances, joining,
the eviction plan and its commit against the registry's revision, the
reservation, the port lease, memory re-sampling, exec and its retries, the
re-checks at insertion, loading, and the recovery evictions of a failed cold
start; retirement batches that stop and reap processes and then wake the queues or
leave that to the request that evicted; crashes, startup timeouts, the idle sweep,
deferred lease drops and reloads of `max_instances`. VRAM and system memory are one
number, since the code treats them alike, and least-recently-used order is
arbitrary. `MemoryOf` counts the units of a set of instances, one pair of instance and
number for each, so that sums are sizes of sets.

### 2.4 `LiveUpdate`

The symlink and its generation, the watcher that drains instances after a swap,
a cookbook reload in its three steps (index, version, reconcile), a spawn with the
order in which it reads and re-checks both, the scheduler's competitor drains
(`DrainForCompetitor`; `ListDrain`, `CheckDrain`, `CancelDrain` for
`maybe_cancel_drains`) and the idle sweep.

### 2.5 `BuildManager`

Three tasks (initial build with retries, scheduled update with retries, the rebuild
endpoint) share `rebuild_lock`; one attempt fetches, reuses or compiles, verifies,
swaps the link, signals and cleans up. Disk state survives `Crash`, which kills
the node and its compiler. A build directory is two values, its intermediate
files (`objs`) and its binary (`bin`); what a killed compiler or a killed removal
leaves is a choice. A binary that is there and fails its verification is built again in
its own directory, the live one included: the build tool leaves it alone (`UpToDate`) or
begins to write over it (`BeginLink`) and ends (`EndLink`), fails or is killed. A linker
that fails is taken to remove its output, and one that is killed to leave it cut short.
`rewritten` remembers the live builds that this happened to. `older` keeps, for each directory, those that were there when it
was created, which is all that clean-up learns from creation times. Data the kernel had
not written back at a power loss is not modelled.

### 2.6 `Gossip`

One sender through several processes and one receiver. The network loses, delays,
repeats and reorders. The receiver's order check is that of
`process_gossip_message`; entries of several senders are independent, so one is
enough. Older versions that do not stamp their messages, restarts within a second
and a clock set back between processes are included.

### 2.7 `Forwarding`, `PeerSelection` and `ProxyService`

A *frame* is one invocation of `route_request` on one node; a forward opens another
frame on the peer, and the two are tied by `child` and `caller`. A frame goes through
arrival, body, preflight, choice, dispatch, the answer of its peer or the local
attempt, waits and retries, and its response; `Gone` is the disconnect that the awaits
poll for, `Abandoned` what hyper does to the frames of a closed connection. The guards
are `current` (`RequestGuard`) and `pending` (`PeerForwardGuard`). `armed` is the
subscription to `capacity_notify`, taken before the node looks for the drain.
`Report`, `SelectBest` and `FindPeer` choose a node with the operators of
`PeerSelection`: the filters, the load score, the cold-start and eviction costs and
the preference for a loaded model, as `calculate_node_score`,
`calculate_cold_start_cost`, `find_peer_for_model` and `select_best_node` compute them.
The circuit is reduced to whether it is closed, open, due for a probe or probing,
and gossip to what it last reported; drains, reloads, builds and lost forwards happen at
any time.

`ProxyService` is what a client may rely on, without frames: one answer to each
request, and an answer that a *fact* justifies. Facts only come true: a node drains, a
node did not know the model at some time, a deadline has passed, the entry node gave
up. A client sees a drain only of the node it entered, and a peer's saturation only
after its own node gave up.

### 2.8 `Watchdog` and `TokenCounter`

An instance, the requests on it and the watchdog, in time counted in samples. A request
joins, is sent, streams its response as fast as its client takes it, and gives its slot
back through `RequestGuard`, `AutoCleanup` or `CleanupStream`; `DownstreamWait` counts
the streams that wait for their client. The process works, hangs or crashes; what
it really did (`work`, `quiet`) is in the state so that the verdicts can be compared
with it. A round is a snapshot of the candidates, the readings (unreadable,
degraded or attributed to nobody), `EvaluateWedge`, the window, and the kill with its
re-check under the lock.

`TokenCounter` is the line buffer of `CleanupStream::poll_upstream` as a function of
the chunks. `ChunkingIsInvisible` says of a response that was streamed to its end that,
whatever its body of up to four chunks was, the buffer counted what the lines of the
whole body hold.

### 2.9 `Serving`

From the listening socket to the exit of the process: the accept loop with its
subscription and its check of the flag, detection on a growing prefix, the HTTP/1,
HTTP/2, TLS and Noise connections, the requests on them (counted before they look for
the drain), the streams of an HTTP/2 connection and its idle watchdog, the frames of a response over Noise and the peer
that reads them, the signal listener, the gossip round that announces the drain, and
main's own wait for idle, for the announcement and for the instances. A second
signal forces the exit.

Each request on HTTP/2 is a stream with a task of its own: hyper accepts it
(`Request`, `OpenStream`), its task touches and takes its guard only when it first runs
(`PollRequest`, `PollStream`), its body takes the guard over (`HandlerReturns`), and the
guard's drop uncounts it and then touches, in two steps (`Drop`, `Touch`), since streams
run on other threads than the watchdog. The watchdog looks at count and time (`H2cTick`)
and acts afterwards (`H2cAct`). Beside what it sees (`guards`, `idle`), `quiet` keeps for
how long really nobody has been served. Of the request that the rest of the module follows,
all steps are modelled; of the other streams, those that the watchdog can tell apart.

### 2.10 `Startup`, `LogFiles` and `MetricsStore`

A process starts on the files the last one left. `Startup` composes the two other
modules: it reads and checks configuration, secrets and cookbook, prepares the log
(`LogFiles`), loads the metrics (`MetricsStore`), creates or checks directory, key and
token, and then serves while entries are logged, metrics persisted and edits of
the cookbook picked up by the debouncing watcher. Every file operation is a step of
its own, and the process may crash between any two. `LogFiles` keeps entries, so that
none can be lost or repeated unnoticed; `MetricsStore` keeps the count of each
argument hash, in memory, in the snapshot and in the temporary file, and beside it what
each profile is `owed`. Its migration runs at a start and at every reload, for the
profiles that the cookbook names at that moment: an edit may add one whose old entry is
still there, or was taken by another profile before. An edit renames a new file into place
or writes the file in place, when a reader may find it cut short. The thread that watches
for edits starts some time after the node serves, or, when that fails, never.

### 2.11 Composition and abstraction

`Forwarding` implements `ProxyService` (`INSTANCE ProxyService WITH ...`: what clients,
nodes and facts are is shared, and frames, circuits, gossip and counts are hidden): its
safety part is `AnswersAreJustified`, checked by TLC and proved, its fairness the first
conjunct of `EveryRequestEnds`, checked by TLC. `Startup` composes `LogFiles` and
`MetricsStore`, `Watchdog` composes with `TokenCounter`, and `Forwarding` composes any
number of nodes, each with selection, circuits and a drain.

The other modules meet at narrow interfaces. What one shows is what another assumes:

- `RequestQueue` takes admission for granted on one instance; `SpawnAdmission`
  models admission and only records that a wake is owed (`TeardownCompletes`);
- `LiveUpdate` starts from a swap that `BuildManager` performs, in the same two
  steps (`SwapLink`, then the signal);
- `Gossip` says what an entry shows; `CircuitBreaker` whether it may be used;
  `Forwarding` takes any report and any state of the circuit;
- `Forwarding` asks its own node for an instance and gets one, an error or no answer,
  which is what `RequestQueue` and `SpawnAdmission` give;
- `Serving` counts a request where `Forwarding` counts it, and `Gossip` carries the
  announcement that `Serving` waits for.

## 3. Model checking

### 3.1 Runs

| Run | Module, config | Distinct states | What it checks |
|---|---|---|---|
| `circuit` | `MCCircuitBreaker`, `MCCircuit.cfg` | 787 K | `CountersMatchState`: counters of an earlier episode never survive a transition. `ProbePacing`: one probe per interval although two claimants race on the exchange. `CircuitFollowsPeer`: a peer that stays down is blocked, one that stays up recovers, the circuit of an unused URL is dropped |
| `queue` | `MCRequestQueue`, `MCQueue.cfg` | 544 K | `SleepersAreReachable`; `QueueIsConsistent`: tokens and slots have owners, the queue's limit holds, a drain empties it; `WaitersLeaveTheQueue`, `DrainEndsIdle` |
| `spawn_contention` | `MCSpawnAdmission`, `MCSpawnContention.cfg` | 685 K | `AdmissionsFit`: instance limits and memory; `EvictionIsNecessary` |
| `spawn_crash` | `MCSpawnAdmission`, `MCSpawnCrash.cfg` | 2.8 M | `ResourcesAreOwned`: ports, the memory of processes, slots; `UsedInstancesAreKept`: busy instances and running loads are not evicted |
| `spawn_wakes` | `MCSpawnAdmission`, `MCSpawnWakes.cfg` | 404 K | `TeardownCompletes`: freed capacity is announced, an abandoned spawn reclaimed |
| `update` | `MCLiveUpdate`, `MCUpdate.cfg` | 354 K | `NoStaleBuild`, `NoStaleArgs`, `UpdateDrainIsFinal`, `OldInstancesRetire` |
| `build` | `MCBuildManager`, `MCBuild.cfg` | 534 K | `LinkIsSound`: the link resolves to a binary that runs, unless a rebuild of that build wrote over it, and is the reported version; `RollbacksAreKept`, `HeadGoesLive` |
| `gossip` | `MCGossip`, `MCGossip.cfg` | 188 K | `ReceiverIsNotMisled`: a drain is not undone, older processes are ignored; `ReceiverCatchesUp`: a restarted node rejoins, a node that is down is left |
| `forwarding` | `MCForwarding`, `MCForwarding.cfg` | 350 K | `AnswersAreJustified`: routing implements `ProxyService`; `RequestsAreAccounted`: requests, forwards and errors are counted exactly; `NoSleepThroughDrain`; `DrainedPeerIsLeftAlone`; `EveryRequestEnds`: clients are answered, draining nodes are left, abandoned frames end |
| `watchdog` | `MCWatchdog`, `MCWatchdog.cfg` | 644 K | `KillsAreJustified`: only an instance that did no work for a window is condemned, and none that was joined since is stopped; `HungInstanceLosesItsRequests`; `SlotsAndWaitsAreCounted`; `ChunkingIsInvisible` |
| `serving` | `MCServing`, `MCServing.cfg` | 877 K | `ReadIsWhatWasSent`: protocols are told apart and a cut body is an error; `AdmittedRequestsAreAwaited`; `DrainIsAnnounced`; `StreamsAreNotCut`: a connection is closed as idle only after nobody was served for the idle time, and nobody is served when it is dropped; `SignalEndsTheProcess`; `SilentClientsAreDropped` |
| `startup` | `MCStartup`, `MCStartup.cfg` | 366 K | `StartedNodeIsFit`: settings, identity and cookbook of a started node are complete; `RestartsLoseNothing`: log entries are kept and not repeated, and every profile's metrics count exactly its history; `SnapshotsMoveForward`; `CookbookFollowsFile` |

The property of a run is often a conjunction; each conjunct is a definition of its own
with a comment that says what in the code it is about. Types are conjuncts of these
properties (`QueueIsConsistent`, `ResourcesAreOwned`, `LinkIsSound`,
`RequestsAreAccounted`, ...), except those of `LiveUpdate` and `CircuitBreaker`, which
are proved. Deadlock is checked in the runs where some task always has something left to
do. It is not in `gossip`, where a sender that is down for good is the end of the story,
in `forwarding`, where all clients are answered in the end, in `serving`, where the
process exits, and in `startup`, where the bound on outside events is used up.

### 3.2 Bounds, and why they are enough

- **Circuit**: thresholds of 2, so that a count below the threshold, at it and
  a reset are all different; a probe interval of 1 tick and a backoff that grows
  once before its cap. Two requests and a gossip sender are two racing claimants
  and a third result in flight. `url_keyed` chooses between a circuit that all three
  share and one that gossip alone uses. `consecutive_opens` is exact: the exponent's
  cap makes larger values alike. The proofs cover other values.
- **Queue**: one slot and three requests, one with a deadline, one whose client may
  leave and one that stays; the queue is limited to one entry, or requests and queue
  together to two. This is the smallest system in which a request runs, the queue is
  full of a live or a departed waiter, and another arrives. One wake task beside the
  inline wakes and maintenance gives concurrent wakers.
- **Spawns**: profiles costing 1 and 2 units of a memory of 2 or 3, so that a
  spawn fits, fits after one eviction, or needs two. Three spawners compete in
  `spawn_contention`; `spawn_crash` has two, two exec attempts, and every process
  free to crash; `spawn_wakes` adds other programs' memory and reloads of the
  limit. Instance ids and ports are symmetric where no liveness is checked; ids
  are reused once nothing refers to them.
- **Update**: two swaps and two reloads, so that one may fall inside the handling
  of the other. One spawn is enough for the rules as they are stated per instance;
  the proofs cover any number.
- **Build**: three commits, one of them broken, so that a clean-up has a surplus;
  two upstream moves, one kill, and one retry of the initial build. The scheduled update
  has none: it recurs. Upstream begins at a commit that can be built; the broken one is a
  move away.
- **Gossip**: two processes and two rounds each; the last number stands for all
  later rounds. One tick of freshness and one of staleness.
- **Forwarding**: two nodes, a client, a hop limit of one and three frames: a request,
  its forward, and a retry that begins while the abandoned forward still runs. One outside
  event (a drain, a reload, a build) at any step. The nodes are alike, so that
  selection ties and every choice is taken; the proofs cover any mesh.
- **Watchdog**: one instance with two slots and two requests, so that one may wait for
  its client while the other waits for the instance; a window of one sample beyond the
  first, one unreadable sample or crash. Token counter: a buffer of three bytes, eight
  chunks with and without newlines, up to four of them.
- **Serving**: one connection that may be reused, of any protocol, with every kind of
  request, on a node with everything or nothing configured; idle and grace times of one
  tick and one chunk of a body. `idle` counts whole ticks, so that one is enough for a
  stream to end within the idle time and outside it. One stream beside the request is
  enough for two guards, one dropped while the other is held. Connections meet only in the
  count of requests, and the proofs cover any number of them, of streams and of ticks.
- **Startup**: two days, two persisters, four cookbooks of which two are refused, three
  profiles that shared a hash in older versions and one that had its own (the cookbooks
  name different ones, and one profile may have newer metrics already, as after a
  downgrade), and nineteen configurations: five that differ in what they use and fourteen
  with a setting at its edge. The longest log
  hazard takes five outside events (crash, midnight, entry, end, clock set back), which
  is the bound.

### 3.3 Sensitivity

For every property of every run, `PROJECT.json` names variants of mapped definitions,
each a plausible slip in that code (a dropped guard, `<=` for `<`, a missing reset, a
plain store for a compare-and-swap), under which TLC finds the property violated. A
property that is a conjunction has such a variant for each conjunct.

### 3.4 Fairness

- `RequestQueue` and `SpawnAdmission` use weak fairness only: tokio polls what is
  woken, locks are granted in the end, responses end, killed processes exit, and
  the maintenance tick and the sweep come round. Arrivals, disconnects, deadlines,
  shutdown and reloads need not happen.
- `LiveUpdate`: the swap's signal, the watcher, a running reload, the end of
  requests and the sweep are weakly fair.
- `CircuitBreaker`: time passes and gossip rounds recur. Strong fairness is used
  where the code waits for a fair lock that others keep taking (`Record`, `Forget`)
  or for a probe slot that is free again and again (`BeginClaim`). Of requests only
  the end of a claim is assumed: it awaits nothing. `UpPeerRecovers` and
  `DownPeerIsBlocked` speak of peers that requests leave alone from some time on,
  since requests that keep claiming probes and are dropped can keep a circuit from
  settling.
- `BuildManager`: the scheduled update recurs; fetch, preparation, compiler, linker,
  verification and swap are strongly fair, which says that none of these commands fails for
  ever; and an attempt that has begun goes on or fails.
- `Gossip`: rounds recur and, of infinitely many messages of a live process, one
  arrives and is accepted, which leaves out a receiver configured to reject that
  process's version; no message is under way for ever.
- `Forwarding`: a frame that can go on does (weak), and the deadline of a request passes
  although the frame leaves and enters its waits (strong): `sleep_until` compares with
  a fixed instant. This is for a finite `max_wait_in_queue_ms`: with 0 (`config.rs:481`)
  a request has no deadline, and `EveryRequestEnds` claims nothing of one that waits then.
- `Watchdog`: the sampling task, teardown and clean-up tasks run; a request on a dead
  process sees its connection end. Nothing is assumed of clients or of a live process.
- `Serving`: main, the signal listener and connection tasks are polled, timers fire.
  Nothing is assumed of clients, nor of the gossip loop, for which shutdown waits a
  bounded time, nor that hyper ends a graceful shutdown (`H2cFinish`), since a client that
  does not read may keep it from that.
- `Startup`: only the cookbook watcher goes on.

## 4. Proofs

Eight modules hold theorems, one for each component that has any. Each proof is for any
values of the constants that the named assumptions allow; the bounds of section 3.2 play
no part.

| Module | Theorem | States |
|---|---|---|
| `LiveUpdateProofs` | `TypesAreKept` | `Spec => []TypeOK` |
| | `NoStaleBuildHolds` | `Spec => []NoStaleBuild` |
| | `NoStaleArgsHolds` | `Spec => []NoStaleArgs` |
| | `UpdateDrainIsFinalHolds` | `Spec => UpdateDrainIsFinal` |
| `CircuitBreakerProofs` | `TypeCorrect` | `Spec => []TypeOK` |
| | `CountersAgree` | `Spec => []CountersMatchState` |
| | `ProbesArePaced` | `Spec => []ProbePacing` |
| `ServingProofs` | `AdmittedAreAwaited` | `Spec => []AdmittedRequestsAreAwaited` |
| | `StreamsSurvive` | `Spec => StreamsAreNotCut` |
| | `AnnouncedDrain` | `Spec => []DrainIsAnnounced` |
| | `ReadIsSent` | `Spec => []ReadIsWhatWasSent` |
| `RequestQueueProofs` | `QueueConsistency` | `Spec => []QueueIsConsistent` |
| | `SleepersReachable` | `Spec => []SleepersAreReachable` |
| `SpawnAdmissionProofs` | `AdmissionsAlwaysFit` | `Spec => []AdmissionsFit` |
| | `ResourcesStayOwned` | `Spec => []ResourcesAreOwned` |
| | `EvictionsAreNecessary` | `Spec => EvictionIsNecessary` |
| | `UsedInstancesStay` | `Spec => UsedInstancesAreKept` |
| `BuildManagerProofs` | `LinkSoundness` | `Spec => []LinkIsSound` |
| | `RollbacksKept` | `Spec => RollbacksAreKept` |
| `GossipProofs` | `NotMisled` | `Spec => ReceiverIsNotMisled` |
| `ForwardingProofs` | `DrainReachesWaiters` | `Spec => []NoSleepThroughDrain` |
| | `DrainedPeersAreLeft` | `Spec => []DrainedPeerIsLeftAlone` |
| | `RoutingImplementsService` | `Spec => AnswersAreJustified`, that is, `Spec` implements the `Spec` of `ProxyService` |
| | `RequestsStayAccounted` | `Spec => []RequestsAreAccounted` |

**Live updates**, for any set of instances, any arguments and any number of swaps and
reloads, from `LiveUpdateAssumption` (the bounds are naturals and `NoProfile` is not an
argument). Neither safety property is inductive: both speak of instances in the map,
while what makes them true is what a spawn has read on its way there. The inductive
invariant `IInv` adds, beside the types:

- `GenerationsInOrder`: processed, read, signalled and linked generations follow
  each other, the link at most one ahead of its signal;
- `VersionsInOrder`: what a spawn has seen of the cookbook version never exceeds it,
  in the order the code reads it;
- `StartingUndrained`: nothing drains an instance that is not in the map;
- `BuildFollowsGeneration`: a spawn's build is at least the generation it read
  before resolving the link, which is why the code reads them in that order;
- `ArgsFollowVersion`: a spawn whose version check is still current has the
  arguments of the index, unless a reload is between its index and its version;
- `BuildsRetired` and `ArgsRetired`: a mapped instance that takes requests is not
  older than the last processed swap, or the running reload will reconcile it.

`UpdateDrainIsFinal` is an action property and follows from the types and
`StartingUndrained`, since an insertion overwrites the flags only of an instance that
nothing has drained yet.

**Circuit breaker**, for any number of senders and any thresholds and times
(`ThresholdAssumption`, `TimesAssumption`). `ProbePacing` compares two tickets; `PInv` ties
each of them to `last_probe_ms`, for which all contend: a ticket of this block window is
no younger than the stamp (`StampIsLatest`), and a claimant whose exchange would still
succeed has loaded a stamp that is an interval old (`FreshMeansFree`). That is the
compare-and-swap's part in the argument.

**Serving**, for any number of connections. `AdmittedRequestsAreAwaited` says nothing
before `is_idle` has answered; `SInv` says where a counted request can be, that a served
one is counted, and that whoever has left the accept loop did so in a draining node, so
that the preflight refuses what is counted later. `GInv` adds that a round which announces
the drain began in a draining node and says so in its snapshot. For `ReadIsWhatWasSent`,
`WInv` numbers the frames of a body over Noise: the reader stands at a frame the writer
has passed, a frame begins a message exactly when its number is odd, and the last one was
written if the reader took the body for whole. `StreamsAreNotCut` compares the
watchdog's clock with what really happened on the connection. `KInv` says that
whoever is being served holds a guard, through polls, hand-over to the body and
cancellation, and that a connection without guards, on which no drop is between its two
halves, has been idle in the watchdog's eyes no longer than nobody has been served on it:
the touch after the count is what makes this true.

**Request queue**, for any finite set of requests, any callers, slots and limits
(`RequestsAssumption`, `LimitsAssumption`). Neither property is inductive, since a sleeper
is reachable only if no wake loses its entry, and a wake loses none only if nobody else
has it. `IInv` adds:

- `OnePlace`: the entry of a request is in the queue once or in the hand of one wake, and
  in neither when its channel is answered, so that a dropped wake closes no channel that
  holds a permit;
- `Wakes`: a wake holds an entry between pop and answer, and gives one back only when its
  request has ended; a request wakes others only at its two wake awaits;
- `Channels`, `Drops` and `Gone`: channels belong to live receivers, a later removal of an
  entry to a request that has ended, and a retired instance serves nobody.

Counts of requests and slots are sizes of sets, from `FiniteSetTheorems`; the lemmas on
`Retain` say that it keeps exactly the entries asked for, and each once.

**Admission**, for any finite sets of spawners and ids, any profiles, ports and limits
(`SpawnersAssumption`, `LimitsAssumption`; other programs may use no memory at all,
`0 \in External`). A reservation, a process, a port or a slot is safe
because of where its owner stands, so `IInv` says where the id of a spawn can be:

- `Attempts`: a spawner names an id exactly while it spawns it or has a slot of it; an id
  being spawned is named by nobody else and is in no map and no retirement;
- `Committed`: reserved places and processes, the exited ones included, have a commitment;
- `Leases`: a port belongs to a mapped instance or to the attempt that leased it;
- `Slots`: the slots of an instance are counted until the last is returned, in the map or
  not, and nobody is served by an instance that loads;
- `Limited`: the commitments fit the memory, mapped and reserved places the limits;
- `Plans`: one spawner at a time has a plan; its victims stay idle and, as long as the
  registry's revision is the plan's, the spawn does not fit without them. That is what
  `with_revision` checks, and why `EvictionIsNecessary` and `UsedInstancesAreKept` hold.

**Builds**, for any commits, broken ones among them, any `keep_builds` and any number of
kills (`BuildAssumption`). `IInv` follows one attempt (`Attempting`): between verification
and rename nothing touches the binary it verified, between the rename and the record
the link is its target, and one that links over the live binary has marked it as
rewritten. So the only way to a link that does not run is the rebuild in place. `RollbacksAreKept` needs only that no directory is older than
itself.

**Gossip**, for any number of processes, rounds and start times (`GossipAssumption`). The
receiver compares a message with its entry, so `IInv` speaks of any two of those under
way or stored (`Consistent`): of one process, a ready state comes before a draining one
and has the smaller number; of two processes, the start times are in order unless a
clock was set back. `Sent` bounds each by what the sender has been through.

**Forwarding**, for any mesh, any number of requests and hops. `FInv` follows one
subscription through the routing loop: one that has not fired was taken before its node
drained, and every path into a wait holds one. For drained peers it adds that a request
is never its own peer and that selection excludes the peers it recorded. All proofs about
`Forwarding` are from `ForwardingAssumption`: bounds are naturals, names are apart, and
the invocations are finitely many, which only the counts need.

**Refinement**. `RoutingImplementsService` says that every step of `Forwarding` is a step of
`ProxyService` or one that no client sees. `RInv` follows an answer from the frame that
makes it to the client:

- `FactsOK`: the facts are about existing nodes and requests;
- `AllSound`: what holds of each frame on its own: a drain is reported by the
  draining node only, a frame that does not know the model runs on a node that lacked it,
  an expired request is overdue, and a finished frame's answer may leave it for its
  caller. The caller of a forward recognises a drain as that of its peer and tries
  elsewhere, and hands on a peer's saturation only when its own node has given up;
- `Tied`: the frame that a forward waits for runs on its target, has it as its caller,
  and has not been reused;
- `Awaited`: a frame that a client called and that has not answered yet has an open
  client.

The steps are grouped by what they do to the facts and the frames (`QuietStep`,
`RoutineStep`, `FactStep`, `HeadStep`, `ClientStep`), so that each action of the model
needs only the lemma of its group.

**Accounting**. `RequestsAreAccounted` compares counters with sizes of sets of frames.
`AInv` says that `current` and `pending` are these sizes, and what makes them so: every
frame that works has a node; one that has a forward has a peer as its target, and one that
serves the request itself has none, so that its end gives back no forward; no error is
counted before a frame ends. The proof has two halves. First every action is shown to be
one of a few kinds (`Recounted`): one frame begins, ends or keeps its request and its
forward, and all others are `Steady`, although the step may also abandon the frame of a
forward, consume its answer or notify all who wait. Only then are sizes compared, once for
each kind.

Only model-checked:

- liveness, since fairness and `ENABLED` are out of the prover's reach: `CircuitFollowsPeer`,
  `WaitersLeaveTheQueue`, `DrainEndsIdle`, `TeardownCompletes`, `OldInstancesRetire`,
  `HeadGoesLive`, `ReceiverCatchesUp`, `EveryRequestEnds` (with it the fair half of the
  refinement), `HungInstanceLosesItsRequests`, `SignalEndsTheProcess`,
  `SilentClientsAreDropped` and `CookbookFollowsFile`;
- `ChunkingIsInvisible`, which needs induction over the bytes of a body;
- the safety of `Watchdog` (`KillsAreJustified`, `SlotsAndWaitsAreCounted`) and of `Startup`
  (`StartedNodeIsFit`, `RestartsLoseNothing`, `SnapshotsMoveForward`), for which no proof has
  been written.

## 5. Where the code and its documentation differ

These were met while modelling. The modules contain the behaviour, the passing
properties are stated so as to hold with it, and no run is devoted to them.

- `node_state/mod.rs:3770` says that `notify_queue_by_key` pops waiters "until one
  successfully receives the notification". A request that wakes the queue inline and is
  dropped at the promotion's `await` (line 3824) takes the popped entry with it; the
  popped waiter, still waiting, gets a queue error. It leaves the queue, as
  `WaitersLeaveTheQueue` asks, though not with an instance.
- `build_manager.rs:456` says that `prepare_build_dir` removes a directory "if an earlier
  run of the proxy left it unfinished". Only the existence of the binary is tested; a
  binary cut short by a kill keeps the directory, and later builds of the commit run
  over it. `HeadGoesLive` excludes exactly that case.
- `SPEC.md:969` says a dequeued request's token "guarantees it will be served next".
  Between the pop and the token's promotion (`node_state/mod.rs:3807-3826`) a new
  arrival sees neither a queue nor a pending token and may take the slot.
- `SPEC.md:959` says "After enqueueing, recheck admission". The fairness path
  (`node_state/mod.rs:1834-1912`) does not, so a request can sleep beside a free slot
  until the maintenance tick.
- `node_state/mod.rs:2395` says the next request queued for a removed profile "then
  fails the same way instead of waiting for an unrelated event". One that enqueues
  after the last failing waiter passed its wake on waits for its deadline, and so
  does the next waiter when a wake is lost with a cancelled one: maintenance skips
  profiles that are gone. This is why `WaitersLeaveTheQueue` ends at `removed`.
- `node_state/mod.rs:2879` says of the re-checks at insertion that "they should never
  fire". After a reload raised `max_instances` between two admissions, the first,
  which carries the old limit, can find the map full.
- `circuit_breaker.rs:36` says tickets keep late responses "from recovering (or
  re-blocking) a peer". A ticket does not name its recovery attempt, so a probe that
  outlives one moves the next. Pacing and recovery hold nevertheless.
- `SPEC.md:1173` says initial retries stop "if a concurrent (e.g. manually triggered)
  rebuild succeeds". One that finds the binary already live does not bump the
  generation the loop watches.
- `SPEC.md:1159` says "build directories are immutable". A live binary that fails one
  verification is built again in its own directory, under the link
  (`build_manager.rs:393-398, 430`; the test at line 1978 expects it). While that goes on,
  and after a failure or a kill until the next attempt, the link may resolve to a
  binary that does not run: the exception in `LiveBuildWorks`.
- `SPEC.md:445` says "if several profiles shared an earlier hash, each gets a copy". A
  profile that is added to the cookbook after another one's migration finds the shared
  entry gone (`metrics.rs:488`): `Late`, the one history that `HistoryIsExact` gives up.
- `api.rs:737` says that streams are "counted from request arrival". A stream is counted
  when its task first runs; one that hyper has just accepted does not keep the watchdog
  from asking for a shutdown, nor from dropping the connection after the grace time.

Behaviour that contradicts no documentation, but that the properties had to allow for
and a reader may want to know:

- Shutdown waits for requests, not for the last bytes of their responses: a body whose
  handler has finished may still be in a connection's buffer at the exit. The HTTP/2
  watchdog does not wait for these either: the guard goes with the end of the body.
- A guard is uncounted before it touches: a look of the watchdog in between finds no
  stream and an old time, and asks for a graceful shutdown, which cuts nothing. This is
  the second case of `StreamsAreNotCut`.
- A Noise connection that is idle after its handshake is awaited without a limit, the
  exception in `SilentClientsAreDropped`.
- The watchdog's streak belongs to the instance and not to a request: a streak begun
  under one request may be completed under the next, if no sample saw work in between.
- An edit of the cookbook between the start's own read and the watcher's start is seen
  only with the next edit (`missed` in `CookbookFollowsFile`).
- A merge of log files that crashes before it removes the next day's file leaves it to a
  start after midnight, which appends to it; when the clock is then set back, a later
  start finds its first entry already merged and removes it with the entries of the next
  day (`mixed` in `EntriesAreKept`). A compressed log that cannot be restored for an
  I/O error is overwritten by the next rotation, as the warning says; file operations
  do not fail in the model.
- A crash between creating and protecting a key or token makes every later start refuse
  the file until an operator repairs it, which is what `IdentityIsWholeAndPrivate` needs.

## 6. Plan

Built: the modules above, their runs, the refinement of `ProxyService`, and the proofs of
section 4. Next, in this order:

1. Proofs of the remaining safety: `Watchdog` (`KillsAreJustified`) and `Startup`
   (`RestartsLoseNothing`).
2. Compositions: clean-up of builds beside a spawn that has resolved the link
   (`BuildManager` with `LiveUpdate`); the queue with a real admission.
3. Abstract specifications of a register of live builds and of a monitor of one peer,
   implemented by `BuildManager` and `Gossip`.
4. A mesh of unlike nodes in `Forwarding`, so that scores decide, and peer scores
   against a reference definition.
5. Legacy build directories and input stamps; the moves of a response's metrics between
   argument hashes after a reload (`served_hash_metrics`).

## 7. Not modelled, and why

- **Libraries and I/O**: the cryptography of the Noise handshake, TLS (`security.rs`),
  mDNS (`discovery/`), HTTP parsing, YAML and JSON; their outcomes are choices in the
  models. The readings of `memory_sampler.rs` are the work of a process in `Watchdog` and
  the memory of other programs in `SpawnAdmission`.
- **No state of their own**: health, error conversion, the handlers that render state,
  rewriting of requests and responses, authentication of a request. The mock server is a
  test double.
- **Contents of `known_peers`** and the decision to trust a key: they depend on the
  contents of messages and not on their order.
- **Within modelled parts**: several llama-server slots per request (`--parallel`);
  several build argument sets, legacy build directories, and the copy fallback where
  symlinks are missing; data the kernel had not written back at a power loss; the permits
  that bound concurrent gossip sends, which only delay them; retention of old log files;
  compression that is switched on or off between two starts; averages and the
  Prometheus text of the metrics; the moves of counts between argument hashes when a
  request outlives a reload (`router.rs:79-99`); what hyper has yet to write of a body
  that has ended.
- **Merged or narrowed**: a request that gives up after its third failed spawn
  (`MAX_LOCAL_SPAWN_FAILURES`, `node_state/mod.rs:1773`) leaves `SpawnAdmission` as one whose
  client goes away does, and profiles have no port of their own (`port_override`, line
  2996), which is tried once only. `Forwarding` wakes the waiting requests of a node when
  its instance becomes idle and when it drains; the code wakes them with every queue it
  looks at (`node_state/mod.rs:3748, 3802`), so that what ends in the model ends without
  those wakes. Nodes of a mesh accept each other's credentials: a peer answers no forward
  with 401 or 403, which `peer_status_is_failure` counts as failures too. In `Watchdog`, the
  guards that hand the clean-up of a request on to each other (`RequestGuard`,
  `AutoCleanup`, `CleanupStream`) are one, held until it is spawned.
