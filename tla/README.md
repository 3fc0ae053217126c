# A TLA+ verification of magma-sidecar

magma-sidecar runs beside a Monad node. It listens to the node's txpool over a
Unix socket, recognises the searcher bids among the transactions it is shown,
and sends them back with a priority, so that the node orders its blocks by what
a transaction is worth to the proposer. A backrun bid has to land right behind
the transaction it names, so the sidecar pairs bids with targets, whichever
comes first, and gives both priorities that sort next to each other.

This directory models that program: what it remembers, in which order it
handles what it is told, and the priorities it computes. TLC checks the models
on small instances, and TLAPS proves the properties that matter most for every
value of the constants. Paths below are relative to the root of the repository.

## 1. The system

### Components

| component | source | state | operations |
|---|---|---|---|
| pairing pool | `src/backrun.rs` | target cache with its FIFO queue; parked bids by target with theirs; hand-kept count of parked bids; targets already streamed | `prune`, `observe_at`, `forget`; inside them `insert_cache`, `push_pending`, `emit_opportunity_once` |
| dedup memory | `SentCache` in `src/txpool_ipc.rs` | hashes reinjected so far, FIFO queue | `insert` (with compaction and eviction), `remove`, `contains` |
| IPC loop | `run_txpool_priority_loop` in `src/txpool_ipc.rs` | connection, batch being handled, reinjections being sent; owns the two above | connect, `select!` between shutdown and the next batch, one handler per event, send, reconnect |
| priority policy | `src/policy.rs` | none | `compute_priority`, `encode_tob_priority`, `encode_opportunity_priority`, `encode_backrun_bid_priority`, decoding |
| metrics | `src/metrics.rs` | counters, gauges, connection state | one method per counter and gauge, called by the loop; `snapshot` for `/health` |
| HTTP routes | `src/routes.rs` | connections and requests under way | two handlers that read the metrics |
| process | `src/main.rs`, `src/config.rs` | how far `main` has come; watch channel for shutdown | read the configuration, refuse a network without gateway, bind, spawn the loop, serve, drain after Ctrl-C, join |
| systemd unit | `debian/sidecar/magma-sidecar.service` | whether the unit is active, due to start, enabled | start with the environment file, restart whatever the exit, start at boot |
| maintainer scripts | `prerm`, `postinst`, `postrm` in `debian/sidecar/` | installed files, environment file, what dpkg remembers | stop, seed the configuration, try-restart, purge |
| release pipeline | `scripts/`, `.github/` | the apt repository | build, sign, publish |

### How they interact

The node reports every transaction that enters its pool (`Insert`) and every
one that leaves it (`Commit`, `Drop`, `Evict`), in batches. For an `Insert` whose
hash is not in the dedup memory the loop calls `prune` and `observe` on the pool
and sends the reinjections one by one, each with an await; a hash is recorded in
the dedup memory after its send succeeded. A transaction that leaves is removed
from the dedup memory and forgotten by the pool. The node echoes reinjections as
`Insert`s. One task owns the pool and the dedup memory, so there are no data races
on them: what interleaves is the task with the node, the socket, the clock and
Ctrl-C, at its awaits. Pool and dedup memory live across reconnects, and end with the
process.

`main` spawns the loop once the listener is bound. Ctrl-C makes the HTTP server
drain and tells the loop to stop through the watch channel; `main` waits for the
one, then for the other, and returns. SIGTERM, which is what systemd sends, has no
handler. systemd restarts the process whatever the exit. dpkg stops it before it
replaces the files and asks for a try-restart afterwards; the operator may enable,
disable, restart or configure the service between any two of these steps.

### What is hard

* Both FIFO queues hold stale and duplicate names, because removal from the maps
  leaves them alone. Capacity and TTL are enforced through these queues.
* A bid and its target arrive in either order, and expire, are evicted, leave or
  come back in between; the clock is read twice within one handler.
* A send may fail in the middle of a list, after the pool has been changed.
* The connection may break, and the node may restart with an empty pool, while the
  sidecar keeps what it remembers.
* Echoes arrive interleaved with everything else.
* Ctrl-C may arrive at an await that does not look at it.
* A dozen counters are bumped one by one on every path through the loop.
* Priorities are bit fields; a scalar may not fit its field.
* An interrupt means something else before, while and after the server is polled.
* Upgrade, removal, reboot and the operator's commands interleave.

`PROJECT.json` lists these hazards line by line with the properties that cover
them.

## 2. Modules

| module | models |
|---|---|
| `OrderQueues` | the queue operations both memories share |
| `PendingPoolOps` | the pool as a record, every method as an operator on it |
| `PendingPool` | the pool driven alone: `Insert` (prune, then observe), `Forget`, `Tick` |
| `BackrunPairing` | abstract: what pairing promises, without queues, ages and counts |
| `SentCacheOps`, `SentCache` | the dedup memory, and the memory driven alone |
| `DedupWindow` | abstract: a bounded window of hashes, with the order in which they were recorded, and those that an erasure left a place of behind |
| `MetricsOps` | the metrics as a record, every method of the loop's as an operator on it |
| `IpcLoop` | the loop, composed of `PendingPoolOps`, `SentCacheOps` and `MetricsOps`, with node, socket, clock, Ctrl-C and the death of the process |
| `StoppableTask` | abstract: a task that runs until told to stop, and then stops |
| `MainProcess` | `main` with the configuration, the HTTP server and its clients; the loop as `StoppableTask` |
| `Service` | the process under systemd, the maintainer scripts and the operator |
| `Priority` | the scalar and the three encodings, over a word of any width |
| `MC*` | instances for TLC |
| `OrderQueuesProofs`, `PendingPoolOpsProofs`, `MetricsOpsProofs` | lemmas about the operators the specifications are built from |
| `PendingPoolProofs`, `SentCacheProofs`, `IpcLoopProofs`, `PriorityProofs`, `ServiceProofs` | the theorems about the specifications |

Operators whose comment says *faulty variant* are no part of the model. Each is
the definition below it with a plausible mistake; put in its place, it makes one of
the properties fail, which shows that the property depends on that piece of code.

### Correspondence

**Data.** A transaction is its hash. What the code decodes from the bytes, whether it
is for the gateway, whether a call decodes and which target that names, is a
function of the hash, given by the constants `Vanilla`, `Tob`, `Backrun`, `Invalid` and
`Target`. The target of a bid may be a transaction of any kind. The pool's stored
scalars decide only the priority number, which is `Priority`'s business; the pool
model keeps the class of a reinjection (`tob`, `fallback`, `opportunity`, `bid`) and
its group. The code reads the clock only to compare an age with the TTL, so entries
carry ages that stop at `TTL`.

**`PendingPoolOps`.** The `while` loops over the queues become "pop the first n
entries", with n the first position at which the loop stops. `PopCache` and
`PopPending` remove what these entries name. An entry of `pending_order` removes the
first copy of its bid that is left, so the k-th of several equal entries takes the
k-th copy (`Named`). What `prune` and `push_pending` return, `Expired` and `Evicted`,
is the number of popped entries that find a copy (`Hits`), as the loops count it; it
is not computed from `pending_count` or from the vectors. A missing vector is an
empty one: the code removes vectors that become empty, everywhere.

**`PendingPool.Insert`** is the `Insert` arm of the loop without the dedup test: `prune`
and `observe`, each with its own reading of the clock, between which a tick may
fall. `Forget` is the arm for the other events.

**`IpcLoop`.** The task is cut at its awaits and between the events of a batch;
everything between two cuts is one action. `pc` names the await. Reconnecting keeps
`pool` and `sent`, the snapshot is ignored, and `ipcState` is set where the code sets it.
`noticed` is whether the receiver has seen the watch channel change: `changed()` is
ready only before that, which matters because `sleep_or_shutdown` consumes a change
that only the test at the head of the loop then acts on. The node is external: it
starts and stops, receives, removes and accepts transactions, and reports them on
the open connection; a break loses reinjections in flight and all reports but a
prefix.

`Killed` is the end of the process at any await and the start of the next one: all the
sidecar kept is gone, the node and its pool go on. `metrics` is written where the
code writes it. Four history variables are there for the properties only:

* `reinjected`: the hashes sent to the node whose departure it has not reported since.
  The dedup memory is a subset of them, because it evicts.
* `abandoned`: of the others, those that a failed send left unsent.
* `tally`: what the program does not count, each counted where it happens: `Insert`s
  that were answered, backrun bids observed, bids forgotten (the vectors and copies
  `forget` takes out, `ForgottenBids`), hashes removed from the dedup memory,
  connections ended other than by a failed send.
* `survived`: the bids that were parked twice and stayed parked when they left
  (`ForgottenEverywhere`). `NothingOutlivesItsTx` and `SkippedAreEchoes` except them:
  such a bid is reinjected when its target appears, and if the node refuses it then,
  its return is taken for the echo.

A connect may succeed only with the node up, and may fail with the node up or down. A
connect that hangs is no step: the task stays in `connect`, which fairness excludes in
the liveness run and nothing excludes in the others.

**`DedupWindow`.** A hash recorded in a full window pushes one out: the one recorded first
(`older`), or one that was erased before and left its place in the queue behind
(`leftover`). The second case is the code's, and the hash pushed out may be the very one
recorded: `sent_oldest` shows it.

**`MetricsOps`.** A counter wraps at `CounterSpan`, 2^64 in the code. Commit, drop and
evict events share one counter. An instance that is not about counters sets
`CounterSpan` to 1, so that they do not multiply its states.

**`MainProcess`.** `phase` is how far `main` has come; the header of the module lists
its values. The handler of Ctrl-C is a future that is first
polled inside `axum::serve`, so there is a moment when the loop runs and Ctrl-C still
kills the process (`InterruptEarly`). `axum::serve` of the version in use does not
return an error, so there is no such exit. A draining server closes idle connections
and waits for the others, without a timeout.

**`Service`.** The steps of dpkg are named by `job`, the one that comes next: after
`Prerm` the files are replaced (`unpack`) or deleted (`delete`), then `postinst` seeds
the configuration (`configure`) and asks for a restart (`restart`). An aborted unpack
goes back. A reboot stops everything, and dpkg takes its work up again: an
interrupted configuration from its start, anything else from `prerm`. A release knows
the gateways of some networks (`Baked`). Assumed: systemd runs and
`deb-systemd-invoke` does what it is asked; the operator uses `enable --now` and
`disable --now`, and does not start the service while removing it.

**`Priority`.** The 256-bit word is three fields of widths `IdSpan` and
`PayloadSpan` under two marker bits. Masking, shifting and saturating are modelled by
what they compute on numbers. `fee * gas` and the sum saturate at the word. A
transaction has an address it goes to and calldata, which decodes to a bid or does
not; the role (`observe_at`) and the worth (`compute_priority`) are each taken from
them as the code takes them.

## 3. What TLC checks

| run | question | states |
|---|---|---|
| `pool` | count, capacity, coverage of entries by their queues, marks, no missed pair, independence of arrival order, bids behind targets, one opportunity per target, no bid lost silently, the counts each call returns, refinement of `BackrunPairing` | 109 thousand |
| `sent_cache` | capacity, queue coverage, bounded variety of the queue, refinement of `DedupWindow` | 1.2 thousand |
| `ipc_loop` | the loop with node and socket: metrics, nothing outlives its transaction, only echoes skipped | 1.4 million |
| `ipc_live` | the loop is a `StoppableTask`, reconnects, reinjections settle, lead-block bids are reinjected | 34 thousand |
| `accounts` | a dedup memory that evicts: the counters add up over every path, restarts included; the gauges are never too low; bids behind targets on the wire | 2.0 million |
| `service` | no stale binary after dpkg, no start of a disabled service, what is installed is configured, the service comes back | 4.2 thousand |
| `priority` | order of any two reinjections | 48 thousand |

The `pool` invariants say that the bookkeeping is right; the action properties say
what a step may never do: `BidsLeaveForAReason` asks a reason for every bid that stops
being parked, `BidsFollowTarget` relates the list of one step with the marks before it.
`OpportunityOnce` has two halves: a target is offered when it has no mark and has one
from then on, and a mark stays as long as its cache entry does. The one exception is a
target reported again after it has outlived the TTL: `prune` drops it and `observe`
caches it anew, in the same call. `BidsAccounted` compares what the loops of the code
count hit by hit with what the vectors lost. `ImplementsPairing` shows that queues, ages
and counters implement the simple pairing of `BackrunPairing`.

`MetricsAddUp` has four equations, modulo the width of a counter, between counters that
are bumped where the code bumps them and the state they speak of. Every `Insert` that
is no echo was skipped, parked or answered. Every backrun bid observed is in a vector of
the pool, or was paired with its target (`pairs_matched`, at once or by a flush), expired,
was evicted or forgotten. Every hash sent is remembered, or was evicted or removed.
Every connection has ended, but the present one. A bid that is lost without being counted
breaks the second equation, a count without a bid as well.

`BidBehindTarget` asks that the target was sent and has not been reported gone since, or
was given up by a failed send, which the code makes no promise about. That the dedup
memory may have evicted the target meanwhile makes no difference, and the run has room for
one hash only.

`ImplementsStoppable` and `MainProcess` divide the shutdown between them: the loop
implements `StoppableTask`, with its liveness, and the process is checked with any
task of that kind in place of the loop.

### Claims of the repository that the code does not keep

Five runs end in a violation, each of a claim a comment, a document or a test makes:

| run | claim | what happens |
|---|---|---|
| `sent_order` | `src/txpool_ipc.rs:68-70`, asserted at 299: the dedup queue stays within twice its capacity | inserting and removing one hash in alternation adds an entry each time; compaction keeps all of them |
| `sent_oldest` | `src/txpool_ipc.rs:62`, `src/metrics.rs:138`: what `insert` evicts are the oldest entries | a hash that was removed and comes back has an old entry at the front of the queue, and its own insert evicts it; its echo is then not recognised |
| `pool_forgotten` | `src/backrun.rs:270-272`: `forget` removes a transaction wherever it appears | a bid reported twice is parked twice, and one copy stays |
| `ipc_only_echoes` | `src/txpool_ipc.rs:163`: what is ignored is an echo | after a lost connection a transaction that enters the pool anew is ignored, too |
| `service_upgrade` | `docs/RELEASING.md:181-182`: an upgrade stops the unit and restarts it | `try-restart` does nothing to a unit that `prerm` has stopped; the service stays down |

Further observations made while modelling have no run of their own:

* A parked bid whose target is itself a gateway transaction is not flushed when that
  target appears (`docs/ARCHITECTURE.md:106`); it waits until it expires.
* The scalar is masked to the low field, not clamped as `src/policy.rs:279` says.
* The comment at `src/backrun.rs:233` ("the rest are newer") does not hold:
  re-observing a hash refreshes its time and not its place.
* The two queues of the pool are not bounded by its capacities while their front is
  kept fresh.
* The gauges `backrun_pending` and `backrun_cache` are set only after an `Insert` and
  are too high after a departure, until the next one (`GaugesNeverUnderstate`).
* Draining has no timeout: a client that never completes its request holds the
  process, and with it the restart, for as long as it likes.

### Bounds

* Pool: capacities of two and queues of four, so that the queue is longer than the map
  and holds stale and duplicate entries, and eviction and pruning meet them; a TTL of
  one tick, so that an entry is fresh or expired. `QueueBound` stops `Insert`s at a
  full queue: it is a bound of the model, the code has none.
* Pool: two bids for one target and a bid on one of them, so that a target may be
  vanilla or a bid, and bids compete for a place. Lead-block bids and invalid calls,
  which touch the cache only, are in `ipc_live` and `accounts`.
* Dedup memory: capacity two, five hashes, queue of seven, which is beyond the
  threshold of compaction. `OrderBound` is a bound of the model.
* Loop: a target and its bid; two events in flight, one reinjection in the socket;
  five arrivals, three departures and one break in the safety run. So a bid can be
  reported twice, be parked twice, leave, be reinjected after it left, and come
  back, with a break or a restart of either side anywhere. The liveness run has a
  lead-block bid as well, and two arrivals, one departure and one break. The dedup
  memory has room for all hashes in these two: `NothingOutlivesItsTx` and
  `SkippedAreEchoes` do not need it (their theorems have no such premise),
  `ReinjectionsSettle` does, see below.
* `accounts`: two bids on one target, an invalid call, room for one parked bid and one
  remembered hash, so that bids are evicted, expire and are flushed, and the dedup
  memory evicts, a target before its bids go out among others; counters of three
  values, so that they wrap; three arrivals, one departure and one break or death of
  the process.
* Service: two clients, two releases of which the old one does not know one network,
  two configurations besides the example. There is no bound on the steps: the state
  space is finite.
* Priority: a word of six bits with fields of four values, inputs at the edges of
  the fields and of the base fee floor. The proofs do away with this bound.

Symmetry is used where hashes are only compared (`sent_cache`).

### Fairness

`FairSpec` of `IpcLoop` assumes that

* the runtime keeps polling the task when it can go on (weak fairness of `Task`):
  the sidecar's runtime is multi-threaded and nothing blocks in its tasks;
* a node that is up does not refuse every connect (strong fairness of `ConnectOk`), and
  answers it: the code has no timeout there either;
* a ready branch of `select!` is not passed over for ever (strong fairness of
  `SeeShutdown`): tokio's `select!` starts at a random branch;
* the node reads what it is sent (weak fairness of `NodeAccepts`). Without it `send`
  waits for ever, and so does a shutdown: the code has no timeout there.

Nothing is assumed of the clock, of Ctrl-C, or of arrivals and departures.

`FairSpec` of `Service` assumes that

* systemd starts what is due to start (weak fairness of `Exec`): `Restart=always` with
  `RestartSec=2` stays below systemd's limit of five starts in ten seconds;
* the process goes on, and is not killed at the same point of its start every time,
  nor finds its port taken every time (strong fairness of `Bind`, `Spawn`, `Serve`);
* requests are completed and answers taken (weak fairness of `Answer`): without it
  a draining server waits for ever, as said above;
* the loop stops when told, which is `ImplementsStoppable`.

Nothing is assumed of the operator, of dpkg, or of reboots.

`Reconnects` is conditional on the node being up for good; `TobIsReinjected` excepts
bids that leave, lost connections and a shutdown. `ReinjectionsSettle` needs a dedup
memory that holds every transaction in flight: when it is smaller, the echo of an
evicted hash is reinjected, which evicts another. The program relies on its 16384
entries here.

## 4. What is proved

All theorems are for every value of the constants that meets the named
assumptions: the kinds of transaction are disjoint and finite in number, targets are
hashes, capacities, TTL and spans are natural numbers, spans positive. Of the pool one
more thing is assumed, that a bid does not name itself (`NoSelfTarget`): the hash of
a transaction covers its calldata, and the calldata of a bid holds the hash it names.

**`SentCacheProofs`.** The inductive invariant is the conjunction of type, capacity,
coverage of the keys by the queue, and bounded variety of the queue. They need each
other: eviction makes room because it finds a key in the queue, and the queue has
few different hashes because compaction leaves only keys. On top of it,
`Implementation` maps every step to a step of `DedupWindow`, with the order of the last
entries of the queue as `older`. The entry that eviction stops at is the first that
names a key. If it is the last of that key, the key was recorded first; if it is not,
the queue names the key twice, and it is left over. Compaction and eviction keep the
order of the entries they leave, so they change neither.

**`PendingPoolProofs`.** The invariant `IInv` has the types, the count as the number of
parked slots, the marks on cached targets only, every cached hash named by
`cache_order`, the cache within its capacity, and no bid parked for a cached vanilla
transaction. None of the last four is inductive alone. While a call is under way
the last one has an exception: `insert_cache` puts the transaction in the cache before
its bids are flushed. `NewcomerStays` shows that eviction never takes the
transaction just observed, although the queue may name it at an older place:
`prune` has just been called, so the front of the queue is live, and one eviction
takes the front. `BidsBehindTargets` follows each list an `observe` builds: a bid is
put into it behind the opportunity of its target, unless the target has its mark
already.

The second invariant, `Backed`, says that `pending_order` names a bid under a target at
least as often as it is parked there (`Queued`), and that the parked bids fit. The queue
may name more: flushing, forgetting and taking bids leave their entries behind. An
entry names a copy by rank, the k-th of several equal entries the k-th copy, so when
n entries are popped the copies left can be mapped one to one into the entries left
(`PoppingKeepsQueued`). Since every copy is named (`CopyIsNamed`), an eviction over
capacity takes at least one, hence `CapacityKept` and `QueuesCover`.

`Implementation`, the refinement of `BackrunPairing`, adds a third invariant,
`Placed`: a bid is parked under its own target only. The core of the proof is that a
bid parked by an `observe` is still waiting when the call returns. After `prune` the
front of `pending_order` names a parked bid (`PrunedHead`); `push_pending` removes
from the front, over capacity by one, and so takes an older copy, never the bid just
parked, although the queue may hold stale entries for it (`PushingMaps`). The steps
map one to one: an `Insert` is a `Receive` of a target, a vanilla transaction or a
bid, a `Forget` a `Leave`, a tick a `Rest`.

Four more theorems follow from the conjunction of these invariants, `MInv`:

* `BidsLeaveWithReason`: `prune` takes a bid only when one of its copies has reached the
  TTL, and counts it (`PrunedLosesOld`); `push_pending` takes one only at capacity
  (`PushingLosesAtCapacity`); the others an `observe` unparks are in its answer.
* `OfferedOnce`: an answer holds at most one opportunity, at its front, for a target that
  has no mark at that moment and has one from then on (`Offers`). It had none before
  the call either. A target that a bid pairs with has been cached all along, so `prune`
  has not taken its mark; here a bid that named itself would be different. A
  target that releases parked bids was not cached, since no pair is ever missed, and
  what is not cached has no mark. For the other half, that a mark stays with its entry,
  `prune` and eviction take a mark only with the cache entry, and what `prune` has
  taken is cached again by the same call only if it is the transaction observed.
* `BidsBalance`: the positions that `PopPending` removes are as many as the entries
  that find a copy, since different entries find different copies (`HitsExact`). So the
  counts that `prune` and `push_pending` return are what the vectors lost, and what a
  flush takes is what `matched` counts.
* `OrderIrrelevant`: both orders of a bid and its target yield the one outcome `Paired`.
  Bid first, `push_pending` has room and so takes nothing, and the target releases it
  with the others. Target first, it must still be cached when the bid comes, although
  the bid takes a place of its own in the cache. With room for both it is. Without, it
  is if `cache_order` has no older entry for it: then its one entry is at the back,
  and a cache at capacity holds a third hash, which is in front of it and goes first
  (`NewcomerAtBack`, `BackStays`). An older entry would let the eviction take it: this
  is why the property has that premise.

The lemmas about single operators are in **`PendingPoolOpsProofs`**, so that they serve
the pool driven alone and the pool inside the loop: `Keeps` is the invariant of a
pool, and each of `prune`, `observe`, `forget` and a tick keeps it.

**`IpcLoopProofs`.** The invariant of the loop is its types, `Keeps` of the pool, and what
the metrics tell. The other theorems rest on it:

* `GaugesBound`: the gauges are exact after an `Insert`, and until the next one the pool
  only loses entries.
* `BidsBehindTargets`: every target the pool has marked has been sent, was given up
  by a failed send, or is still to be sent, and then before its bids
  (`TargetsAhead`). A departure takes the hash out of what has been sent, and the mark
  with it. What the loop skips because it is in the dedup memory has been sent; what
  the dedup memory evicts has been sent all the same, so its capacity does not matter.
* `CountersAddUp`: each of the four equations of `MetricsAddUp` is kept by every step.
  Both sides grow by the same amount up to laps of the counters (`Gains`, `Cong`);
  the arithmetic of wrapping is in **`MetricsOpsProofs`**. For `inserts` it needs that
  `observe` skips, parks or answers a transaction, exactly one of the three
  (`ObservedAccounted`). For bids it needs that the counts of `prune` and `push_pending`
  are what the vectors lost (`HitsExact`), and that `forget` takes out what
  `ForgottenBids` says (`ForgottenExact`): all that wait for the hash and one copy
  of the hash itself. The invariant therefore includes `Sorted`: a bid is
  parked under its own target only, and `pending_order` names every parked copy. For hashes it needs that the entries `insert` counts
  are the keys it removes.
* `NothingOutlives` and `SkippedOnlyEchoes`: neither is inductive, since both speak of one
  end of the connection. The invariant `Following` is about what lies between: on an
  unbroken connection the stream of events, the batch under way and behind it what
  is in flight, leads from the hashes the sidecar holds to the node's pool
  (`Tracks`). A hash that is held, or whose `Insert` is on the way, is in the node's
  pool, or its departure is further back; and the `Insert` of a transaction that is
  new has a departure in front of it for every earlier life of the hash. Handling an
  event takes the head off the stream (`TailTracked`), the node adds one at the end
  (`AppendTracked`). An `Insert` adds its own hash to what is held and nothing else,
  for which the pool's `Placed` and `Backed` are needed; a departure takes its hash out
  of the dedup memory, the cache and, unless it was parked twice, the parked bids.
* `StopsOnlyWhenTold`: the steps of the loop are steps of `StoppableTask`, which may stop
  only when told. This is `ImplementsStoppable` without its liveness.

**`PriorityProofs`.** A priority of a group is its key times twice the span of the low
field, plus a rest below that; numbers in that base compare by their key first.
From this follow the order properties for every field width, the 2^128, 2^126
and 2^130 of the code among them, and for every set of transactions.

**`ServiceProofs`.** The invariant ties process, unit and dpkg together: a process exists
only in an active unit; nothing runs, nor is due to, without files or when they are
about to go; between its runs dpkg has configured what is installed; and the release
of the process is that of the files unless dpkg is between their replacement and the
restart. The last needs the others: an aborted upgrade goes back to rest without a
restart, and a first installation ends without one. `ConfigurationThere` needs that the
environment file goes only with a purge, which finds nothing installed, and that
every way to an installed release at rest is by way of `Seed`, or back to a release
that was configured before. It holds for any clients, releases, networks and
configurations.

**`OrderQueuesProofs`.** `Without` keeps the order and loses nothing but what it is told
to; the rank of the kept positions is a bijection.

### Only model-checked

Liveness under fairness, which the prover does not handle: `Reconnects`,
`ReinjectionsSettle`, `TobIsReinjected`, `ComesBack`, and of `ImplementsStoppable` that the
task stops once told. Every safety property of a passing run is a theorem.

## 5. Not modelled

* The bytes of calldata, RLP and bincode framing: external libraries; what decoding
  yields is in `Priority`, and a constant of the pool and the loop.
* The counter of HTTP requests, time stamps and the Prometheus rendering: nothing in
  the program reads them back. A `/health` snapshot taken between two writes of the
  loop may show fields of different moments; nothing relates them.
* Hardening and resource limits of the unit, and `monad-ipc-setup`, which sets ACLs for
  the node's socket: declarations to the kernel, no behaviour of this program.
* `link-txpool-socket.sh`, `Makefile`, `Dockerfile`: tools for developers.
* Building the package, and the release pipeline: one step after the other, with their
  state in external services. The one rule about concurrency is the expected head of
  the commit in `scripts/publish-apt.sh`.

## 6. Plan

In the order of importance:

1. *(done)* pool, dedup memory, loop, priorities, with their theorems.
2. *(done)* metrics and their accounting; process lifecycle, systemd and maintainer
   scripts; theorems about the loop, its counters and the service.
3. *(done)* `SkippedAreEchoes` and `NothingOutlivesItsTx`, from an invariant that relates
   every hash in flight to the node's pool; the remaining safety properties of the pool;
   the safety half of the refinement of `StoppableTask`.
4. Proofs: the loop's pool as a `BackrunPairing`, and its dedup memory as a `DedupWindow`,
   inside the loop and across restarts; the steps of `Service` that touch the unit, as
   a specification of what systemd promises.
5. *(done)* counts taken where the code takes them, with the balance against the vectors
   proved; marks that persist; the oldest entry as the abstract window's victim.
6. Publication: two releases that race for the same package repository.
