# A TLA+ model of the OpenLDAP Prometheus exporter

The exporter polls an OpenLDAP server in the background, keeps the values in
Prometheus series and serves them on `/metrics`. What can go wrong in it is
concurrent: goroutines share one connection pool and one circuit breaker, whose
results arrive late; collection cycles overlap the stragglers of earlier ones;
cursors, counters and token buckets are read under one lock and used under
another; and all of it is closed while it is in use. This directory models these
parts step by step, checks them with TLC, and proves with TLAPS every invariant
and every refinement that TLC checks, for any number of goroutines, connections,
cycles and keys.

Source paths below are relative to `src/`.

## 1. Inventory

| Component | State it keeps | Operations | Interacts with |
|---|---|---|---|
| Connection pool, `pkg/pool/pool*.go` | channel of idle connections, `activeConns`, `poolSize`, `closed`, the `broken` flag of each connection | `Get`, `Put`, `Discard`, maintenance tick, `Close`, `updateMetrics` | clients through shared memory; the LDAP server |
| Circuit breaker, `pkg/circuitbreaker` | state, failures, successes, last failure time, probes in flight | `Call` (admission, result), `Reset`, `ForceOpen`, callbacks | the client calls through it; callbacks write a gauge |
| Pooled client, `pkg/pool/pooled_client.go` | base context, a pool, a breaker | six searches, `PeerCertificates`, `Close` | collectors call it; `runSearch` borrows from the pool inside `Call` |
| Collection cycle, `pkg/exporter/exporter.go` | `collecting`, `stopped`, `up` gauge, task semaphore | `collectLoop`, `collectOnce`, `runCollection`, `Close` | starts up to 18 tasks, 4 at a time, over the client |
| Counter tracking, `pkg/exporter/counter_management.go` | last value, time and lock of each counter | update with a delta, cleanup of old entries | collectors of several cycles |
| Accesslog statistics, `pkg/exporter/accesslog_tracker.go` | known label sets with their last use | `Inc`, `Sweep` | accesslog collector, sweep goroutine |
| Accesslog cursor, `pkg/accesslog` | the highest `reqStart` seen | `Filter`, `ShouldEmit` | accesslog collector, events stream |
| Events stream, `pkg/events` | a cursor per stream, output file | tick, scan of three streams, emit, rotate | a client of its own |
| Rate limiter, `pkg/security/ratelimit.go` | a token bucket per address | `Allow`, cleanup, `Stop` | HTTP middleware |
| Replication poller, `pkg/replication` | a client and CSNs per peer | poll, compute lag | one client per peer |
| Pure code: `pkg/csn`, `exporter/helpers.go`, `config` | none | parsing, backoff, classification | everywhere |
| Lifecycle, `cmd/main.go` | none of its own | start, health, shutdown order | all of the above |

What is hard in them:

* **Pool.** A budget reserved with compare-and-swap before a dial that can
  fail; a channel whose length is mirrored in a counter changed later; a
  maintenance tick that takes connections out, keeps them aside and puts them
  back while clients dial; `Close` during all of it; `Discard` followed by
  `Put`. Correct means: never more than `maxConnections` sockets, each with one
  owner, no slot of the budget lost on any path, no dead connection handed out,
  waiters and `Close` come back.
* **Breaker.** The protected function runs outside the mutex, so a result is
  recorded in another state than the call was admitted in. Correct means: the
  failure limit and the probe limit hold, no slot leaks, a refusal ends, a
  recovered server is used again, the gauge shows the state.
* **Client.** A network error discards the connection and replays the search
  once; every exit must have dealt with its connection and reported to the
  breaker.
* **Cycle and collectors.** A cycle returns at its deadline while its tasks run
  on beside the next cycle; they search under whatever base context is installed
  and write the same vectors. Correct means: `up` is honest, a search carries the
  context of the cycle it was issued in, a rebuilt vector shows what the server
  has, a cycle and the loop end although a task never does.
* **Counters.** Values reach an entry out of order, an update of a busy entry is
  skipped, old entries are forgotten, the server restarts. Correct means:
  exported counters grow by what the server counted.
* **Accesslog and events.** Entries must be handed on once although the filter
  is inclusive, scans overlap, searches fail, and entries appear in another
  order than their `reqStart`. The number of series stays bounded.
* **Rate limiter.** Creation races, the two passes of the cleanup and forged
  headers must not gain a client anything; fractions of a token must not be lost.
* **Poller.** Nodes are read at different moments; discovery may fail. Correct
  means: the lag is neither negative nor exaggerated, known peers survive a
  failed discovery, and gone peers leave nothing behind.
* **Lifecycle.** Three goroutine owners are stopped in order. Correct means:
  nobody uses a closed client, nothing stays open, the shutdown ends.

`PROJECT.json` lists every hazard with its line and the properties that cover
it.

## 2. Plan

Done: `ConnectionPool` with its abstract specification `ConnectionLending`,
`CircuitBreaker`, and `PooledClient`, which extends the two; `CollectionCycle`
and `SeriesCollectors` on top of it; `CounterTracking`; `SeriesTracker` and
`AccesslogScan` on top of it; `RateLimiter`; `ReplicationPoller` and
`EventsRunner`, composed by `ExporterProcess`. Each of these groups has a module
of proofs (section 6).

Left, in this order:

1. The refinement of the tracker of series (`SeriesTracker`) by a set with a
   size limit, and of the token buckets by the exact bucket that `ideal` is now
   a history of.
2. A shared library of the lemmas on counting and on concatenation that several
   proof modules state for themselves.

## 3. The modules

### ConnectionPool

One goroutine per client, the maintenance goroutine and the one that runs
`Close`. `pc[a]` is where a goroutine is between two operations on shared
memory, `held[a]` the connection in its hand, and `after[a]` the point to which
a nested call (`closeConnectionWithReason`, `updateMetrics`, the accounting of a
receive or a send) returns.

| Code | Actions |
|---|---|
| `Get` | `Get`, `TryGetExistingConnection`, `ValidateAndPrepareConnection`, `CheckContext`, `LoadBudget`, `ReserveBudget`, `DialSucceeds`, `DialFails`, `RetryDelay`, `WaitForConnection` |
| `Put` | `Put`, `PutCheckClosed`, `PutSend`, `PutCount` |
| `Discard` | `Discard` |
| `closeConnectionWithReason` | `CloseSocket`, `ReleaseBudget` |
| `updateMetrics` | `LoadActive`, `SetGauges` |
| maintenance | `MaintainConnections`, `MaintainDrain`, `MaintainCheck`, `MaintainReinsert`, `MaintainCount` |
| `Close` | `Close`, `JoinMaintainer`, `CloseDrain`, `CloseCount` |
| callers | `NewRequest`, `ContextDone` |

Abstractions:

* Age, idle time and the ping of a connection are one nondeterministic verdict
  of each validity check. This covers every clock and every server.
* `Conns` are identities of connection objects. A dial takes one that is closed
  and that nobody has in hand; the budget is smaller than the set, so that the
  set is never what limits the pool.
* The statistics counters (hits, failures, durations) are left out: nothing
  reads them back.
* `updateMetrics` loads `activeConns` and `poolSize` one after the other; the
  second load and the writes of the three series are one step.
* `select` with several ready cases takes any of them.

`ConnectionLending` says what the pool is for: connections are opened within the
budget, idle, lent to one client, or condemned, and a condemned connection is
only closed. `LendingRefined` maps the pool to it: a connection is lent from the
return of `Get` (or the dial) to the send of `Put`, and condemned while it is
about to be closed.

### CircuitBreaker

Admission (`AdmitClosed`, `AdmitFirstProbe`, `AdmitProbe`) and result
(`RecordFailure`, `RecordSuccess`) are each one action, because each is one
critical section. `Reset` and `ForceOpen` are included when `ManualControl`
holds: the exporter itself calls neither. State changes start callbacks that
run in any order (`RunCallback`).

Abstractions: `elapsed` stands for `now - lastFailureTime >= Timeout`, set by
`TimeoutElapses` and cleared by each failure; `CountCap` and `CallbackCap` bound
the counters and the callbacks pending for one state by saturation, above every
threshold the code compares with; `calls` distinguishes probes of the current
half-open period from other calls, which the code does not, for the properties
only; `forced` remembers that `ForceOpen` was called and no failure or `Reset`
came since; `serverStable` says that no later call fails and nobody intervenes
any more, for `RecoversForGood`.
A refused call changes only statistics and has no action.

### PooledClient

Extends both modules: `ClientAssumption` identifies the callers of the breaker
with the clients of the pool, the names of the two components begin with `Pool`
and `Breaker` where they would clash, and a step of the client that is one of the
pool is `PoolOperation`. `StartCall` joins the
admission of a call with the new context of its request; `GetConnection`,
`AnswerArrives` and `ConnectionFails` are the body of `runSearch` with its two
attempts; `FinishCall` records the result once the function has returned. The
six searches differ in their LDAP request only and so are the same action;
`PeerCertificates` needs TLS, takes one connection and does not retry. The
answer of the server and the error class are nondeterministic.

### CollectionCycle and SeriesCollectors

`CollectionCycle` is the control of `exporter.go`. A runner is the background
loop or a goroutine in `CollectNow`; `pc[r]` is where it is in `collectOnce` and
`runCollection`. A task is the n-th admitted group of a cycle, with its own
control state. `SeriesCollectors` gives a task its body: each of the fifteen
gauge collectors is a short program of resets, searches and publications, in the
order of its source, with what a failed search does.

| Code | Actions |
|---|---|
| `collectLoop`, `collectOnce`, `CollectNow` | `CollectOnce`, `CollectNow`, `LoopStops` |
| `runCollection` | `RunCollection`, `EndCycle` (part of the four ends), `Deadline` |
| `ensureConnection`, the probe | `IssueProbe`, `Connected`, `NotConnected` |
| `collectAllMetricsWithContext` | `AllDone`, `TimedOut`, `StartTask`, `Canceled`, `Panics` |
| a collector | `Reset`, `IssueSearch`, `SearchAnswered`, `SearchFails`, `PublishOne`, `PublishEnds` |
| `Close` | `CloseClient`, `CloseUp` |

Abstractions: an answer is the set of objects the server has, a vector the set of
objects it has a series for; labels and values are left out. A search may take
for ever. The probe of a cycle is issued only while the client is open, but it is
answered whenever the server answers, be it after the deadline or after `Close`,
which leaves lent connections alone. `late`, `alone`, `answer`, `expect`, `shut`
(the cycles begun after the client was closed) and `upBy` are histories for the
properties. `collectPpolicyMetrics` and `collectReplicationMetrics` go
through one naming context. `collectStatisticsMetrics`,
`collectOperationsMetrics` and `collectAccesslogMetrics` feed counters and belong
to the next two modules.

### CounterTracking

Collectors that may be anywhere in `updateCounterCommon`: `ReadCounter` (the
search), `Claim` / `EntryLimitReached` / `SkipBusy` (under `counterMutex`),
`ComputeDelta` / `SuspiciousReset`, `RecordValue`; and `CleanupOldCounters`. The
server counts and restarts. `served`, `stamp`, `recordedAt`, `inverted` and
`forgotten` are histories; a stamp is the moment a value was read, as the
operations served and the restarts so far, which orders the readings. The exported total saturates one above what the
server can have counted.

### SeriesTracker and AccesslogScan

`Inc` is `IncAdmit` or `IncDrop` under the mutex and `IncSeries` after it;
`Sweep` and `SweepDelete` likewise. `AccesslogScan` is the incremental scan of
the three streams over `CursorState`, with two consumers: the metric collector
(several scanners, the mutex of the cursor, a failed stream is skipped) and the
event collector (one scanner, a failed stream ends the tick). The server begins
operations, which fixes `reqStart`, and writes their entries later in any order.
An operation is a bind, a rejected modification, a lock or an unlock: these are
the kinds that streams and consumers treat differently. `reqStart` values are
unique numbers; the time-stamp format and user names are left out. `Promised`
says which streams the server answers in `FairSpec`: all of them for the event
collector, all but the bind stream for the metric collector, which must do
without it. `BindFailsSpec` promises no answer to the bind stream to either.

### RateLimiter

A request arrives and looks its bucket up (`RequestArrives`), creates it under
the write lock (`Create`), and spends under the lock of the bucket
(`AllowBucket`). The cleanup is `CleanupScan` and `CleanupDelete`. Tokens are
counted in fractions, time is the age of `lastSeen`. `GetClientIP` is an operator
over any chain of headers; `MCRateLimiter` compares it with a reference
definition in the assumption `ClientAddress`. `ideal` is the history: one exact
token bucket for each direct peer, credited with `Forgiven` when the cleanup
forgets the peer. `Forgiven` is what a bucket can still lack after an idle
interval; with the default limits it is 0. Ages above `MaxAge` are not told apart:
such a bucket is idle and full again, or never fills.

### ReplicationPoller, EventsRunner, ExporterProcess

The poller discovers (`DiscoverPeers`), adds and removes peers, reads every node
at a moment of its own (`ReadCSN`) and publishes the round. The runner ticks and
emits through a file that rotates daily. `ExporterProcess` is `main`: it starts
exporter, runner and poller, serves, and takes them down in the order of the
deferred calls, waiting where `Stop` waits. A read of a node has three outcomes:
down, up without a CSN, up with one. One `contextCSN` component is modelled;
components do not interact. The exporter is only its client here, since its loop
is the subject of `CollectionCycle`.

## 4. The runs

Passing runs:

| Run | Properties | Bounds |
|---|---|---|
| `pool_safety` | `PoolInv`, `BudgetExact`, `BudgetRespected`, `NoDeadConnection`, `PoolSizeExact`, `ChannelNeverFull`, `LendingRefined` | 2 clients, 3 connections, budget 2, 3 attempts |
| `pool_liveness` | `WaiterReturns`, `CloseCompletes` | 1 client, 2 connections, budget 1, 3 attempts, monitoring on |
| `breaker` | `ClosedBelowLimit`, `NoLeakedSlot`, `HalfOpenStartsFromZero`, `RecoversForGood` | 4 callers, limits 2 and 3, manual control |
| `client_contention` | `ClientInv`, `CallReturns` | 2 clients, budget 1, limits 1 and 1 |
| `client_shutdown` | `NoBudgetLeak`, `PoolRefined`, `BreakerRefined` | 1 client, budget 1, maintenance and `Close`, series, TLS |
| `collection` | `CollectionInv`, `UpAfterCloseIsLate`, `SearchCarriesContext`, `SeriesMatchAnswer`, `CycleEnds` | 2 cycles, the loop and one `CollectNow`, 1 slot, 1 object, three filters |
| `counter_tracking` | `CounterInv`, `OvercountExplained`, `ExactWhenUndisturbed`, `SkippedUpdateCaughtUp` | 2 collectors, 2 keys for 1 entry, 3 operations, 1 restart |
| `accesslog` | `ScanInv`, `EmittedOnce`, `LossExplained`, `EntriesReachConsumer` | 2 operations, 2 scanners, 2 label tuples for 1 series |
| `rate_limiter` | `LimiterInv`, `RateRespected`, `RefusedClientServed` | 2 requests at once, burst 2, half a token a tick, interval 2 (a cleanup forgives up to one token), 2 header entries |
| `lifecycle` | `ProcessInv`, `LagMeasured`, `NoUseAfterClose`, `NothingLeftOpen`, `KnownPeersSurvive`, `ShutdownCompletes` | 1 peer that comes and goes, 1 write, 1 midnight |

An invariant whose name ends in `Inv` joins the types of its module with the
parts that belong together:

| Invariant | Parts beside the types |
|---|---|
| `PoolInv` | control, exclusive ownership, no broken connection pooled, empty hands outside the points that hold one, nothing lost, exact budget (section 6) |
| `ClientInv` | `CallControl`: where a call is in its attempts agrees with where its goroutine is in the pool; `NothingHeldAfterCall`: no call returns with an open connection in hand |
| `CollectionInv` | `MutexControl`, `TaskControl`, `UpControl`: one cycle at a time, tasks of probed cycles only; `SuccessMeansComplete`: `up` is 1 only for a cycle that left no task behind; `ProgressControl`, `SeriesControl`: what a collector that runs alone has made of its vectors |
| `CounterInv` | `EntryAliveWhileModified`: one updater per entry, none deleted under it; `RecordedIsExported`: the counter is at least the recorded value; `DeltaIsCurrent`, `ReadingsArePast`, `ExportFollowsReadings` |
| `ScanInv` | `OneScanner`; `SeriesBounded`, `CountedIsTracked`, `TrackedHasSeries`: series and tracked tuples correspond; `CursorForward`, `ResultAccounted`, `EmittedOnce`, `LossExplained` |
| `LimiterInv` | `RequestsInStage`; `OneBucketPerClient`, `OneClientPerBucket`: the bucket in hand is the one on the map, unless forgotten since; `ExpiredIsIdle`, `IdealCovers` |
| `ProcessInv` | `OwnersInOrder`: how far `main` is decides who runs and what is open; `PollerInv`: `SourcesKnown`, `VanishedPeersPruned` (no series without a client), `LagHasCSN`, `ReadingsOfRound`, `LagMeasured`, `StaleLagExplained` (an old lag only where a read failed) |

All of them are inductive: section 6 proves them for every value of the
constants, and the runs check them on the instances below.

Why these bounds are enough to be interesting: with a budget of two and two
clients beside maintenance and `Close`, up to four goroutines hold, close or
dial connections at once, the channel fills and empties, and the compare-and-swap
fails. Three attempts are the value in the code. A budget of one makes clients
wait. Four callers and three probe slots give late results of one
period in the next one; three successes to close leave room for several of them.
Symmetry (of connections and of clients) is used in `pool_safety` only.

Two cycles are enough for a straggler beside a later task of its group, and the
three filters give a collector with two searches and a late reset (`threads`),
one whose search may fail and go on (`tls`), and two groups that compete for a
slot; the other collectors are made of the same parts. Two collectors and a
restart give every order of stale, skipped, reset and forgotten updates of one
key, and a second key competes for the only entry. Two operations can be written
in the wrong order, belong to two streams, and share or not share a label tuple.
Two requests race for the creation of a bucket; an idle period longer than the
cleanup interval fits between them and leaves the bucket one token short.
The only peer of `lifecycle` is one that `olcSyncrepl` names and may stop naming;
a configured peer beside it is beyond TLC's time here, and
`KnownPeersAlwaysSurvive` proves the property for every set of them. Likewise a
server that restarts to a suspiciously high value needs five operations in
`counter_tracking`; there the refused values are stale readings, and the theorems
cover the restart.

`PoolRefined` and `BreakerRefined` say that the client uses pool and breaker as
their own modules allow, so what is checked and proved of them holds in the
client.

Two runs end in a violation, a disagreement between the code and what it or its
documentation says:

| Run | Property | What the trace shows |
|---|---|---|
| `pool_close_race` | `ClosedMeansNoSocket` | `Put` reads `closed = 0`, `Close` runs to its end, `Put` sends: the socket stays open in a channel nobody drains. "Close all connections in the pool" (`pkg/pool/pool.go:166`) |
| `accesslog_frozen` | `OtherStreamsNotFrozen` | The bind stream fails in every tick: the event collector returns its error (`events/collector.go:59`) and never asks for the write and lock streams, whose entries wait for ever although the server would answer. "A failure on one stream (bind / write / lock) does not freeze the others" (`README.md:463`, of the events stream) |

For every property of a passing run a mutant of the code is kept in the module
it belongs to (a comment marks it), with which the property is violated: a
dropped decrement, a plain store for the compare-and-swap, an ignored flag, a
late trip, a wait without a context, and so on.

## 5. Fairness

* A goroutine that can take a step takes it: weak fairness of `ClientStep`,
  `MaintainStep`, `CloseStep`, `CallStep`, `RunCallback`, `RunnerStep`,
  `Update`, `ScanStep`, `RequestStep`, `MainStep`, `PollerStep`. Go schedules
  runnable goroutines, LDAP operations have timeouts.
* Contexts expire: weak fairness of `ContextDone`, `CallContextDone`
  and `Deadline`. Every request
  has a context with a 30 s deadline (`DefaultSearchTimeout`), a cycle one with
  `LDAP_TIMEOUT`.
* Time passes: weak fairness of `TimeoutElapses` and of `Tick`.
* Protected calls return: weak fairness of `RecordResult` in the breaker alone;
  `CallReturns` of the client is what justifies it.
* In `client_contention`, strong fairness of a successful compare-and-swap: the
  loop of `tryCreateNewConnection` is lock-free, not wait-free, and starving it
  forever needs another goroutine to change the counter between each load and
  swap.
* `PollingSpec` adds that calls keep coming: the collection ticker never stops
  while the process runs.
* A `select` whose stop channel is closed does not choose the ticker for ever:
  strong fairness of `LoopStops`, `PollerStops`, `RunnerStops`. Go chooses among
  ready cases at random.
* A tick of the runner emits finitely many events: strong fairness of
  `RunnerEnds`.
* Every group is collected again and again and some searches are answered:
  strong fairness of `ReadCounter`, and of the answers in `AccesslogScan`. There
  the metric collector is promised no answer to the bind stream, and in
  `accesslog_frozen` neither is the event collector.
* `RefusedClientServed` is about a client that keeps asking: strong fairness of
  its `RequestArrives`.

Nobody is assumed to call `Get`, to return a connection, to close anything or to
send a signal, and no task of a collection cycle is assumed to return. A waiter
is released by its deadline in the worst case, which is what the code
guarantees: budget freed by `Discard` does not wake it.

## 6. The proofs

Eight modules of proofs are checked by TLAPS. They hold for any sets of clients,
connections, callers, collectors, keys, entries, streams, addresses, requests,
peers and objects, and for any limits that satisfy the assumptions named in the
modules:

| Assumption | Says |
|---|---|
| `PoolAssumption` | finite sets of clients and connections, distinct goroutines, a positive budget and number of attempts |
| `BreakerAssumption` | a finite set of callers, positive limits, caps not below the limits |
| `ClientAssumption` | the callers of the breaker are the clients of the pool |
| `CycleAssumption` | finitely many callers of `CollectNow`, room in `Tasks` for each list, a positive semaphore |
| `GroupAssumption` | every admitted group has a collector and is admitted once |
| `CounterAssumption`, `ScanAssumption`, `TrackerAssumption`, `PollerAssumption`, `RunnerAssumption` | limits are numbers, null values are not members |
| `LimiterAssumption` | finite sets; rate, burst and cleanup interval are numbers, the last one positive |

| Theorem | States |
|---|---|
| `PoolInvariant` | `PoolSpec => []PoolInv` |
| `BudgetStaysExact`, `BudgetNeverExceeded` | `activeConns` is exactly the open sockets plus the slots owed; never more than `MaxConnections` |
| `OwnershipStaysExclusive`, `DeadConnectionsNeverLent` | one owner per connection; no closed or discarded connection is pooled or lent |
| `SendAlwaysHasRoom` | `ChannelNeverFull`, by counting the channel, the sender and the budget |
| `SizeStaysExact` | `poolSize` is off by the operations under way and by nothing else |
| `PoolImplementsLending` | `PoolSpec => LendingRefined`, step by step |
| `PoolTypeCorrect`, `BreakerTypeCorrect` | type correctness |
| `ClosedStaysBelowLimit`, `SlotsNeverLeak` | failure limit and probe slots, manual control included |
| `HalfOpenPeriodsStartFromZero` | an open breaker has no successes to its credit, unless `ForceOpen` opened it and no failure or `Reset` came since |
| `ClientImplementsPool`, `ClientImplementsBreaker`, `ClientInherits` | every behaviour of the client is one of the pool and one of the breaker, whose invariants therefore hold in it |
| `ClientInvariant`, `BudgetNeverLeaks` | a call returns with nothing in hand, on every path; at rest the budget is the channel |
| `CollectionInvariant` | `Spec => []CollectionInv` |
| `UpStaysLate`, `ContextStaysCarried`, `SeriesStayMatched` | `UpAfterCloseIsLate`, `SearchCarriesContext`, `SeriesMatchAnswer` |
| `CounterInvariant`, `OvercountStaysExplained`, `UndisturbedStaysExact` | `CounterInv`, `OvercountExplained`, `ExactWhenUndisturbed` |
| `ScanInvariant`, `EmittedAtMostOnce`, `LossStaysExplained` | `ScanInv`, `EmittedOnce`, `LossExplained` |
| `LimiterInvariant`, `RateStaysRespected` | `LimiterInv`, `RateRespected` |
| `ProcessInvariant`, `LagStaysMeasured`, `ClosedIsNotUsed`, `NothingStaysOpen` | `ProcessInv`, `LagMeasured`, `NoUseAfterClose`, `NothingLeftOpen` |
| `KnownPeersAlwaysSurvive` | the action property `KnownPeersSurvive` |

**The pool.** `BudgetExact` is not inductive: that closing a connection
removes one socket needs the socket to be open, hence that its holder is its
only owner (`ExclusiveOwnership`). Exclusive ownership in turn needs that no
nested call returns to a point that uses the connection it has given away, and
that `Put` and a second `Discard` recognise a connection that is already torn
down: the return addresses and flags of `ControlInv` and `NoBrokenPooled`. The
bound `activeConns <= MaxConnections` needs the value a client loaded before its
compare-and-swap to be below the limit, also in `ControlInv`. `PoolInv` is the
conjunction; it is proved action by action, with lemmas for one receive
(`OwnershipReceived`), one send (`OwnershipSent`) and the steps that leave
connections where they are (`OwnershipKept`). The refinement needs three facts
more: a goroutine that has no connection names none (`EmptyHands`), every open
socket is in a hand, in the channel or with the tick (`NothingLost`), and a tick
ends with nothing aside (`TickEndsEmpty`). With them each step moves one
connection between idle, lent and condemned, or none.

**The breaker.** `NoLeakedSlot` needs that every way out of the half-open
state turns probes into ordinary calls and that the first probe sets the
in-flight count rather than adding to it; `HalfOpenStartsFromZero` needs that an
open breaker has no successes, which `onFailure` establishes and `ForceOpen` does
not: hence the history `forced`.

**The client.** Each of its steps is a step of the pool, of the breaker, of both
or of neither, so both specifications are implemented and their invariants are
at hand. `CallControl` adds the link between the two: with a result in hand the
goroutine is on a path of `Put` or `Discard` that ends outside the pool, and
without one it comes back to `Get` only with an attempt left. `NoBudgetLeak`
then follows from `BudgetExact`, `NothingLost` and `PoolSizeExact`.

**The collection.** A cycle opens with no task of its number (`TaskControl`), so
spawning disturbs no straggler, and `collectMu` ties the base context to the
cycle in progress (`MutexControl`), which is all `SearchCarriesContext` needs.
`UpAfterCloseIsLate` needs that a cycle begun after the client was closed never
gets past its probe (`UpControl`).
`SeriesMatchAnswer` needs the programs: `ProgramsGood` shows of each of the
fifteen collectors that it writes vectors of its own group only and resets a
vector before it publishes it, once. Hence a collector that runs alone is the
only writer of its vectors (`OnlyWriter`), and `SeriesControl` is inductive: the
vector is empty from the reset to the loop over the entries (`Between`), and in
the loop it has what the answer has and is not yet to be published.

**The counters.** Two readings of one counter are ordered by their stamps and
differ by what was counted in between, or by a restart (`Compatible`). While
nothing is recorded out of order or forgotten, the exported total is at most
what had been served at the stamp of the recorded reading.

**The accesslog.** An entry handed on is behind the cursor or within the result
in hand (`CursorForward`), and every entry up to the highest of a result is in
the result, was handed on, or has its excuse (`ResultAccounted`); one scanner at
a time is past the cursor (`OneScanner`).

**The limiter.** The exact bucket of a peer has at least what the real one will
have after its refill (`IdealCovers`); what the second pass of the cleanup
deletes is still idle (`ExpiredIsIdle`) and therefore lacks at most `Forgiven`, so
that forgetting it gives away no more than the exact bucket is credited with.

**The process.** `OwnersInOrder` says for each point of `main` who may run and
what is open; `ReadingsOfRound` bounds each answer by the master of that moment,
from which the lag is bounded on both sides.

Only model-checked: the liveness properties (`WaiterReturns`, `CloseCompletes`,
`RecoversForGood`, `CallReturns`, `CycleEnds`, `SkippedUpdateCaughtUp`,
`EntriesReachConsumer`, `RefusedClientServed`, `ShutdownCompletes`), which are
beyond the prover (fairness, `ENABLED`), and the comparison of `GetClientIP` with
its reference definition, an induction over the header chain.

## 7. What the model shows besides

Observations that the properties state as their exceptions, or that have no run:

* `pool_metrics.go:20` exports idle connections as `poolSize - activeConns`,
  floored at 0, but `activeConns` includes the pooled ones: a pool at rest
  reports no idle connection.
* `circuitbreaker.go:235`: the late result of a call admitted while closed frees
  a probe slot it never took, so more than `SuccessThreshold` probes can run.
* `circuitbreaker.go:319`: state-change callbacks are not ordered, so the gauge
  can stay at a state the breaker has left. It encodes open as 1 and half-open as
  2, `README.md:778` says the reverse.
* `circuitbreaker.go:212`: `ResetTimeout` is never read. A half-open breaker
  nobody calls stays half-open. `ForceOpen` during a half-open period keeps its
  successes for the next one (`forced` of `HalfOpenStartsFromZero`; no caller in
  the exporter).
* The `max_attempts` failure of `Get` and the `pool_full` rejection of `Put`
  cannot happen.
* `exporter.go:428`: a cycle that runs when `Close` is called can set `up` to 1
  after it: a probe in flight is answered later (`pooled_client.go:246`; the pool
  closes idle connections only), the collectors then fail without an error, and
  `exporter.go:270` reports success. A cycle that begins after `Close` cannot
  (`UpAfterCloseIsLate`). The guard of `collectOnce` is always free, because one
  loop calls it.
* `exporter.go:257` says that every LDAP round-trip honors the deadline of the
  cycle, and `README.md:23` that a cancellation reaches requests in flight. The
  context bounds the wait for a connection; `conn.Search` (`pooled_client.go:246`)
  does not take it and is ended by the timeout of its connection only.
  `SearchCarriesContext` is about the part the code does.
* `counter_management.go:158`: an older value recorded over a newer one is taken
  for a reset, and a forgotten entry counts from zero again (`inverted`,
  `forgotten` of `OvercountExplained`). A reset to a high value freezes the
  counter.
* `accesslog_tracker.go:131`: a sweep can delete the series of a tuple that was
  admitted again (`overtaken` of `TrackedHasSeries`); the next increment brings it
  back from zero.
* `accesslog.go:150`: an entry written after a scan has passed its `reqStart` is
  never emitted (`late` of `LossExplained`).
* `collectors_accesslog.go:57`: the metric collector goes on to the next stream
  when one fails; the event collector does not (`accesslog_frozen`), so
  `EntriesReachConsumer` is promised answers to every stream there.
* `ratelimit.go:150`: a cleanup interval too short for the burst lets an idle
  client start anew with more than it had. Rate and burst come from the
  environment without bounds (`main.go:273`): one request a minute with a burst of
  20 gives an idle client up to ten requests more per cleanup. `Forgiven` is that
  amount; with the defaults it is 0.
* `poller.go:236`: a peer whose `contextCSN` search fails is shown as up, with the
  lag of an earlier round. `StaleLagExplained` confines this to peers whose last
  search failed; it does not forbid it.

## 8. Not modelled

The mapping of LDAP attributes to labels and values in the collectors, the domain
filter, and the parsing of times, names and CSNs: pure string code that its unit
tests enumerate. Configuration apart from `ShouldCollectMetric`: read once at
start. `retryOperation` and its backoff: no caller. Character-level validation of
DNs and filters. Registration of series, routes, headers and the HTML page,
logging, the JSON of events, and scrape statistics. A
panic in the poller or in the runner: nothing recovers it, so it ends the
process, unlike that of a task (`exporter.go:351`), which is modelled. A negative
rate or burst, which `main.go:273` accepts: buckets that drain, or never hold a
token.
