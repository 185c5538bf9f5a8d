# Multichain RPC proxy: a TLA+ model

The proxy takes JSON-RPC requests over HTTP and gRPC, and forwards each to one
of several nodes ("endpoints") of the requested chain. This directory holds TLA+
modules for its core (circuit breaker, load balancer, health checker, request
path, response cache, rate limiters), for its WebSocket sessions and connection
pool and for its configuration watcher, the TLC configurations that check them
on small instances, and TLAPS proofs of the most important results for all
instances.
`PROJECT.json` maps every definition to the lines it models and lists runs,
mutants, findings, hazards and theorems.

Run a check with `tlc -config CircuitBreaker.cfg CircuitBreaker` (module and
configuration of each run are in the table below) and the proofs with
`tlapm EndpointProofs.tla`.

## 1. Inventory

| Component (source) | State | Operations | Met by |
|---|---|---|---|
| Circuit breaker (`chain/circuitbreaker.go`) | state, failures, successes, halfOpenRequests, lastFailureTime, under `cb.mu` | Allow, RecordSuccess, RecordFailure, Reset, Execute, State, Stats | Endpoint.Forward, between whose two uses of the breaker the lock is free |
| Endpoint (`chain/endpoint.go`) | atomics healthy, blockHeight, counters, latencies; a breaker; an HTTP client with a timeout | Forward, Call, SetHealthy, SetBlockHeight, statistics | requests and the health checker, concurrently |
| Load balancer (`chain/loadbalancer.go`) | atomic counter `current`; endpoints and weights, fixed | Next, NextWithFallback | every request; health flags flip underneath it |
| Health checker (`chain/health.go`) | one goroutine per chain: context, wait group, locals of a round | Start, Stop, run, checkAll, checkEndpoint | writes the flags that requests read and clear |
| Chain (`chain/chain.go`) | endpoints, balancer, checker, atomic highestBlock | Forward, ForwardWithRetry, UpdateHighestBlock, Stats; Manager keeps an immutable map of chains | HTTP handler and gRPC service, both with two retries |
| HTTP rate limiter (`proxy/middleware.go`) | bucket per client address under a mutex; cleanup goroutine | Allow, cleanup | every HTTP request |
| `ratelimit` package (`ratelimit/ratelimit.go`) | token bucket, sliding window, combination of both per chain | AllowN, Stop, GetStats | nobody yet |
| HTTP handler (`proxy/handler.go`), gRPC service (`grpc/rpc_service.go`) | none of their own | HandleRPC; Call, BatchCall, StreamCalls | cache, chains |
| Response cache (`cache/cache.go`) | in-memory map without a lock, or Redis | Get, Set, key building | HTTP and gRPC requests, concurrently |
| WebSocket session and pool (`websocket/*.go`) | client and backend connection, channels; idle and active connections | session goroutines, reconnect; Get, GetWithWait, Put, Remove, Close, cleanup | not registered by `main` |
| Config loader and watcher (`config/*.go`) | current config, callbacks, debounce timer | Load; Start, Stop, ForceReload, OnReload | watcher not started by `main` |
| Assembly (`cmd/proxy/main.go`), gRPC server, interceptors, metrics, TLS | servers, counters | start, shutdown, logging | - |

How they interact. A request asks the balancer for an endpoint, the endpoint
asks its breaker, and the outcome of the call goes back to the breaker; a failed
attempt clears the endpoint's health flag and another endpoint is tried after a
backoff. Only the health checker sets the flag again. The checker's own probes
do not pass through the breaker. So an endpoint is in service when two
independent pieces of state, flag and breaker, agree, and each changes
without a lock held over both.

What is hard here:

* outcomes reach a breaker in a period other than the one that admitted the
  call, and half-open is computed from the clock, never stored;
* `lb.mu` is never write-locked and does not cover the flags: the scans of one
  call of Next see different flags;
* the checker applies a round's answers after the slowest of them, while
  requests clear flags; its stores are one by one;
* liveness: a refusing breaker makes requests clear the flag, the checker sets
  it, the breaker needs requests to close;
* select statements with two ready cases (ticker and cancelled context, backoff
  timer and cancelled caller);
* buckets that are refilled lazily, dropped when idle and created full;
* a response cache that is a Go map without a lock, written by lookups too, and
  shared by HTTP and gRPC;
* connections that are lent, returned, swept, and closed under their holders;
* a session's connection field that two goroutines test, use, close, clear and
  assign without a lock, and a goroutine that reconnects after the session ended;
* a window limiter that estimates, and two limiters asked one after the other;
* reloads that read a file outside the lock, on goroutines that a debounce timer
  starts and Stop does not wait for.

What makes each part correct:

* breaker: with its half-open state computed from the clock it behaves as a
  machine that stores three modes and gives each its own allowance; a half-open
  breaker neither stays so for good nor refuses with nobody in flight;
* balancer: picks are healthy, failures are justified, weights are respected
  exactly, and no pattern of flips keeps a call going;
* checker: what is offered is close to the head of the chain as published by
  the same round; good nodes come back, dead ones leave, Stop returns;
* request path: a working endpoint is found; one outcome per admitted call;
  every request ends; service resumes after an outage;
* limiters: no key exceeds burst plus rate times time, over any stretch; a
  sliding window admits less than twice its rate in a window's time and locks
  nobody out; asking two limiters in turn bunches no more than is in between;
* cache: a hit answers the query asked, as one of the two services understands it,
  and is no older than the TTL and one
  forward; a request always ends; concurrent requests do not bring the process
  down (they can), and each gets its own id back (it may not);
* pool: one holder per connection, nothing lost, never more than the limit, and
  not full of connections that nobody can use;
* session: no nil connection is used, at most one connection is open and it is
  the one in the field, both goroutines end after the client is gone, nothing is
  left over (something is);
* watcher: no change is lost, the configuration never goes back, callbacks see
  an unbroken chain of changes, and few reloads begin after Stop.

## 2. Modules and how they correspond to the code

| Module | Models | Role |
|---|---|---|
| `BreakerMethods` | circuitbreaker.go, method by method, as functions from a breaker record to the next | used by `CircuitBreaker` and `Chain` |
| `CircuitBreaker` | one breaker with concurrent callers, the clock and Reset | component |
| `CircuitPolicy` | the explicit closed/open/half-open machine | abstract specification |
| `LoadBalancer`, `MCLoadBalancer` | Next and NextWithFallback, one atomic load per step | component |
| `HealthChecker` | Start, run, checkAll, checkEndpoint, UpdateHighestBlock, Stop | component |
| `Chain`, `MCChain` | Forward and ForwardWithRetry over Endpoint.Forward | composition: several breakers, flags, checker verdicts, requests |
| `TokenBucket` | RateLimiter and TokenBucketLimiter | component |
| `RateMeter` | a meter that runs all the time | abstract specification |
| `SlidingWindow` | SlidingWindowLimiter | component |
| `MultiLimiter` | MultiLimiter.Allow over a token bucket and a sliding window, which share the clock | composition: extends both |
| `Session` | ClientSession: Run, connectToBackend, forwardFromClient, forwardFromBackend, Close | component: two goroutines |
| `ConfigWatcher` | Watcher: watch, reload, ForceReload, OnReload, Stop, and what Load can yield | component |
| `ResponseCache`, `MCResponseCache` | HandleRPC and RPCService.Call over InMemoryCache, accesses to the map as intervals | composition: HTTP, gRPC and cache |
| `ConnectionPool` | Get, GetWithWait, Put, Remove, Close, cleanup | component |
| `EndpointProofs` | | theorems about `CircuitBreaker` and about `HealthChecker` |
| `LoadBalancerProofs`, `ChainProofs`, `ConnectionPoolProofs`, `ResponseCacheProofs`, `SessionProofs`, `ConfigWatcherProofs` | | theorems about the module of that name |
| `LimiterProofs` | | theorems about `TokenBucket`, `SlidingWindow` and `MultiLimiter` |

Granularity. A method that holds a mutex from its first to its last statement
(all of the breaker's, all of the limiters') is one step. Code that works with
atomics is one step per load or store, loop locals changing in the step of the
load they depend on. A network call is a step in which it ends; that it has begun
shows in the program counter.

Abstractions, and why they lose nothing that a property can see:

* *Time.* `time.Since(lastFailureTime) > Timeout` becomes an age in ticks,
  saturated at `Timeout + 1`. A bucket's age saturates at `Horizon`, where it
  is full and may be dropped.
* *Tokens* are floats in the source. The model counts in units in which both
  the refill of a tick and the cost of a call are whole numbers; rounding of
  floats is not modelled.
* *Numbers.* `current` of the balancer keeps a width: it wraps from `IntMax`
  to `-IntMax - 1`, and `%` has Go's sign. Block heights are int64: sixteen
  hexadecimal digits that begin with 8 to f are a negative number to
  `parseBlockNumber`, so the model's run from `-MaxNegative` to `MaxHeight`. That
  the difference of two heights overflows (a negative one against one near 2^63)
  is not modelled.
* *checkEndpoint* ends with a height or with (0, false): the HTTP exchange,
  decoding and `parseBlockNumber` are not followed. Nobody looks at the second
  result, so `Failed` is the height 0.
* *Apply* stores flag and height of an endpoint in one step. The source uses
  two stores; no code that decides anything reads both.
* *Chain* represents the balancer by what `LoadBalancer` shows of it: Next may
  return an endpoint at the instant it reads its flag as up, and may fail once it
  has read every flag as down, each at its own instant (weights are positive).
  It represents the checker by verdicts formed at one instant and stored at a
  later one, each endpoint for itself. Both admit more behaviours than the code
  (the scans' order, and the barrier between probing and storing, are dropped),
  so what holds of every behaviour there holds of the code.
* *Any HTTP status is a success* to the breaker, as in Endpoint.Forward: only
  transport and body errors count as failures.
* *A map without a lock.* An access to the cache begins in one step and ends in
  another. If it begins inside a write, the Go runtime may notice and end the
  process (`fatal`); if not, or if a write begins inside a read, the race is
  undefined behaviour: from then on (`raced`) a lookup may find nothing or
  arbitrary bytes. A lookup in an empty map and a delete from one return
  before the runtime looks for writers or counts as one (`Skip`); while a write is
  under way the map may be empty already, or not yet. HitAnswersQuery and HitIsRecent speak of behaviours without
  overlapping accesses, since nothing can be promised of the others; what
  interleaves between the accesses is explored in full.
* *Keys* are the concatenation of chain, method and parameters that makeKey
  feeds to sha256, which is taken to be injective (makeKey keeps half of its
  digits). Nothing delimits the parts, and the code does not keep them apart;
  CacheConfig assumes that the configuration does: no chain's name with a
  cacheable method is the beginning of another chain's name with another
  cacheable method. This is so in `configs/config.yaml`, where no chain's name begins
  another's and no cacheable method another one. The instance has chains `eth`
  and `eth-test`.
* *What is asked.* The cache is keyed by one thing and the node asked another.
  Call looks up the bytes of the parameters but forwards what decoding into
  `interface{}` and encoding again leaves of them: numbers become float64, so an
  integer beyond 2^53 becomes another one (`GrpcAsks`). HandleRPC looks up what it
  decodes of the body but forwards the body, and a node may read the same bytes
  in another way, for example one that names a member twice or in capitals
  (`HttpAsks`, a set). Both are parameters of the module, arbitrary functions to
  the proofs.
* *Bodies* of responses are the query they answer, the id in them (or that they
  are not JSON) and their age. Any status code is an answer and is cached. The
  bytes of an expired entry are not kept: no lookup returns them.
* *The pool* is a set: list order only decides which of several usable
  connections is lent. Clients return what they were lent once; a second Close
  would panic and is not made. A chain with breakers disabled behaves as one
  whose failure threshold is never reached, and has no module of its own.
* *Sliding window.* A window is `WindowSize` ticks. The weight is a float in the
  source; the comparison is made in whole numbers, multiplied by the size. The
  record keeps how many windows began since its `currWindow` instead of two
  times. The history `recent[k][i]` is what the last i ticks admitted.
  `WindowConfig` assumes that a key is dropped only when both its windows are
  over, true of the windows of one second that NewLimiter asks for.
* *MultiLimiter* has one chain with a limiter (the limiters of chains do not
  share anything) and any other chains without. SetChainLimiter is called once.
* *Session.* Every load and store of `backendConn` is a step, and so is a write or
  a read that blocks, on the connection that was loaded. A connection is unused
  or closed, works, takes no more data (`stalled`: a write waits for its
  deadline, or for ever), or was dropped by the backend (a write may still seem
  to succeed). connectToBackend succeeds or fails; which endpoint it chose plays
  no role. A panic in the client goroutine is recovered by net/http after the
  deferred Close; one in the backend goroutine ends the process, and the
  behaviour. The read deadline counts as passed (`late`) when the frames that the
  websocket reader had buffered by then have been taken as well: they are
  returned without a look at the deadline, and they are finitely many. Names of
  connections are used again; `Conns` bounds how many may be
  open, and a dial that finds no name free fails.
* *ConfigWatcher.* Contents of the file are numbered as they are written. Load
  yields a configuration, an error, or a panic: a chain without settings is a
  nil pointer in the decoded map, whose pool settings Load then gives defaults.
  A file that is being written is a change to a bad content followed by another
  change. ForceReload shares reload's steps. Stop is two steps; the watch loop,
  with several channels ready, may take any, and takes an event and restarts
  the timer in two steps, since Stop or the timer may come between. When
  `watcher.Close()` has returned, fsnotify delivers nothing more.
* *History variables* (`seen`, `tally`, `disturbed`, `steady`, `raised`,
  `excess`, `raced`, `recent`, `bunched`, `torn`, `overlap`, `late` of the watcher) record what
  properties speak about; no action is guarded by them, except that `Begin` of the balancer stops a measurement at `MaxTally`, and that
  `raced` decides what a lookup may find.

Conditional properties. The races in `Session` and `ConfigWatcher` are real and
have consequences, so a property that ignores them fails. `torn` records that
one goroutine stored to `backendConn` between the other's test of it and its last
use, `overlap` that two reloads were between their load and their end at once.
NilSafe, OneBackend, Drains, Recovers, UpToDate, Informed, NeverBack and Applied
say that nothing else can go wrong: the sequential logic of each goroutine is
right under every other interleaving, and a lock held over exactly these
stretches would be enough. What happens otherwise (TLC shows each when the
condition is dropped): the client goroutine closes and clears the field after a
failed write, the backend goroutine's read fails and it uses the nil field, and
the process ends; both reconnect and one connection is lost from the field while
the backend goroutine reads it for ever; of two reloads the older content is
installed last.

Environment: nodes whose heads move for ever, forwards and back, that become
unreachable and return; callers that
cancel; the clock; requests that clear flags (in `HealthChecker`) and the checker
that sets them (in `Chain`).

## 3. Runs

| Run | Module, configuration | Checks | Shows |
|---|---|---|---|
| `breaker` | `CircuitBreaker`, `CircuitBreaker.cfg` | NoWedge, ImplementsPolicy, LeavesHalfOpen | four callers, clock and Reset: the breaker implements an explicit three-mode machine with the code's thresholds, refuses everybody in half-open only while a call is in flight, and leaves half-open under traffic |
| `balancer` | `MCLoadBalancer`, `LoadBalancer.cfg` | PickWasHealthy, FailureJustified, FairShare, WaitFree | flags flip between any two loads of two overlapping calls and the counter wraps; undisturbed rounds have exact weighted shares, and every step of a call brings it closer to its end |
| `checker` | `HealthChecker`, `HealthChecker.cfg` | LagRespected, Recovers, Evicted, StopReturns | rounds of staggered probes against nodes that keep moving, fail and return, and flags cleared by requests |
| `chain_failover` | `MCChain`, `ChainFailover.cfg` | Failover | two requests, two endpoints, one retry |
| `chain_recovery` | `ChainRecovery.cfg` | BreakersUsedProperly, Terminates, ServiceRecovers | two requests of both kinds share one endpoint whose thresholds need several requests |
| `limits` | `MultiLimiter`, `MultiLimiter.cfg` | RateBound, SlidingBound, BunchBound, ImplementsMeter, Reclaimed, NotLockedOut | a token bucket and a sliding window, each used directly and through the two-step check, swept and stopped |
| `pool` | `ConnectionPool`, `ConnectionPool.cfg` | Exclusive, HeldIsOpen, NoLeak, Capacity, Available | three clients, at most two connections, all operations and the sweep |
| `cache` | `MCResponseCache`, `ResponseCache.cfg` | HitAnswersQuery, HitIsRecent | an HTTP client with a string id and a gRPC client ask the same and different queries, which each forwards changed in its own way |
| `cache_crash` | `ResponseCacheCrash.cfg` | NoCrash **violated** | two requests for cacheable methods suffice: one stores its answer while the other looks its query up |
| `session` | `Session`, `Session.cfg` | TypeOK, NilSafe, OneBackend, Ends, Drains, Recovers | both goroutines against backends that stall and drop, and a client that stops |
| `session_leak` | `SessionLeak.cfg` | Released **violated** | fourteen steps of a session that simply ends leave a connection open |
| `watcher` | `ConfigWatcher`, `ConfigWatcher.cfg` | TypeOK, UpToDate, Informed, LateReloads, NeverBack, Applied | a timer's reloads and a caller's, three changes, two callbacks, Stop |

All type invariants are proved (section 4); the runs whose instance bounds a
counter or an index (`session`, `watcher`) check theirs as well.
`HealthChecker` is proved about together with the breaker, so its definitions
that every module has are called CheckerInit, CheckerSpec and so on.

Smaller disagreements have no run of their own:

* docs/ARCHITECTURE.md:301 says of the circuit breaker "Allows endpoints to
  recover", and docs/CONFIGURATION.md:176-178 documents its settings
  independently; with `half_open_max_requests` below `success_threshold` the slots
  are used up before enough successes can be counted, and the breaker stays
  half-open for good (LeavesHalfOpen fails in that configuration);
* docs/ARCHITECTURE.md:196, 206 and 212 have the breaker open and close on
  "Failures > Threshold", "Successes > Threshold" and when failures "exceeded
  threshold"; circuitbreaker.go:118 and 131 compare with `>=`, so a transition
  comes with the outcome that reaches the threshold. `CircuitPolicy` follows the
  code;
* "Automatic fallback when no healthy endpoints" (docs/ARCHITECTURE.md:148):
  NextWithFallback is called by no code outside its tests; with all flags down a
  request fails with ErrNoHealthyEndpoints;
* "Request ID echoed back" (api/proto/rpc/v1/rpc.proto:57): on a hit Call returns
  the stored body with the id of the request that filled the cache;
* "Parameters as JSON bytes" (api/proto/rpc/v1/rpc.proto:41) are what Call keys the
  cache by, but the node is asked about what decoding and encoding
  leaves of them: an HTTP client that asks about 2^53 + 1 may be served the
  answer about 2^53 that a gRPC client's call stored;
* "Automatic reconnection with exponential backoff" (CHANGELOG.md:21): the waits
  of forwardFromBackend grow linearly;
* "hot config reload" (README.md:5): main does not start the watcher;
* docs/ARCHITECTURE.md:139-141 lets weights 10, 5, 5 serve rounds 1-10, 11-15 and
  16-20, but Next increments the counter before using it, so the first
  endpoint's turn 0 comes last (rounds 1-9 and 20);
* "Tracks highest known block" (docs/ARCHITECTURE.md:130): UpdateHighestBlock
  also stores a lower height, and 0 if every check of a round failed;
* the health criteria of docs/ARCHITECTURE.md:183-186 hold of a node that answers
  in time with block 0, but height 0 doubles as the failure code of checkAll,
  and the node is marked unhealthy;
* "Each IP address has a bucket that fills at `requests_per_second` rate"
  (docs/CONFIGURATION.md:78): a bucket that takes more than ten minutes to fill
  is dropped by cleanup before it is full, and created again full.

The violated ones are disagreements between code and documentation; each is a
finding in `PROJECT.json` that quotes the line. Every property of a passing run
has a mutant: a plausible slip in the modelled code under which TLC reports
the property violated.

Bounds, and why they suffice for the cases that matter:

* `breaker`: four callers against two half-open slots and three failures to
  open, so that a whole half-open period can pass while two outcomes from
  before it are still to come. State space finite without a bound.
* `balancer`: weights 2 and 1, the smallest in which a share is not one turn
  each; `IntMax` 7 takes the counter through negative values, zero and every
  remainder, and has rounds that start at every value; `MaxTally` 5 covers one
  whole round of three with both callers under way. Weights of zero are in the
  model but not in this instance.
* `checker`: heights from -1 to 2 with lag 1 give endpoints at, within and beyond
  the lag; 0 and a negative height are included. Heads move between these for
  ever, by any distance, so that a round's probes can see different heads in
  every round. That matters to Recovers: a node whose head is within the lag of
  every other at every instant can still be judged lagging in every round, if it
  is asked early, another late, and blocks come in between. TLC shows that when
  the heads take the place of `Contributes` in `Fit`, and it is a weakness of a
  lag that is small against the duration of a probe. So Recovers is about nodes
  whose contributions to the rounds (the answer once it is given, the head
  before) are within the lag.
* `chain_failover`: the smallest instance in which a retry has somewhere to go.
  Thresholds 1 make breakers open, half-open and close as often as they can.
  `chain_recovery`: thresholds 2 for which a single request is not enough, on one
  endpoint, where nothing else can save a request. It has no symmetry, as it
  checks liveness.
* `limits`: one key, since keys share nothing but the sweep (the theorems about
  the bucket are for any number), costs 1 and 2 against capacity 2, `IdleLimit`
  just enough for FullWhenDropped; a window of four ticks and rate 2, the
  smallest in which the estimate lets a stretch of one window admit more than
  the rate (3 requests: SlidingBound is attained); two requests at a time, so
  that BunchBound is attained too.
* `pool`: three clients for two places, so that one waits while others return,
  remove and expire; `IdleTimeout` 1 below `MaxLifetime` 2, so that connections
  become too old while in use, while idle, and both. Three identities suffice:
  one is free again as soon as its connection is closed and forgotten.
* `cache`: two clients are enough for any overlap of accesses and for a delete
  that hits a newer entry; the same method on two chains, and a method that is
  not cacheable. `TTL` 1 and `MaxDelay` 1 let entries expire, and be stored late,
  at every point of a request.

* `session`: two connections, enough for an old one that is still referred to and
  its successor, and for one that is lost while open; OneBackend is about the
  second. Two reconnects tell the last failure from the others. `session_leak`
  uses three.
* `watcher`: three changes, one more than the reloads that may begin after Stop,
  and enough for one to come before, during or after the reload of another; a
  timer's goroutine and a caller, so that a reload is overtaken (what a caller
  may do at any time, another timer's goroutine does at some); two callbacks, so
  that one is registered while the other is told. LateReloads is attained: the
  timer runs down after Stop has returned, and then the one that the loop
  starts for the event it had in hand.

Fairness, with the code's reason:

* a call that was started ends: the HTTP clients have a timeout, so
  RecordSuccess or RecordFailure, SendFails or Respond, CheckEndpoint are weakly fair;
* timers fire: the clock, the tickers of checker and cleanup and the backoff
  timer are weakly fair;
* callers keep coming (`Allow`, `Begin` weakly fair) for LeavesHalfOpen and
  ServiceRecovers, which are about a breaker under traffic and say nothing
  without it;
* `Return` of the checker is strongly fair: with ticker and context both ready,
  Go's select chooses at random, so it does not choose the ticker for ever;
* both goroutines of a session are scheduled; dials have a handshake timeout and
  writes to the client a deadline. A read is not forced to return unless it can
  only fail (deadline passed, connection dropped or closed), and a write without
  a deadline is not forced to return from a stalled backend;
* the watch loop is scheduled, the debounce timer runs down, reloads and their
  callbacks return, and Stop, once called, gets to its second half. A file that
  changes every half second for ever would postpone the reload for ever; the
  model bounds the changes.

That HTTP clients have a timeout presupposes `health_check.timeout`: the loader
sets no default for it, and zero means no timeout (an interval of zero would
make the checker's ticker panic at start).

Nodes never have to change, nobody has to cancel, and Reset and Stop are never
forced.

Deadlock checking is off for `session` and `watcher`: a session ends, and the
process may (panic in the backend goroutine; panic in Load); after the last change
and Stop a watcher has nothing to do. It is on in every other run and reports
nothing: time, nodes and new
callers always have a step; a process that the runtime has ended (`fatal`) is
given a step that changes nothing.

## 4. Proofs

All theorems hold for every value of the constants allowed by the ASSUME of the
component (positive thresholds, finite non-empty set of endpoints, and so on;
these are what the constructors enforce or what a configuration must contain; callers
and requests under way are finitely many where they are counted).

Each argument is an inductive invariant from which the properties follow; those
behind the properties of a run were checked by TLC before they were proved. The
theorems that bound the steps of a call, a request, a round or a session use a
measure on top of it.

**EndpointProofs, the breaker.**
`TypeCorrect`, `NeverWedged` and `Refinement` (ImplementsPolicy), for any number
of callers. TypeOK is not inductive: RecordFailure of a closed breaker at its
threshold would leave the range. The invariant IInv adds CountersFresh (outside
half-open the period counters are zero; a closed breaker is below the threshold)
and SlotsAccounted (slots taken are successes counted plus calls in flight, at
most). NeverWedged assumes `SuccessThreshold <= HalfOpenMaxRequests`: if all
slots are taken and fewer successes than the threshold are counted, a call is in
flight. The assumption is needed: see the first of the smaller disagreements.
The refinement takes IInv and shows, action by action, that a step is a step
of CircuitPolicy or a stutter under the mapping in `CircuitBreaker`.

**EndpointProofs, the checker.** `CheckerTypeCorrect` and `LagIsRespected`.
LagRespected speaks of the time between rounds only. Inside a round the
invariant must say what has been settled: no answer is applied before all are in
(CollectedFirst), flags already treated agree with this round's answers
(AppliedAgree), and after the round highestBlock is their maximum
(PublishedAgrees). A request that clears a flag cannot hurt any of them (lemma
FlagsDown). MaxOfHeights shows that `Max` is defined on bounded sets of heights.
`RoundsAreBounded`: a round takes two steps for each endpoint and one to publish,
and nothing around it adds any; StopReturns, Recovers and Evicted rest on that.

**LoadBalancerProofs.** `TypeCorrect`, `PicksAreHealthy` (PickWasHealthy) and
`FailuresAreJustified` (FailureJustified), for any list of weights (zero
included), width of the counter and number of callers. The properties speak of
finished calls; the invariant adds what the scans under way have found:
SeenNow (the history of an active call has the flags of this instant, so what a
load reads now is in it) and ScansJustified (a first scan whose total is still
zero met nothing but endpoints that were down or weigh nothing, a third scan
nothing but endpoints that were down, and only NextWithFallback goes on after
it). TypeCorrect includes that no call divides by a total of zero.

`RoundsAreFair` (FairShare) takes more. Sums of weights and of selections are
cardinalities of sets of turns (`Turns`), so that they need no induction. The
weights of the healthy endpoints divide a round into places (lemma Places), each
with one owner (OneOwner). The invariant Fair says of an undisturbed state that
the locals of every call agree with the flags of now (Agrees: in particular no
call is in its third scan, and a call that gave up did so in a round without
places), and that there is a value of the counter, Since, from which on the turns
drawn are those counted plus those of calls between their draw and their return,
in all and for each owner. Both parts are needed at once: a call adds to the
tally of the owner of its turn only because its locals agree. When nobody is
under way and a round's worth is counted, the counter has passed as many
successive numbers as the round has places, and these have each remainder once
(FullRound). The conditions, no flip and no negative counter, are those under
which a measurement counts as undisturbed in the model; the callers are assumed
to be finitely many.

`NextAsChainAssumes` is the link to `Chain`, which represents a call of Next by
reads of single flags: a call ends with an endpoint whose flag it reads as up in
that step, or with an error after every endpoint with a weight was down, and in
no other way. `CallsAreWaitFree` (WaitFree): every step of a call lowers the number of
accesses it has left, at most `3n + 2` for n endpoints, and nobody else changes
it.

**ChainProofs.** `OneOutcomePerCall` (BreakersUsedProperly) for any endpoints and
requests: seen from one endpoint, every step of every request is a step of the
breaker with its callers as `CircuitBreaker` has it, or a stutter, so what
EndpointProofs proves of one breaker with any callers applies to each endpoint's.
`FailoverSucceeds` (Failover) for any endpoints, requests and number of retries.
The argument is a count, and other requests take part in it: EachTookOneOut says
that a request in its n-th retry has n endpoints out of the rotation, not
counting the one it is trying, which was in the rotation when it was picked
and which somebody else may have taken out meanwhile; Spared says that an
endpoint that was fit throughout was never read as down and never failed. A
last failure would then need as many endpoints down as there are others, and one
more. EachTookOneOut holds only while no verdict puts an endpoint back and the
caller does not cancel: these are the property's conditions, and it is where
they are needed.
`RequestsAreBounded` is what Terminates rests on: a measure of the work a request
has left, attempts times what an attempt can take plus the stage of this one,
goes down with each step of the request and with no other, so that a request
takes at most `(MaxRetries + 1) * (n + 5)` steps of its own. It needs that a
request backs off only with an attempt left and never looks for an endpoint when
it has read them all (WithinRetries). What remains to the fairness is that the
request gets its steps.

**LimiterProofs.** About the bucket by itself: `TypeCorrect`; `RateLimited` and
`Refinement` (ImplementsMeter) under FullWhenDropped, `Rate * (IdleLimit + 1) >=
Burst`. The invariant Balanced says that credit and excess of a key add up to at
most Burst: a grant moves units from one to the other, a tick adds Rate to the
one and takes it from the other, and dropping a bucket that is full changes
neither. Without the condition RateBound fails: see the last of the smaller
disagreements above. `Composition` shows that every behaviour of MultiLimiter is
one of `TokenBucket` and one of `SlidingWindow`; with it `GlobalLimited` takes the
bucket's results over, and `WindowLimited` (SlidingBound) is proved of the
window by itself. Its invariant Covered relates the record's two counts to the
truth: the current count covers what was admitted since the window began,
both together what was admitted in a window's time, and the estimate of the
counts, at the phase of now, is within the rate; the bound follows by
arithmetic. `BunchingBounded` (BunchBound) adds Bunched: what was admitted, plus
what requests between the two checks may still get, is what was paid for plus one
for each request; `One * InFlight` moves with each request that is asked for.

**ConnectionPoolProofs.** `TypeCorrect`, `LentOnce` (Exclusive), `HeldStaysOpen` (HeldIsOpen),
`NothingLost` (NoLeak) and `WithinCapacity`, for any clients, limits and set of
identities. Exclusive is not inductive: that what Get lends is not held already
follows from HeldIsOpen (a held connection is marked in use) while the pool is
open. IInv is the conjunction of these with the bound on the list itself, from
which Capacity follows by NoLeak.

**ResponseCacheProofs.** `TypeCorrect`, `HitsMatch` (HitAnswersQuery) and
`HitsFresh` (HitIsRecent). A hit copies an entry, so IInv adds EntriesGood: an
entry that can be hit answers the query of its key, and its age is at most its
time in the cache plus MaxDelay; and InFlightGood, the same of a body on its way
to Set. A tick adds one to the age and takes one from the time left, so the
bound is kept exactly. "Answers" means: is among what HandleRPC and Call may
make of the query, both arbitrary. That another query's Set cannot spoil an entry
is KeyOfQuery: two cacheable queries with one key have the same chain and method,
since otherwise their beginnings diverge (CacheConfig), and then the same
parameters, since the rests of equal sequences after equal beginnings are equal.

**SessionProofs.** `TypeCorrect`, `NoNilUse` (NilSafe) and `NothingAstray`
(OneBackend), for any set of connections and number of reconnects. ClientKnows
and BackendKnows say what each goroutine relies on at each of its places: that
the field is not nil, that it still is what was loaded, that it was closed, that
it is nil. While `torn` is false both are right, no fault has happened and
nothing but the field is open. A step keeps its own goroutine's knowledge by the
code, and the other's because it would have set `torn` otherwise (lemmas
ClientSound and BackendSound): the two properties need each other, since a
connection stays in the field only as long as nobody overwrites it.
`SilentSessionsEnd` and `ClosedSessionsDrain` are measures behind Ends and Drains:
after the read deadline the client goroutine is at most 15 steps from its end,
after Close the backend goroutine `MaxReconnects + 9` from its own, or the process
is. Unlike the other two they hold of sessions whose goroutines cut into each
other. They do not say that a step can be taken: a write without a deadline to
a stalled backend, and a read of a connection that the field lost, may wait for
ever, and are the exceptions that Ends and Drains name.

**ConfigWatcherProofs.** `TypeCorrect`, `NoChangeLost` (UpToDate),
`CallbacksInformed` (Informed), `NoStepBack` (NeverBack) and `FewLateReloads`
(LateReloads), for any number of changes, timers, callers and callbacks. Coming says that a valid content that
is not installed is on its way, as an event, in the timer, in a reload that has
not read the file, or in one that has read this content; Newer that what waits to
be installed is not older than what is installed; Told what every callback was
last given, in the middle of a round of calls too. Remembered links the history
to the state: without overlap a reload between its load and its end is alone.
FewLateReloads counts what can still start a reload: once Stop has returned there
are no events, a timer that runs down is gone, and a new one takes the event in
hand (Counted).

Only model-checked: everything that depends on fairness (LeavesHalfOpen,
both Recovers, Evicted, StopReturns, Terminates, ServiceRecovers, Reclaimed,
Available, NotLockedOut, Ends, Drains, Applied), which is beyond
TLAPS's backends here, as are ENABLED and induction over data. The two violated
properties are refuted by TLC on one instance, which is enough. Every invariant,
action property and refinement that a passing run checks is proved.

## 5. Not modelled

Listed with reasons as components in `PROJECT.json`: logging, CORS and panic
recovery (stateless wrappers), Prometheus metrics (never read back), TLS
configuration and YAML decoding (pure I/O), the Redis cache (constructed nowhere),
the statistics of an endpoint (latency, counters, last error: read only by status
pages), the generated gRPC code, and the assembly in `main`. Shutdown is three
calls in a row; that GracefulStop waits for open streams without a deadline is
the library's documented behaviour. `StartPinger` of a session is called by
nothing, so a session whose client sends nothing, or only listens, ends when its
read deadline of `PongTimeout` passes; the model has that deadline.

## 6. Plan

1. An abstract cache (every hit an answer the chain gave within the TTL and one
   forward) that `ResponseCache` implements while accesses do not overlap, as a
   refinement with its proof.
2. A single specification of `LoadBalancer` and `Chain` together, so that
   NextAsChainAssumes becomes a refinement step by step: a call of Next by a
   request is a sequence of NextReadsDown steps and one NextReturns.
