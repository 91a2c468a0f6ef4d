# Verification of distlimit

TLA+ models of distlimit, a rate limiting library for Go: middleware that takes the client's
address as the key, a limiter that evaluates requests with one of five strategies, and a
storage driver in memory, on Redis, or on both behind a circuit breaker. TLC checks the
models on small instances; TLAPS proves the central facts for every value of the constants.
Line numbers refer to the files under `src/`.

## The system

| Part | State | Operations | What makes it correct |
| --- | --- | --- | --- |
| Hybrid driver, `driver/hybrid` | four atomics: `isDown`, `lastFailUnix`, `probingActive`, `fallbackCount` | `Allow`, `Reset`, `Close`, readers | one probe at a time, only a passed probe closes the breaker, cool-off between probes, it settles on the primary's state, one report per outage |
| Memory driver, `driver/memory` | 64 locked shards of entries, janitor, ticker, `done` | `Allow`, `Reset`, `Close`, `cleanup` | evaluation under the lock, eviction that nobody notices, a janitor that ends |
| Strategies, `algorithm/*` | `State` of one key in memory, or a few Redis keys | `EvaluateMemory`, the Lua script | admits exactly the documented quota; `Remaining` and `ResetIn` are true |
| Redis driver, `driver/redis` | keys with expiry in Redis | `Allow`, `Reset` | the same quota for all processes, whatever their clocks and the order of arrival; no key stays for ever; nobody is locked out |
| Limiter, `distlimit.go`, `policy.go` | atomic policy pointer | `Allow`, `AllowKey`, `UpdatePolicy`, `ResetKey`, `Close` | limit and window of one valid policy, every pass taken from a quota |
| Observers, `metrics/*` | counters of client libraries | `Observe` | each request counted once, under the right status |
| Middleware, `middleware/*` | none | one handler per framework | an outage turns nobody away, and a request passes unlimited only after the fallback was asked and gave no answer |
| Client address, `internal/xff` | none | `ClientIP` | a client cannot choose its key |

The middleware extracts a key (through `ClientIP` by default) and calls the limiter. The
limiter loads its policy, lets a resolver override it, calls the driver with limit, window
and strategy, and hands an event to the observer. The hybrid driver calls its primary
(Redis) or its fallback (memory); the memory driver calls the strategy under a shard's
lock; the Redis driver ships the strategy's script. All of it is called by many goroutines
at once, and they share nothing else than atomics, shard locks and the Redis server.

What is hard: the hybrid driver takes decisions over several atomics with steps of other
callers in between, on instants that may be stale; answers of the primary arrive late, fail
after taking effect, or fail because a caller gave up; the memory driver reads the clock
before it locks, so evaluations run out of time order; the janitor and Redis' expiry forget
keys; the scripts trust the callers' clocks, and the client library may send one twice.
`PROJECT.json` lists each of these hazards with its line and with the properties that cover
it, or why none does.

## Modules

| Module | Models | Correspondence |
| --- | --- | --- |
| `CircuitBreaker` | what the breaker promises | no code: `open`, and a test of the primary per caller |
| `HybridDriver` | `hybrid.go` | a variable per atomic; `pc` says which statement a goroutine runs next, `stamp` is the instant it holds in a local; one action per atomic operation, clock reading and driver call |
| `HybridHistory` | `HybridDriver` with history variables | events the driver does not record: openings, failed probes, reports, delegated calls; the newest instant that `lastFailUnix` has held, and which callers read it when it was not in doubt |
| `Algorithm` | `algorithm/interface.go` | `State`, `Result`, `Truncate`, the clamps |
| `FixedWindow`, `SlidingCounter`, `SlidingLog`, `TokenBucket`, `LeakyBucket` | the five strategies | `EvaluateMemory`: from (now, state, limit, window) to the new state and the result; `RedisScript`: from a keyspace and the script's arguments to the new keyspace and the reply |
| `MemoryDriver` | `memory.go` | `Enter` is `Allow` up to the lock (clock reading included), `EvaluateLocked` what runs under it; `BeginCleanup`, `CleanShard`, `StopJanitor` are the janitor |
| `Redis` | the Redis commands of the scripts (external) | a function from names to values with expiry |
| `RedisDriver` | `redis.go` | `Send` is `Allow` up to `Eval`; `Execute`, `Repeat`, `Lose` are what can become of the request; `Tick` expires keys |
| `Quota` | what each strategy documents | no code: from the log of the admissions alone, whether one more is due |
| `QuotaHistory`, `RedisHistory` | the two drivers with that log | `admitted`; for Redis also `horizon`, `orderly`, `lastGrant`, `rewound` |
| `Limiter` | `distlimit.go` over `HybridDriver` | the locals of each `AllowKey` in `request`; `LoadPolicy`, `CallDriver`, `InDriver` (a step of the hybrid driver and what it means for the request), `Observe` |
| `Middleware` | the handlers of the adapters | `Serve`, `TurnAway`. The six adapters share one flow. `Handle` is mapped to the `net/http` handler as a whole, the decision and the answers to the gRPC interceptors, where they stand together; both stand for all six |
| `ServiceHistory` | the service behind the middleware | the ledger of requests passed, refused, failed open, and of lost admissions |
| `ClientAddress` | `xff.go` and the adapters' `ExtractClientIP` | `ClientIP` as an operator; the actions are the machines that relay a request |
| `HybridDriverProofs`, `HybridHistoryProofs`, `ServiceProofs`, `RedisProofs`, `RedisHistoryProofs`, `MemoryProofs`, `ClientAddressProofs`, `CountingLemmas` | | the TLAPS proofs, below |
| `MC...` | | policies, clock errors, trusted lists, symmetry sets, the assignment of keys to shards |

`MemoryDriver` and `RedisDriver` compose with the strategies, `Limiter` and `Middleware`
with `HybridDriver`. Operators named as mutants in the modules are plausible bugs: each
property is broken by one of them when it takes the place of the definition after it.

### Abstractions

* Hybrid driver: time is relative. A stored instant is kept as its age, capped at
  `CoolOff`; the zero value of `lastFailUnix` is such an expired age. The code only compares
  ages with the cool-off, so nothing is lost and the graph is finite without a clock bound.
  The clock only moves forward (a wall clock that is set back is a listed hazard). The key
  and its states are reduced to which tiers hold an entry. `Name`, `IsPrimaryDown` and
  `FallbackCount` only read; `Close` passes on to both drivers. `onError` is taken to be set
  and to return.
* Memory driver: what runs under a shard's mutex is one step, since nothing else reads or
  writes that shard meanwhile; the wait for the lock is the gap between `Enter` and
  `EvaluateLocked`, at most `MaxDelay`. The code sets no limit to that wait: `MaxDelay` is a
  bound, and a property that depends on it says so. `BeginCleanup` merges the receive of a tick with the clock reading of
  `cleanup`. The hash is any function from keys to shards.
* Strategies: a tick is the clock's resolution, `Milli` ticks are a millisecond. Token
  counts are exact multiples of 1/`TokenUnit`; floating point rounding is not modelled, the
  conversions to whole ticks, milliseconds and tokens are. The branch for a window of zero
  or less is left out: the limiter passes none (`distlimit.go:130-184`, `203-206`). The
  reallocation of the log's array changes no timestamp.
* Redis: a script is one step, as Redis runs it; a tick is a millisecond. The server has a
  clock of its own, by which keys expire, and each caller reads one that is off by a member
  of `ClockErrors`, at most `MaxDelay` before the script runs. `Repeat` is the retry of the
  client library go-redis after a lost answer: the same arguments again. A key is
  a triple of rate limit key, part and window number. The script's reply always parses;
  an error reply is `Lose`.
* Limiter: one key in one window, where each strategy is a count of what a tier has admitted
  against the limit that came with the request. That a strategy is such a count is what
  `VerdictIsQuota` checks. A window of another length is only a different policy here.
* Client address: a header is a sequence of lines of entries, an entry a host with or
  without a port, a host an address, malformed or empty. A CIDR block is the set of
  addresses that it matches. The syntax of IPs, brackets and blocks is not modelled.

## Checks

| Run | Shows | Bounds |
| --- | --- | --- |
| `HybridSafety` | probes exclude each other and the flag never leaks; the driver implements `CircuitBreaker`; one report per opening; `FallbackCount` is exact, also when it wraps; a probe before the end of the cool-off has one of three causes | 3 callers, cool-off of 1 tick, counter modulo 2 |
| `HybridLiveness` | the breaker ends up closed once the primary stays healthy, and open once it stays down | 3 callers, 1 resetting goroutine |
| `HybridCoolOff` (violated) | a probe may start without any cool-off | 2 callers |
| `MemorySequential` | every strategy admits exactly its documented quota, across evictions, resets and clock steps between reading and lock | 1 caller, 5 calls, window 3, TTL of two windows |
| `MemoryConcurrent` | well-formed entries, truthful `Remaining` and `ResetIn`, bucket bound, a sliding log that is too strict by no more than calls are late, with evaluations out of time order and evictions | 2 callers, 5 calls, limit 2 per window of 2, up to 2 late, TTL 6, two ticks to the millisecond |
| `JanitorLiveness` | `Close` ends the janitor, whatever it is doing | 2 keys in 2 shards |
| `FixedWindowConcurrent` (violated) | a late call resets the window's counter; more than the limit passes | 2 callers, 3 calls |
| `RedisFaults` | under every script: keys expire; `Remaining` and `ResetIn` are true; orderly requests get exactly the documented quota; others neither overdraw a bucket, nor lose a log entry, nor lock a key out | 2 callers with clocks 0 or 1 ms ahead, requests up to 1 ms late, repeated or lost, resets; 4 requests, limit 2 per 3 ms, 8 ms |
| `RedisPolicyLockout` (violated) | a change to a longer window can refuse a key for ever | 1 caller, windows of 2 and 4 ms |
| `RedisResetKeepsWindow` (violated) | a reset leaves the fixed window's counter | 1 caller, 3 calls |
| `ServiceSafety` | only valid policies reach the driver; every pass is paid for by one tier; each request is observed once; outages turn nobody away; the middleware fails open only after the fallback | 2 callers, 4 requests, limits 1 and 2, invalid policies and resolver answers among them |
| `ClientAddresses` | the key is the last machine on the way that is not trusted | 2 clients, 2 proxies, up to 2 forged entries and 2 relays |

Three callers suffice for the breaker's hazards: one that trips it, one that probes, and
one that acts on what it read before. A cool-off of one tick tells expired from fresh; the
violation run uses two. In `MemorySequential` the TTL is twice the window, the least for
which an eviction cannot be noticed by the sliding counter (one window is enough for the
others): the default TTL of five minutes is safe for windows up to two and a half minutes.
A late call can set `lastAccess` back by `MaxDelay` and have a key in use evicted while
another late call still brings an instant before the eviction, so the buckets keep their
bound only if the TTL exceeds the window by twice the delay (a theorem below).
`MemoryConcurrent` has a TTL of exactly that; with half of it TLC finds `BucketBound`
violated. `RetryIsAdmitted` grants the one tick to
which `ResetIn` is cut; the sliding counter needs it too, as the previous window still
weighs in full at the very boundary (`Grace` in the Redis version).

In `RedisFaults` eight milliseconds are two windows and what a key lives after its last
use; the run starts at 5 ms, so that the windows are numbered from one on, as they are in
Unix time. Its properties say on what they depend:

* `VerdictIsQuota` holds of a key whose requests ran in the order of their readings and
  within a millisecond of them (`orderly`), with lost answers, repeats and expiry. Beyond
  that the fixed window can expire before its last request arrives, and a log or counter that
  saw a later reading no longer answers for an earlier one. A reset of a fixed window is
  excluded too, see `RedisResetKeepsWindow`.
* `BucketBound` counts a stretch of time again each time the readings go back over it
  (`rewound`): the scripts set `last_updated` to the caller's reading even when that is an
  earlier one, and credit the time once more. So the property bounds that excess, and does
  not forbid it. The buckets in memory do not rewind.
* `RefusalHasCause` allows the causing admission to lie back a window, for the sliding
  counter two, plus delay and clock differences (`Reach`). `RetryIsAdmitted` excepts a
  reading older than one the key has seen. `RemainingIsTrue` and `LogIsComplete` have no
  such condition.

In `ServiceSafety` two callers are enough to have one request fail in a tier while another
changes the breaker's state; nothing resets the key, since a reset gives quota back. In
`ClientAddresses` two relays give every order of a trusted and another machine. That run
does not check deadlock: the way of a request ends. The others do.

### Fairness

`HybridDriver!FairSpec`: each caller's next statement is eventually run (the Go scheduler),
which includes that driver calls return, so callers must pass a context with a deadline; a
probe that hangs keeps the breaker open for ever. New calls keep arriving, since only
traffic probes; the clock moves. Contexts do not end in this run: callers that all give up
would keep the breaker open. Nothing is assumed of outages and resets.
`MemoryDriver!FairSpec`: the janitor goroutine is scheduled. The other runs check safety
and assume no fairness.

### What the violated runs say

* `HybridCoolOff`: `isDown` is set before `lastFailUnix`, and the cool-off is not checked
  again after `probingActive` is won. Mutual exclusion of probes still holds (proved), so a
  recovering primary sees at most one early probe at a time. An early probe has one of
  three causes, and no other (`InformedProbesWait`, proved): the prober read `lastFailUnix`
  while the instant of an opening or of a failed probe was still to be stored, as between
  lines 110 and 111; it read an instant that a slow store, its clock read before another's
  store, had put over a newer one; or the breaker opened or a probe failed after it had read.
* `FixedWindowConcurrent`: `memory.go:86` reads the clock before line 88 locks, and the
  fixed window takes an earlier boundary for a new window. The buckets ignore such late
  instants and keep their bound.
* `RedisPolicyLockout`: the sliding counter's script compares window numbers, but a number
  means another instant under another window length. After `UpdatePolicy`, or a resolver,
  lengthens the window of a key the stored number lies in the future, the count is
  never cleared, and each refused request renews the expiry.
* `RedisResetKeepsWindow`: `Reset` deletes the plain key and its sequence key, while the
  fixed window counts under `<key>:<window>`.

Met as well, without a run:

* Callers that lose the swap at `hybrid.go:110` do not report their error, which line 41
  promises for every error and `CHANGELOG.md:42` limits to one per outage
  (`OneReportPerOutage` shows the latter).
* `Reset` of the hybrid driver during an outage leaves the primary's entry
  (`hybrid.go:134` promises both tiers).
* A TTL below the window forgets a used-up quota; `New` accepts it.
* In memory the order of clock and lock also leaves the sliding log unsorted, and the trim
  (`slidinglog.go:34`) stops at the first live timestamp: an expired one behind it still
  counts, and a request is refused although the window has room. What is counted in excess
  is older than the window by no more than a call was held up, and a full window admits
  nobody (`LogIsPrecise`, proved).
* `slidinglog.go:30` cuts a window below a millisecond to none, and the log never refuses;
  `New`, `UpdatePolicy` and a resolver let such a window through.
* In Redis the key of a fixed window lives a window from its first request by Redis' clock
  (`fixedwindow.go:81`), and is named by the callers'. A request that read its clock in the
  window and runs after that counts from one again.
* `tokenbucket.go:99` and `leakybucket.go:101` take over an earlier reading as
  `last_updated`, even for a request that they refuse, and credit the time since once more.

## Proofs

All theorems hold for any values of the constants that satisfy the assumptions that the
modules name: `HybridAssumption` (callers and resetting goroutines are disjoint),
`FiniteCallers`, `LimiterAssumption` (limits and windows are numbers),
`AlgorithmAssumption`, `MemoryAssumption` and `RedisAssumption` (positive limits, token
units that divide evenly, windows numbered from one). TLC evaluates them on each run.

`HybridDriverProofs`:

* `TypeCorrect`: `Spec => []TypeOK`.
* `ProbesExclude`: `Spec => []SingleProbe`. With `TypeOK` it is inductive: entering the
  section needs `~probingActive`, hence an empty section; leaving it clears the flag, and
  the one caller inside was the only one. The equivalence of flag and section is needed:
  mutual exclusion alone is not inductive.
* `Implements`: `Spec => ImplementsBreaker`. The mapping reads a caller's test off its
  program point. A won `casProbing` is `Begin`, whose guard follows from `SingleProbe`;
  `setUp` is `Apply`, the only step that closes; every other step stutters or is `Trip`,
  `Pass`, `Fail`, `End`.

`HybridHistoryProofs`, over the same driver with its history. `CallerTransitions` says once
how each statement moves one caller and leaves the others; the theorems use only that:

* `OutagesAreReportedOnce`: `HistorySpec => []OneReportPerOutage`. `ReportInv` adds that a
  tripper is on its way from the won swap to `onError`, so an opening adds one member to a
  set that did not have it and a report removes one that was there.
* `FallbacksAreCounted`: `HistorySpec => []FallbackAccounting`. `CountInv` adds the type of
  `delegated`; the sums modulo `CountMod` rest on `WrappedSum` of `CountingLemmas`.
* `EarlyProbesHaveACause`: `HistorySpec => InformedProbesWait`. `WaitInv` has two parts.
  `Accounted`: the newest instant that `lastFailUnix` has held is no older than the last
  opening and the last failed probe, unless a caller is on its way that will store the
  instant of one. So a caller that reads the newest instant while none is on its way holds
  an age no greater than that of either event. `Knows`: it keeps this until it has checked
  it, and then both events are past the cool-off, unless another opening or failed probe
  comes in between.

`ServiceProofs`, over the service behind the middleware:

* `RunsDriver`: `HistorySpec => Spec` of `HybridDriver`: each step of the service is a step
  or a stutter of the driver, so the driver's theorems hold of it in the service.
* `ServiceTypeCorrect`, `RefusedWhenFull`, `FailsOpenAfterFallback`: `ServiceTypeOK`,
  `RefusedOnlyWhenFull`, `FailsOpenLast`. `ServiceInv` adds `Owed`: what a request's place
  in the driver says about its verdict, that a request without verdict beyond the driver has
  asked the fallback, and that a refused one has met a full tier. Counts never fall, so full
  stays full.
* `PassesArePaid` (`EveryPassIsPaid`, with `LedgerInv`) and `ObservedExactlyOnce`
  (`ObservedOnce`, with `EventsInv`) balance counters against the number of callers in some
  state; a step moves one caller (`OneMoves`).

`RedisProofs`, about the driver and its five scripts:

* `RedisKeysExpire`: `Spec => []TypeOK`, no key outlives its last use by more than two
  windows. `RedisInv` adds `Bounded` and that a fixed window's stored count is positive: the
  script sets the expiry only when the count it has reached is one, so an absent key must not
  be mistaken for a stored zero.
* `RedisRemainingIsTrue`: `Spec => []RemainingIsTrue`, for any mix of policies, if
  `ClocksAgree`: `MaxDelay` and the difference of two clocks make at most two windows. A
  lemma per script (`...Tells`) compares two runs at one reading. `TypedInv` adds the types of
  the stored values, and `NumbersInv` that a member of the sliding log has a number taken
  from the counter that is still there, or a reading that no request comes with any more:
  otherwise `ZADD` overwrites a member, and admits without counting, after the counter has
  expired and starts again.

`RedisHistoryProofs`, over `RedisHistory`, with requests delayed, lost, repeated and run in
any order. All five assume `SamePolicy` (`Policies` has at most one member): with two the
sliding counter locks keys out (run `RedisPolicyLockout`), and what a script stores under one
window says nothing under another. `HistoryKeyStep` says once what a step is to one key and
its history; each theorem then has a lemma for a script's run, for a reset and for a tick.

* `RedisRetryIsAdmitted`: `HistorySpec => []RetryIsAdmitted`, for any clocks. `SettledInv`: no
  stored window begins after the latest reading, and what is counted or logged does not
  exceed the limit.
* `RedisBucketsHoldTheirRate`: `HistorySpec => []BucketBound`, if `ClocksAgreeClosely` (as
  `ClocksAgree`, with one window). `BucketInv` is the account of the memory driver's buckets
  with readings for instants and `rewound` added; a key that Redis expired counts as full
  for the earliest reading still to come, and the two windows of its expiry, less what clocks
  and delays take, are the time it needs to fill up.
* `RedisLogIsComplete`: `HistorySpec => []LogIsComplete`, if `ClocksAgree` and
  `NoneIsFarAhead` (no clock is ahead of Redis' by more than a window: the log of a faster
  one expires while it still counts). `LogInv`: beyond any bound from which the log still
  matters it has as many members as there are admissions; it rests on `NumbersInv`.
* `RedisRefusalHasCause`: `HistorySpec => RefusalHasCause`, if `ClocksAreBounded` (one clock is
  the slowest and one the fastest, so that `Reach` has a value). `CauseInv`: what a key holds
  against its requests, be it a count, a member or missing tokens, goes back to its last
  admission; a bucket is full again a window after it.
* `RedisVerdictIsQuota`: `HistorySpec => []VerdictIsQuota`, if `PastTheFirstWindow`: Redis'
  clock is past the first window of each policy, as Unix time is; the sliding counter's
  script takes window number 0 for an absent hash. `QuotaInv` says what the keys of an
  orderly rate limit key say of its log: the counters of the windows still to come are the
  admissions in them, refusals apart (`CountsWindows`, `CountsTwoWindows`), the sorted set
  has as many members beyond each bound as the log (`KeepsWindow`), a bucket holds exactly
  what the log leaves (`HoldsTheRest`: `Fits` bounds it from above and `Tight` says that it
  is reached), and a key that Redis expired was last used two windows ago (`Forgotten`) or
  is full again. Orderly readings never go back and are at most a millisecond behind, so
  nothing is assumed of the clocks. A lemma per script (`...Answers`) carries this over a
  run of it and reads the verdict off it.

The constants of the run `RedisFaults` satisfy each of these assumptions.

`MemoryProofs`, about the memory driver under all five strategies, with one lemma per strategy
about `EvaluateMemory` for each theorem:

* `EntriesStaySound`: `Spec => []TypeOK`. An evaluation at any instant up to the clock leaves a
  `Sound` state `Sound`; `MemoryInv` adds the domains of the two maps.
* `RemainingIsAlwaysTrue`: `Spec => []RemainingIsTrue` if `Window >= Milli`. Of a `Sound`
  state an evaluation announces what the next one at the same instant gets: the second
  evaluation finds the state already brought up to now, since a rotation, a trim, a refill
  or a leak at the same instant changes nothing. A window below a millisecond breaks this:
  the log trims the present.
* `RetryIsAlwaysAdmitted`: `Spec => []RetryIsAdmitted`, without further assumption. `Sound`
  does not suffice: the sliding counter's estimate falls below the limit in the next window
  only if its count is at most the limit and `lastUpdate` is the start of a window, and the
  log has room after its oldest entry expires only if it never exceeded the limit.
  `RegularInv` adds this (`Regular`).
* `BucketsHoldTheirRate`: `HistorySpec => []BucketBound` if `TTL >= Window + 2 * MaxDelay`.
  `BucketInv` bounds every stretch of the log of admissions: what it spent is at most what
  the bucket does not hold now plus what it has gained since the stretch began (`Fits`). A
  key without an entry counts as full at the last instant a late call can still bring, so
  an eviction must leave time for the bucket to fill up: a window since the last access,
  whose stamp may be `MaxDelay` old, up to an instant that may be `MaxDelay` old.
* `VerdictIsAlwaysQuota`: `HistorySpec => []VerdictIsQuota` if `InOrder` (calls come one at a
  time or wait for no lock; else the fixed window admits more, see `FixedWindowConcurrent`)
  and `TTL >= 2 * (Window + MaxDelay)`. `MirrorInv` says that the state of an entry answers
  as its log does at every instant from the last access on: the counters are the admissions
  of the window and of the one before, the timestamps are the log's last ones, and a bucket
  holds exactly what the log leaves (an upper bound, as in `BucketInv`, is not enough: a
  refusal needs the lower one). A key without an entry has been `Idle` for two windows at
  any instant a call can still bring; that is what the time to live is needed for. The run
  `MemorySequential` has calls held up for longer than its TTL, which the theorem does not
  cover and TLC finds to be safe within the run's bounds.

* `LogIsAlwaysPrecise`: `HistorySpec => []LogIsPrecise` if `TTL >= Window + MaxDelay`.
  `LogInv` says that the timestamps of an entry are the end of its log of admissions in whole
  milliseconds, that what stands before them has left the window of every request from now
  on (`EndsTheLog`), and that no admission is earlier by more than `MaxDelay` than one before
  it in the log. So what a trim leaves behind its first live timestamp is older than the
  window by at most `MaxDelay`. An evicted entry was last used so long ago that its whole
  log has left the window.

`ClientAddressProofs`: `KeyIsAnAddress` and `KeyIsAlwaysLastStranger`: `Spec => []TypeOK` and
`Spec => []KeyIsLastStranger` for any trusted list, any clients and proxies and any number
of forged entries and relays. `AddressInv` says that the joined header ends with the machines
of the path but the last one, in order, after `Skipped` entries that the client forged
(`Recorded`), whatever lines the entries are on; the walk from the right then meets the path
itself, and the client, which is a stranger, ends it.

`CountingLemmas` holds what these proofs share: counting over finite sets, products and
quotients, the least index with a property, and the account of a bucket (`Within`: what was
admitted since any entry of the log, with what the bucket holds, is at most its capacity and
the rate's gain; `Exact`: for some entry it is exactly that, or the bucket is full), used
for the buckets in memory and in Redis; the entries of a log beyond a bound (`Later`), how
one more request changes them (`Grown`) and what falls between two windows' starts.

Model-checked only are `Recovery`, `Detection` and `JanitorStops`: liveness under fairness,
out of the prover's reach. Each invariant and each action property of the passing runs is a
theorem, under the assumptions named above.

## What could follow

1. A clock that steps back under the hybrid driver.
2. Two Redis-backed processes with a memory tier each: what a failover admits in total.

## Not modelled

* Limiter: `ResetKey` and `Close` pass on to the driver, whose `Reset` and `Close` are
  modelled; the key function and the default key `"global"`. The event's duration and the
  driver's name in it, which is read after the call.
* Observers: the registration of counters and histograms with client libraries, labels
  other than the status.
* Middleware: header values and the rounding of `Retry-After` to seconds, route labels; in
  Fiber, what one `c.Get` returns for a header of several lines is up to the framework.
* Client address: parsing of addresses, ports and CIDR blocks.
* The programs under `examples/` only use the library.
