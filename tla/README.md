# go-gateway: TLA+ verification project

The repository is an API gateway in Go: it accepts HTTP requests, matches them
to a route, runs the route's plugins, and forwards them to one of the healthy
instances of a service, with retries, circuit breakers, rate limits and hot
reload of its configuration. This project models the parts of it that keep
shared state and run concurrently, checks them with TLC on small instances,
and proves almost all of their safety properties for every value of the
constants with TLAPS.

There is no `main` package in the repository. Components are modelled as their
code is written and as its comments and docs say they are used; where nothing
calls a component yet this is said below.

## 1. Inventory

| Component (source) | State | Operations | Interacts with |
|---|---|---|---|
| Circuit breaker (`pkg/circuitbreaker`) | state, two counters, `openedAt`, behind a mutex | `Allow`, `RecordSuccess`, `RecordFailure` | proxy (one per service, one per instance), Redis limiter |
| Reverse proxy (`internal/proxy/proxy.go`) | locals of a request | `ProxyRequest`, `doRequest` | breakers, registry, balancer, client connection |
| Balancers (`internal/loadbalancer`) | a counter; smart: a map of per-instance in-flight numbers and averages | `Next`, the `done` callback | registry's health flags, breakers (through `isSkipped`) |
| Registry and health checks (`internal/registry`) | service entries, instance status and counters, one goroutine per service | `Register`, `StartForService`, `StopForService`, `checkInstance` | reloader, proxy |
| Config loader (`internal/config/loader.go`, `internal/admin/reload.go`) | current config, debounce timer, subscriber channels | `watch`, `ForceReload`, `fanOut` | file system, admin endpoint, reloader |
| Reloader and runtime (`internal/runtime`) | version counter, atomic runtime pointer, drain goroutines | `applyReload`, `applyServiceDiff`, `Build`, `Swap`, `Close` | loader, registry, requests |
| Server and handler (`internal/server`, `internal/middleware/timeout.go`) | semaphore of request slots, deadline per request, bytes read of a limited body | `loadShed`, `ServeHTTP`, `limitedBodyReader.Read` | runtime, router, plugin chains |
| Redis limiter (`pkg/ratelimit/redis.go`) | breaker, `fallbackMode`, the key's ZSET in Redis | `Allow`, recovery goroutine | Redis, token bucket |
| Token bucket (`pkg/ratelimit/tokenbucket.go`) | `sync.Map` of buckets, sweep goroutine | `Allow`, `sweep`, `Close` | rate limit plugin, Redis limiter |
| Plugin chain, registry, built-in plugins (`internal/plugin`) | ordered plugins of a route | `ExecuteRequest`, `ExecuteResponse`, `Close` | handler, limiters |
| External plugins (`internal/plugin/external`, `sdk`) | breaker and health flag per plugin | `execute`, `applyOnError`, health loop | plugin processes |
| Router (`internal/router`) | three tables, immutable once built | `New`, `Match` | handler, builder |
| JWT, CORS, rate limit plugins (`internal/plugin/builtin`) | none of their own; the user ID of the request | `ExecuteRequest` | chain, limiters |

What is hard in this code, and what would make each part correct:

* **Breakers.** Outcomes arrive from calls that were admitted in an earlier
  state. A breaker must trip exactly on its streak, must not count across
  transitions, and must not stay half open.
* **Retirement of runtimes.** A request holds a raw pointer to a runtime that a
  timer closes. No request may use a closed runtime; none may leak.
* **Proxy.** Two levels of breakers and a retry loop with five ways out. Every
  admission should be answered by an outcome, no request sent more often than
  it may be, and nothing retried after the client has seen a response.
* **Hot reload.** File, watcher, timer, admin request, channel and reloader run
  independently. Nothing unvetted may be served, and the last valid content
  should be served in the end.
* **Registry.** Reloads replace objects that other goroutines hold.
* **Routing.** Routes overlap and come in any order; the best one must win, a
  route that excludes the method must not hide another, and the plugins must run
  in the order they were given, whatever the layout of the file.
* **Balancers.** Feedback is recorded through an unlocked map and two-step
  updates of atomics; counts must stay exact and no instance may starve.
* **Limiters.** The limit must hold when replies are lost, clocks are read
  early and used late, and goroutines race on flags.

Every hazard, with the line where it bites and the properties aimed at it, is
listed in `PROJECT.json` under `hazards`.

## 2. Modules

| Module | Models | Run |
|---|---|---|
| `Breaker` | the breaker's record and each method as a function of it; shared by every module that keeps breakers | - |
| `BreakerContract` | abstract specification of a breaker: who is admitted in which state, which outcome may cause which transition; no counters, no clock | - |
| `CircuitBreaker` | one breaker and concurrent callers that always record | `breaker`, `breaker_wedge` |
| `CircuitBreakerProofs` | theorems about `CircuitBreaker` | TLAPS |
| `RuntimeDrain` | load shedder, handler pipeline, runtime snapshot, swap, drain goroutines, close | `drain` |
| `Proxy`, `MCProxy` | `ProxyRequest` for the concurrent requests of one service | `proxy`, `proxy_retry` |
| `ProxyProofs` | theorems about `Proxy` | TLAPS |
| `ConfigReload` | hot reload from the file to the served runtime | `reload` |
| `ServiceRegistry` | registry, health checkers, balancers, service diff | `registry`, `registry_unchecked` |
| `ReloadProofs` | theorems about `RuntimeDrain`, `ConfigReload` and `ServiceRegistry` | TLAPS |
| `RedisLimiter` | `RedisLimiter.Allow`, the Lua script, fallback mode | `limiters` |
| `TokenBucket` | the in-memory limiter on one key | `limiters` |
| `Limiters` | the limiter of a route: one of the two, by the backend of its config | `limiters` |
| `LimiterProofs` | theorems about `RedisLimiter` and `TokenBucket` | TLAPS |
| `PluginChain` | a route's plugin chain run by concurrent requests, external plugins with breaker, `on_error` policy and health loop | `plugins` |
| `PluginChainProofs` | theorems about `PluginChain` | TLAPS |
| `Builtins` | what the JWT, CORS and rate limit plugins decide about a request, as functions | - |
| `Routing`, `MCRouting` | the router's construction and `Match`, the handler around it, the body limits, a chain of built-in plugins | `routing` |
| `RoutingProofs` | theorems about `Routing` | TLAPS |
| `Balancers`, `MCBalancers` | round robin, random and smart balancer of one service under concurrent requests | `balancers` |
| `BalancersProofs` | theorems about `Balancers` | TLAPS |
| `Sums` | lemmas on sums over finite sets and on least elements, for the proofs | TLAPS |

`CircuitBreaker`, `Proxy` and `RedisLimiter` keep breakers built from the same
operators of `Breaker`, and each is shown to use or implement
`BreakerContract` through a refinement mapping: `ImplementsContract` (the
breaker itself), `BreakerUse` (the limiter records every call it was granted),
`ServiceBreakerUse` and `InstanceBreakerUse` (the proxy may also abandon a call,
`AbandonSpec`). `PluginChain` keeps such breakers too, but not by this contract: its
health loop records outcomes of calls it was never granted, and that is what
keeps these breakers from the wedge that `breaker_wedge` shows.

### How state and actions correspond to the code

* **Breaker.** A method runs under `cb.mu` from start to end, so it is one
  function of the record. `openedAt` is kept as its age in ticks, saturated at
  `ResetTimeout`; the counters saturate at their thresholds, beyond which the
  code never looks. Thresholds are positive (`BreakerAssumption`): `withDefaults`
  replaces zeros; a negative one, which it lets through, is left out.
* **CircuitBreaker.** `Allow(c)`, `RecordSuccess(c)`, `RecordFailure(c)`, one
  action each; a caller may record long after it was admitted. `history` is
  auxiliary: the outcomes since the last change of state.
* **RuntimeDrain.** A request walks `Enter` (slot and deadline), `Snapshot`,
  then `NotFound` (also the 413 return) or `RequestChain`, `Upstream`,
  `ResponseChain`, `Leave`. An aborting plugin skips the proxy and still runs
  the response chain. `Panic` ends the handler anywhere; the deferred receive gives
  the slot back. `Swap` and the start of the sleeping goroutine are one
  action, `Close(v)` the end of that sleep. The upstream call itself is a TODO
  in `handler.go:100`; the model gives it a step. `Tick` is the clock and waits for
  nobody: the deadline of `Timeout` runs down to 0, and a handler may go on after
  it, since the code only cancels the context then.
* **Proxy.** One action per stretch of code between two accesses to shared
  state: the service breaker (`Begin`), the deadline check, the snapshot of
  healthy instances, the filter, which asks one instance's breaker per step
  (`Consider`), the call, the instance's outcome, the service's outcome
  (`Settle`), the backoff. The choice among eligible instances is free, so the
  results hold for every balancer. Contexts move from live to low (less than
  `minRemainingForRetry` left) to expired, or are cancelled. A request has a
  body or none; an attempt that reaches the upstream spends it. `Dispatch` is one
  call of `client.Do`: `http.Client` follows redirects (`proxy.go:187` sets no
  `CheckRedirect`) and its transport may replay a request on a connection that was
  closed, so an upstream can see more requests than the model counts. Both breakers
  exist; the code also takes a nil service breaker or an instance without one, which
  then admits everybody.
* **ConfigReload.** `Edit` is the outside world, in place or by rename;
  `WatchEvent` re-arms the timer, `TimerFires` and `ForceReload` read and
  validate, `Store` and `FanOut` publish, `Receive`, `ServiceDiff` and
  `BuildAndSwap` are `applyReload`. Loads overlap: each of `Loaders` is a goroutine
  between its read of the file and its send. `Start` is the Reloader's: until then
  the file is watched and nobody has subscribed. A config is opaque: it loads or
  not, it builds or not. `overlap` and `dropped` are auxiliary.
* **ServiceRegistry.** A reload makes new `Instance` objects, told apart by a
  generation; a checker keeps the generation it was started with. `Reload` begins a
  diff; `Register`, `StartChecker` (with the balancer) and `StopChecker` are its
  steps, one service at a time, between which checks run. `StartCheck`
  fixes the outcome of a check, `EndCheck` records it later, in any order.
* **RedisLimiter.** The two loads and the store of `fallbackMode`, the breaker
  call, the script, the record of its outcome and the start of the recovery
  goroutine are separate actions. When a call fails the script may or may not have
  run. The ZSET maps a member to the age of its entry; the script never reuses the name of an entry in
  the window, so `Limit + 1` names are enough.
* **TokenBucket.** Reading the clock, `LoadOrStore` and the critical section are
  separate, and so are the sweep's look at a bucket and its `Delete`. Instants
  are ages, so time is unbounded. Tokens are counted in parts of a token.
* **PluginChain.** `Serve`, one step per plugin in the request pass
  (`RunBuiltin`; for an external plugin `CallPlugin` up to the call, then
  `Answered` or `CallFails`), `Upstream`, the same steps in the response pass,
  `Finish`. `Return` is what the chain does with a plugin's error: it aborts in
  the request pass and is ignored in the response pass. `StartCheck` and
  `EndCheck` are one round of the health loop, `Load` and `LoadFails` the
  startup of a plugin. `on_error` may be any string, as nothing validates it; all but
  `reject` and `circuit-break` (`Refusing`) let the request pass. `say` is auxiliary:
  what each plugin really told the request, whatever the chain made of it.
* **Routing.** `Declare` is one round of the loop in `New`, `Finish` its sort,
  which is not stable: prefixes of the same length end up in any order. A sort is
  a choice among the sorted arrangements of a list (`Arrangements`, `ByOrder`), so
  nothing is assumed of the algorithm. `Match`
  is the first candidate that fits; `MatchIsBest` compares it with a definition
  over the declared configs that knows no tables. `Serve`, `RunPlugin`,
  `GoUpstream`, `ReadBody` and `Return` are the handler; the zero-byte read at
  `handler.go:77` has no effect and no step. `MaxBytesRead` is external. Paths
  are sequences of letters, a regular expression is a relation given by the
  instance, and what the validator refuses is excluded by `RoutingAssumption`. So is a
  declared method `""`, which the validator accepts and which `router.go:68,71` puts
  under the key of the routes for any method.
* **Builtins.** A plugin's decision is the status it aborts with, or `Pass`, for
  each class of `Origin` header, token and answer of the limiter. Response passes
  only set headers.
* **Balancers.** `Filter` is `filterEligible`, with any non-empty ascending list
  of instances (`Lists`) as its result;
  one pick action per strategy. The smart balancer's map points into `heap`;
  `GetStateMiss` and `GetStateInsert` are the two halves of an unlocked
  insertion. `Done`, `RecordLatency` and `RecordErrors` are `Record`, split
  between the load and the store of each average. Floating point numbers are
  integers in units of `1 / Scale`, averages are rounded to the nearest.
  `MaxLatency` and `MaxConcurrent` are positive; nothing validates this in the code,
  where 0 gives scores that are NaN. `window` and `outcomes` are auxiliary.

## 3. Runs

Passing runs, each with the bounds that make the interesting cases happen:

| Run | Checks | Bounds and why |
|---|---|---|
| `breaker` | `HalfOpenAccounted`, `NoMissedTrip`, `TransitionsNeedEvidence`, `ImplementsContract`, `OpenIsProbed` | thresholds 3 and 2, timeout 3, four callers: three can trip the breaker while a fourth straggles into the half-open state. The safety part is proved for all values. |
| `drain` | `DrainCoversDeadline`, `OneLifeCycle`, `SlotsAccounted`, `RetiredIsClosed` | three requests for two slots, three reloads so that several runtimes drain at once, timeout and drain window both 2, equal as they are by default. The safety part is proved for all values. |
| `proxy` | `TypeOK`, `SentAtMost`, `ServiceBreakerUse`, `InstanceBreakerUse`, `ProbeLostOnDeadlineOnly`, `StepsAdvance` | two requests, two instances, one retry (the code has two), thresholds 1, so that every breaker opens, probes and closes within a run. Requests and instances are symmetric. All six are proved for all values. |
| `reload` | `ServedIsVetted`, `QuiescentAgreement`, `RegistryAheadOnFailure`, `CurrentUnlessLost`, `ServedUnlessLost` | two good contents, one that fails to build, one that fails to load; three edits (the least that can fill the channel, drop a send and still change the file) in place or by rename, an admin reload, and two loads at a time: two are enough to store in the wrong order. The first three are proved for all values, any number of loads included. |
| `registry` | `CheckersMatchConfig`, `HealthFollowsUpstream` | one service, three reloads: remove, bring back, change. Services share nothing but the order of the diff, for which the proof is for any number. |
| `limiters` | `WindowBound`, `FallbackHasRecovery`, `BreakerUse`, `RateBound` | either backend. Redis: two requests on one key, a limit of two in a window of two ticks, so that entries of different ages leave one by one. Memory: two calls beside a sweep (which the gateway itself never starts), half a token per tick, burst of one and a half tokens, delays up to one tick. The rate is the slowest for which an inactive bucket would be full (`RefillsInTime`, section 4): with a slower one the lazy eviction itself refills faster than the rate. All four are proved for all values. |
| `plugins` | `UpstreamNeedsConsent`, `AbortStopsChain`, `HealthLoopResolves`, `RecoversWithSidecar` | an external plugin before a built-in one, two requests that share its breaker, a policy that is misspelt (an unset one passes as well) or reject, a failure threshold of 1 (the code has 3) and the code's success threshold of 2, which is what makes half open hard to leave. The first two are proved for chains of any length. |
| `routing` | `MatchIsBest`, `BodyWholeOrRefused`, `ChainByOrder` | every list of up to three routes out of eighteen (three match types, two nested paths, three method sets, one in lower case), every request to it; bodies of zero to three bytes against limits of one and two; three chains: limiter after, before and without authentication. Three routes are the least in which one hides a second from a third. All three are proved for all values. |
| `balancers` | `InflightAccounted`, `FeedbackShows`, `WheelIsFair`, `RoundRobinEven` | two goroutines, two instances, every set of instances the balancer was made for, four picks; a counter of size 3, which two does not divide, so that its wrap-around shows; latencies and loads on both sides of the limits, so that scores reach zero; weights of the two averages that differ. All four are proved for all values. |

`MaxReloads`, `MaxVersion`, `MaxEdits`, `MaxAdmin`, `MaxDelay`, `Horizon`,
`MaxRoutes`, `MaxSize` and `MaxPicks` are the named bounds on otherwise unbounded
counters. Deadlock checking is on except for `ConfigReload` and `Balancers`,
whose edits and picks are bounded. `TypeOK` types the variables of most modules; the `proxy`
run checks it because there it bounds the attempts, and a theorem (`TypeCorrect`,
`DrainTypes`, `ConfigTypes`, `RegistryTypes`, `BucketTypes`) proves it for every
module with proofs.

Runs that TLC refutes, each a sentence of a comment against the code:

| Run | Property | What happens |
|---|---|---|
| `breaker_wedge` | `HalfOpenResolves` | With `SuccessThreshold` 2, the default, one good probe leaves the breaker half open; `Allow` refuses everybody, so the second success never comes. |
| `proxy_retry` | `RetryIsClean` | A 502, 503 or 504 is streamed to the client and then retried, and the retry sends a body that the first attempt has read and closed. |
| `registry_unchecked` | `RegisteredIsChecked` | After a reload the running checker still checks the replaced instances. |

Further sentences of the repository that TLC refutes. These configurations are kept
beside the runs; each checks one property of the module and is expected to fail:

| Configuration (module) | Property | The sentence, and what happens |
|---|---|---|
| `CircuitBreaker_straggler.cfg` (`CircuitBreaker`) | `ProbeDecides` | "until the probe resolves via RecordSuccess or RecordFailure" (`circuitbreaker.go:97-98`): the late outcome of a call admitted before the trip ends the probing while the probe is out; a second probe may follow beside the first. |
| `RuntimeDrain_outlived.cfg` (`RuntimeDrain`) | `NoUseAfterClose` | "safe and consistent for its full lifetime" (`handler.go:56-57`): with the timeout and the drain window equal, as by default, a request past its deadline runs its response chain on a runtime that the drain goroutine has closed. |
| `Proxy_service_probe.cfg` (`MCProxy`) | `ServiceProbeHeld` | "until the probe resolves": the holder of the service breaker's probe returns on its deadline (`proxy.go:77`), or a cancelled context (`proxy.go:160`), and records nothing. |
| `Proxy_instance_probe.cfg` (`MCProxy`) | `InstanceProbeHeld` | "until the probe resolves": filtering (`proxy.go:84`) takes the probe of an instance that is then not picked. |
| `ConfigReload_rename.cfg` (`ConfigReload`) | `LoadedCatchesUp` | "Editors often write a temp file then rename it [...] The debounce coalesces these into a single reload" (`loader.go:18-19`): the watch is on the file that the rename replaces, and ends with it (`loader.go:94`). |
| `ConfigReload_overlap.cfg` (`ConfigReload`) | `LoadedCatchesUp` | "On a valid new config, it atomically swaps the pointer" (`loader.go:84`): of two overlapping loads (`loader.go:71,112`) the one that read first stores last. |
| `ConfigReload_dropped.cfg` (`ConfigReload`) | `LatestIsProcessed` | "the subscriber's next read will still process the latest config" (`loader.go:59-60`): the newest config finds the channel full and is dropped; the older one is served. |
| `ServiceRegistry_balancer.cfg` (`ServiceRegistry`) | `BalancerFollowsConfig` | "Update load balancer strategy if changed" (`reloader.go:146`): a service that was random stays random. |
| `RedisLimiter_wedge.cfg` (`RedisLimiter`) | `RedisIsTriedAgain` | "Schedule recovery probe after reset timeout" (`redis.go:126`): the limiter's breaker is wedged as in `breaker_wedge`; Redis is not used again. |
| `TokenBucket_unswept.cfg` (`TokenBucket`) | `InactiveIsSwept` | "Periodic sweep goroutine catches any buckets that are never read again" (`tokenbucket.go:8`): nothing calls `StartSweep`; they are kept for ever. |
| `Routing_limit.cfg` (`MCRouting`) | `BodyAtLimitAccepted` | "ensures MaxBytesReader is respected" (`handler.go:108`): a body of exactly the limit is refused when its end is reported by a read of its own, as a chunked body's is. |
| `Routing_413.cfg` (`MCRouting`) | `OversizedStopsEarly` | "413 before plugin chain runs" (`handler.go:46`): the zero-byte read never fails; a body above the limit passes the plugins and makes the upstream call fail, which `Proxy` charges to both breakers. |

Each of these is delimited from the other side. `HalfOpenResolves` and
`RedisIsTriedAgain` fail by the threshold alone: with `SuccessThreshold` 1 both hold
(the first follows from `NoWedgeWithOneSuccess`, the second passes TLC), and with
`Sweeping = TRUE` so does `InactiveIsSwept`. `HalfOpenAccounted`, `DrainCoversDeadline`,
`ProbeLostOnDeadlineOnly`, `CurrentUnlessLost`, `ServedUnlessLost`,
`QuiescentAgreement`, `CheckersMatchConfig`, `HealthFollowsUpstream` and
`BodyWholeOrRefused` say what is left of the refuted sentence, with the exceptions
named.

### Fairness

Liveness is checked under weak fairness of what the Go runtime does by itself:
goroutines run, timers and tickers fire, time passes, a call with a deadline
ends. `breaker` and `breaker_wedge` also assume that calls keep arriving at the
breaker, `plugins` at the route, and `RedisIsTriedAgain` has as its
hypothesis that requests keep asking the limiter's breaker; without traffic no
breaker moves. `drain` assumes only the clock and the sleeping goroutines, not that
a handler ever returns. Nothing is assumed of the environment: no edits, reloads,
recoveries of an upstream, of a sidecar or of Redis. The return of `ProxyRequest` is shown
without fairness, by a rank that each of its steps lowers (`StepsAdvance`).

## 4. Proofs

`CircuitBreakerProofs` proves, for all thresholds, timeouts and sets of
callers, from `BreakerAssumption` (all three are positive; `withDefaults`
replaces zeros):

* `TypeCorrect`, `ProbeAccounted` (`HalfOpenAccounted`), `TripNeverMissed`
  (`NoMissedTrip`), `EvidenceForTransitions` (`TransitionsNeedEvidence`),
  `ContractImplemented` (`ImplementsContract`), and `NoWedgeWithOneSuccess`: with
  `SuccessThreshold` 1 a half-open breaker always has a call in flight, so the state
  in which `breaker_wedge` ends is never reached.
* `NoMissedTrip` speaks of the history of outcomes, the code of two counters;
  the inductive invariant `Inv` therefore says that in the closed state the
  failure counter is the length of the failing streak at the end of the
  history, up to the threshold, and the same of the successes while half open.
  The lemmas `LatestOutcome` and `RunGrows` say what appending to a bounded
  history does to such a streak.

`ReloadProofs` holds the proofs about hot reload. It extends the three
modules it is about, which is why the specification of `RuntimeDrain` is called
`DrainSpec`, that of `ServiceRegistry` `RegistrySpec`, and so on; only the names of
`ConfigReload` are plain. About `RuntimeDrain`, for any number of requests, slots and
reloads:

* `LifeCycle` (`OneLifeCycle`), `LoadShedding` (`SlotsAccounted`) and
  `DrainTypes`, from the invariant `LifeInv`, which adds that only finitely many
  requests are in the handler, so that their number is a number;
* `DrainSafety`: if `RequestTimeout <= DrainWindow` then `DrainCoversDeadline`. The
  invariant needed (`DrainInv`) is a slack: a request that holds a draining version has
  no more ticks left to its deadline than the drain goroutine has to sleep. It
  holds at the swap because the deadline was set before the snapshot, and ticks
  lower both sides to 0. A request never captured a version yet to come (`Captured`).

The hypothesis of `DrainSafety` is what `loader.go:24` asks for, and the defaults meet
it (30 seconds in `middleware/timeout.go:25` and in `config.DrainWindow`); no
validation relates the two. The theorem says nothing of what a request does after its
deadline, and there the code makes no promise it keeps: see
`NoUseAfterClose` in section 3. For the
built-in plugins this is benign (a closed token bucket still answers, a closed Redis
client makes the limiter fall back).

About `ConfigReload`, for any configs, edits and overlapping loads:
`ConfigTypes`, `OnlyVettedServed` (`ServedIsVetted`), `DriftOnlyOnFailure`
(`RegistryAheadOnFailure`). What is served was once in the hands of a loader or of
the reloader, so `ConfigInv` also vets what these hold (`Vetted`) and says that a reloader
about to build has applied its config (`Diffed`). `NoOvertaking`
(`QuiescentAgreement`) is for any number of loads as well. Its invariant follows the
latest published config (`Tracked`) from the loader that has stored it to the channel, the
reloader and the registry, as long as no send was lost and the load ran alone
(`Alone`: while `overlap` is off at most one load is under way).

About `ServiceRegistry`, for any services, thresholds and number of reloads:

* `RegistryTypes` and `CheckersFollowConfig` (`CheckersMatchConfig`). The two are
  inductive together: a running checker is told from none by its generation, so the
  types have to say that no generation is 0. As the diff goes step by step, the
  invariant also says what it will still do (`Planned`: it registers and starts what is
  configured and stops what is not) and that only a registered service has a checker
  (`NeverAhead`).
* `UncheckedUntilRemoved`, the other side of the violated `RegisteredIsChecked`: once
  a reload has registered a new instance under a running checker, no step lets the
  checker hold the registered instance again until a reload removes the service. It
  needs that no checker is ahead of the registry (`NeverAhead`).

`ProxyProofs` proves, for any number of requests and retries, any finite set of
instances and any thresholds:

* `TypeCorrect` (`TypeOK`) and `BoundedSending` (`SentAtMost`). Neither is
  inductive: `SentAtMost` says nothing between two calls. `Inv` adds, for each point of
  `ProxyRequest`, how far the calls may be ahead of the attempts and that a retry
  is due only if one is left (`Counted`), that nothing is recorded before the
  return (`Judged`), and which locals are unset (`Scoped`).
* `ServiceContractKept` and `InstanceContractKept`: the refinements
  `ServiceBreakerUse` and `InstanceBreakerUse` of `BreakerContract`, action by
  action; each is one step of the contract or changes neither the breaker's state
  nor the set of callers it waits for.
* `ProbeLosses` (`ProbeLostOnDeadlineOnly`). With `SuccessThreshold` 1 every verdict
  takes the breaker out of half open (`OneVerdict`), so a request that leaves without
  one is the only way to lose the probe, and the deadline its only reason.
* `EveryStepAdvances` (`StepsAdvance`): the rank of `ProxyRequest`'s remaining
  work is a natural number that each of its steps lowers. `ProxyAssumption` says
  that `Instances` is finite, which the rank needs: it counts the instances yet to
  be filtered.

`LimiterProofs` extends both limiters, as `Limiters` does; `TokenBucket` has the prefixed names (`BucketSpec`).
About `RedisLimiter`, for any number of requests, limit, window and thresholds:
`TypeCorrect`, `WindowLimitHolds` (`WindowBound`), `RecoveryGuaranteed`
(`FallbackHasRecovery`) and the refinement `BreakerContractKept` (`BreakerUse`).
The bound is on what the limiter has allowed, the script counts what the ZSET
holds; `Linked` ties them: there is an injection from the requests allowed in the
window to entries of the same age. A lost reply adds an entry and no request,
so the injection survives it, and a tick ages both sides. A call that has been
answered, or has failed, still owes its outcome to the breaker (`Owing`).

About `TokenBucket`, for any finite set of goroutines, any rate, burst, delay between
the steps of a call, and horizon, from `BucketAssumption`:

* `BucketTypes` (`BucketTypeOK`): no bucket holds more than the burst, and none owes more than
  `MaxDelay` ticks of refill. This is not inductive, since a late reading takes
  tokens back; what is: a bucket's tokens and the refill since its `lastRefill` are
  together never negative (`Solvent`).
* `BucketLimits` (`RateBound`). The invariant `Paid` is that of an account: for every
  age, what was granted to younger readings and the credit that is left to the key
  (tokens and refill since `lastRefill`, without the cap) are within the burst and
  the refill of that time. A refill keeps the credit or lowers it, a late reading
  moves `lastRefill` back by just what it takes from the tokens, a grant moves
  `Unit` from credit to grants, and a tick adds `Rate` to both sides. `Together` says that
  calls spend from the key's own bucket, unless a sweep has raced with them.
* Eviction and sweep replace a bucket by a full one, so the theorem has the hypothesis
  `RefillsInTime`: `BurstSize + 2 * Rate * MaxDelay <= Rate * (EvictionTTL + 1)`, an inactive
  bucket would be full anyway, with a margin for late readings. The instance of
  the run meets it with equality. The code's `evictionTTL` is a constant that no
  validation relates to rate and burst; a limiter that takes longer than it to fill up
  gives out more than its rate.

`PluginChainProofs`, for chains of any length with any of their plugins external,
any number of requests, any policies and thresholds: `TypeCorrect`,
`ConsentRequired` (`UpstreamNeedsConsent`), `AbortIsFinal` (`AbortStopsChain`).
`Walk` says where a request stands: in the request pass every plugin before its
position has let it pass and none after has seen it; in the response pass what it
met no longer changes. It needs that no plugin is loaded under a running
request, since its policy is what decides whether silence is consent.

`BalancersProofs`, for any finite set of requests, any number of instances and
picks, any weights and any size of the counter:

* `TypeCorrect`, `LoadIsExact` (`InflightAccounted`), `FailuresShow`
  (`FeedbackShows`). `SmartInv` says which object a goroutine works on (`Placed`),
  that the instances given to `New` keep theirs and share none (`Mapped`), and
  that each object's number is the number of its calls (`Objects`): the race on the
  map can drop an object but not a goroutine's hold on it. An average read before a
  failure was recorded and stored after it is what makes `FeedbackShows` fail to
  be inductive; `Placed` bounds the value in the goroutine's hands.
* `EvenSpread` (`RoundRobinEven`). The picks stand in a round (`Round`): from some
  starting position on, the positions already served are one ahead of the others.
  A wrap of the counter starts another round anywhere and costs one pick.
* `FairWheel` (`WheelIsFair`). Scores are at least `MinScore` when a goroutine has
  computed them (`Scores`) and stay so in its hands (`Floored`), so the running sums
  grow (`SumGrows`), and the targets for which the wheel answers `k` are the interval
  between the sums of the first `k - 1` and of the first `k` scores (`WheelAt`).

`Sums` holds what these and the token bucket need of `SumFunctionOnSet`, the library's
sum over a finite set: that it exists, that elements may be taken out in any order
(`SumTake`), is monotone for naturals (`SumPart`), grows by one where one value does
(`SumOneMore`), and moves with its values along an interval (`SumShift`). The
inductions are by smallest counterexample (`Least`, `Smallest`), since the library's
induction theorems cannot be instantiated here.

`RoutingProofs`, for any declared routes, in any number and order, any paths,
patterns and spellings that `RoutingAssumption` allows, and any body:

* `BestRoute` (`MatchIsBest`). `Tables` is the invariant of `New`: the exact table
  holds under each key the latest of the routes it names, the two lists hold
  exactly the routes of their type, the patterns as declared and, once sorted, the
  longer prefixes first. `MatchBest` then shows that the first candidate that
  fits is a best one: a route that applies is a candidate itself or yields to one
  of its class, and every candidate before it is one it is not preferred to
  (`Covered`).
* `ExactBodyLimit` (`BodyWholeOrRefused`). Quota and count add up to the limit, and
  until an error what was handed over and what is left to the size (`Read`).
* `OrderDecides` (`ChainByOrder`). The chain is a sorted arrangement of the plugins
  in the file (`ChainFacts`), all that ran but the last let the request pass, and
  the user is known exactly from the first that authenticates (`Ran`, `Keyed`).

### Only model-checked

* All liveness properties (`OpenIsProbed`, `RetiredIsClosed`, `CurrentUnlessLost`,
  `ServedUnlessLost`, `HealthFollowsUpstream`, `HealthLoopResolves`,
  `RecoversWithSidecar`): the prover has no fairness.

Every safety invariant and action property of a passing run is stated by a theorem.

## 5. Further disagreements between code and comments

Met while modelling, beside those of section 3 that TLC refutes:

* `PluginChain`: "On failure, it trips the plugin's circuit breaker"
  (`healthchecker.go:12`): it records one failure of the three that trip it, and
  a successful call in between clears the count. The loop asks for `/healthz`
  whatever `health_path` is (a TODO), so a sidecar with another path fails every
  check while it is up. A call is bounded by the request's context, so clients
  that leave can open the breaker of a healthy plugin (`RecoversWithSidecar`
  assumes that they stop). A misspelt `on_error` is taken for pass. "if
  headers haven't been sent" (`chain.go:107`): not checked; after a CORS preflight the chain writes a second status.
* `ConfigReload`: a failed build leaves the registry ahead of the runtime
  (`RegistryAheadOnFailure` allows exactly this).
* `ServiceRegistry`: "Health state of unchanged instances is preserved"
  (`reloader.go:112`): new instances start healthy; "removed service
  from registry" (`reloader.go:161`): the entry stays.
* `TokenBucket`: the sweep may delete a bucket in use (`RateBound` excludes
  exactly this).
* `Routing`: "405 if method not in route's allowed set" (`handler.go:45`): no route
  that excludes the method matches, the answer is 404.
* `Routing`: of two exact routes for one path the last declared wins, of two
  patterns the first; of two equal prefixes either. "uses a radix trie"
  (`router.go:5`): a sorted list.
* `Builtins`: "requires JWT/auth plugin to run before this plugin"
  (`ratelimit.go:6`): not validated; the limiter then counts by address. A JWT
  plugin before the CORS plugin answers preflights with 401. `X-Real-IP` is
  stripped on arrival (`headers.go:39`), so `ratelimit.go:144` never finds one.
  `"reject"` "returns a 429" (`factory.go:26-27`): the plugin passes on every error of its
  limiter, whatever `fallback_policy` says (`ratelimit.go:106`); the only one
  they return is for a malformed reply of Redis. CORS headers of the response pass are set after the response has
  been written.
* `Balancers`: "the map of instances is fixed initially"
  (`smart/balancer.go:54`): `getState` writes it, without a lock, for an instance
  it was not made for; the Go runtime may stop the process on such a race.
  A delayed store of an average undoes everything recorded since its load
  (`FeedbackShows` is what is left). No code constructs the smart balancer:
  a service that asks for it gets round robin (`reloader.go:147`).
* `ConfigReload`: a build that fails at one route drops the chains of the routes
  before it without closing them (`builder.go:41`).

## 6. Not modelled

Header rewriting and transports, the defaults of the limiter factory and the Redis
client's settings, observability, request context bookkeeping, the plugin SDK and
the stress tests: stateless conversions, construction from config, libraries or pure
output, with no state that a property would relate. Token
validation is `golang-jwt`'s, graceful shutdown `net/http`'s. The parsing of
plugin configs and the wording of validation errors are left out of the plugins
and of the validator. The map of balancers that the reloader writes
(`reloader.go:149`) has no reader in the repository, so its race cannot be
modelled. The watch on the config file is taken to be there from the start: that
`watch` sets it up in a goroutine of its own, and gives up for good if this fails,
is left out.

## 7. Plan

The plan of modules, runs and proofs is done. Next would be the parts of section 6
that keep state if they grow some, and liveness once a prover for it is at hand.
