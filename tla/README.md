# Verification of the LTP service

TLA+ modules for the Go service in `src/` that returns the last traded price of
currency pairs: a rate-limited HTTP API over a cache and Kraken's ticker API.
TLC checks the modules on small instances. TLAPS proves every safety property of
the passing runs for every value of the constants. `PROJECT.json` maps each
definition to the lines it models.

## The system

| Part | Code | State | Operations | What makes it correct |
|---|---|---|---|---|
| Rate limiter | `internal/ratelimit` | global token bucket, bucket and last use per IP, cleanup ticker | `Allow`, `GetStats`, `Stop`, cleanup goroutine | admissions bounded from any moment on, globally and per IP; refused requests cost the others nothing; every request is answered |
| In-memory cache | `internal/cache/memory.go` | map of pointers to entries behind an RWMutex | `Get`, `Set`, `SetMultiple`, `Expire`, `Delete`, `Clear`, `EvictExpired`, ... | size bounded; an operation changes the keys it was given and no other; a fresh value is not lost |
| LTP service | `internal/ltp`, `cache/legacy.go` | none of its own; the variables of each running call | `GetLTP` | complete response, each pair with its own price, bounded age, always returns |
| Pairs | `internal/pairs` | none | `NormalizeUserPair`, `ToKrakenSymbol`, `FromKrakenSymbol` | a pair and its symbol agree |
| Kraken client and backoff | `internal/kraken`, `internal/backoff` | loop variable, sleep, shared random source | `GetTickerPrices`, `Retry`, `calculateDelay` | bounded duration, bounded request rate, retries exactly 429 and 5xx, always returns |
| Background refresh | `cache/fallback.go`, `cmd/server/main.go` | workers, `refreshCh`, `stopCh`, wait group, `f.mu` | `StartBackgroundRefresh`, `StopBackgroundRefresh`, workers | stop leaves no goroutine and returns |
| Two cache layers | `cache/fallback.go`, `cache/redis.go` | a copy of each key in Redis and in the fallback | the cache interface over a Redis that can fail | what is served has a bounded age, whatever fails; the layers agree |
| HTTP server, health checks | `internal/httpserver`, `internal/health` | a request's place in the middleware | handlers, readiness checks, `Start`, `Shutdown` | errors are counted as they are answered; every request ends |
| Process | `cmd/server/main.go`, `cache/factory.go` | the place in `main`, the cache it made | start, select, shutdown, deferred calls | nothing unanswered and nothing running at the end; the end is reached |
| Metrics, configuration | `internal/metrics`, `LoadConfigFromEnv` | Prometheus counters | | not modelled |

A request passes the limiter (`Allow`), then `GetLTP` reads the cache for every
pair, asks Kraken for the missing symbols in one call with retries, and stores
the prices. Beside the requests run the limiter's cleanup goroutine, the metrics
updater (which refills the global bucket by reading it), the refresh workers and
the cache's cleanup goroutine. They share the buckets, the cache map and the
channel. `main` wires the refresh workers to `GetLTP`.

Hard behaviours: state read under one lock and used under another (`Allow` with
its refund, `Get` with its removal), pointers kept across an unlock, an unlocked
random source, prices that age while other pairs are fetched, timeouts and
retries, goroutines that produce into the channel they consume, a stop that
waits while it holds a lock, two layers written one after the other with a
failure or another call in between, and a shutdown with requests in flight. `PROJECT.json` lists them as hazards with the
properties that cover each.

## Modules

**RateLimiter.** A bucket is its tokens and the time of its last refill. A
stretch of code under a bucket's mutex is one action. `allowIP` reads the clock
twice under `rl.mu`, so it is two actions (`lookupIP`, then `takeIP` or
`refuseIP`), and `rl.mu` is held exactly while a request is between them. The
cleanup goroutine receives its tick (`receiveTick`), then waits for `rl.mu` and
removes the idle entries (`cleanup`); after `Stop` a ready tick may still win its
select, so it may go round again before `cleanupReturns`. No
lock is held between the global bucket and `rl.mu`, nor before the refund
(`returnGlobalToken`). `tokensToAdd` has two outcomes where `float64` may round
a whole number of tokens down. `window` is auxiliary: `OpenWindow` starts
counting admissions at any moment.

**MemoryCache.** An entry carries its address, since `Get` keeps a pointer
after it has released the lock and `Expire` writes through it. `GetWithMetadata`
hands the stored pointer out (`handOut`) and `SetWithMetadata` stores the pointer it
is given, which may be one of those: `kept` holds the entries callers keep, and the
same entry can come to be under several keys. `Get` and
`GetWithMetadata` are three steps (read; test, unlocked; remove under the lock),
`Set` two (stamp; evict and store), `Expire` two (the beginning and the end of
the write; a test in between may go either way). The rest hold the lock for
all they do. `evictLRU` is the set of choices an unstable sort by `CreatedAt` can
make. A new entry takes one free address; which one is fixed, since nothing
depends on it.

**LossyCache.** The abstract specification of the cache: a map from keys to
entries. A write changes the keys it was given and may lose others only when
the map is full; a change of expiry (`Renew`) is made to one entry, which shows under
several keys only if callers have put the same entry there; any key may be
forgotten. MemoryCache implements it (`ImplementsLossyCache`) with `contents` as
the map: the entry a key points to, without its address. LtpService is built on
its operations.

**Pairs, LtpService.** What a user typed is the sequence of pieces between its
slashes; symbols are the real strings. A price is its symbol and the time Kraken
sampled it. The cache is an instance of LossyCache: a store is its `Put`, and
`Lose`, its `Forget`, is an eviction for another user or the removal that races
with a `Set`. So what is shown of `GetLTP` asks no more of the contents of the
cache than LossyCache promises, which MemoryCache is proved to keep. Pairs are taken
in any order. `Lag`, `HTTPTimeout` and `FetchLimit` bound the phases of a call;
that a fetch has a limit at all is KrakenClient's `CallBounded`.

**KrakenClient.** `GetTickerPrices` with the retry loop around `makeRequest`.
Time is counted from the start of a call and passes only while it waits for
an answer or sleeps. `sent` counts calls of `http.Client.Do`; redirects it follows
and requests it sends again on a broken connection are inside net/http and not
counted. Each way an attempt can end is an action; a draw of the
jitter that races with another call's may panic (`jitterPanics`), because the
`rand.Rand` they share has no lock.

**BackgroundRefresh, ServerRefresh.** Workers, channel, cleanup goroutine and
stop; of the cached keys only the stage of their life is kept. `mu` is `f.mu`
while a stopper waits in `wg.Wait`. ServerRefresh adds `main`'s `refreshFunc`,
which hands the cache key to `GetLTP`.

**FallbackCache.** The operations of `FallbackCache` over `RedisCache`. A call is
a record with its stage: at Redis, cleaning up an expired key there, about to
copy what it found, at the fallback. Other calls come between any two stages. A
Redis command may fail before, after or halfway (`primaryWrite`), be sent again,
and a key may vanish (`redisLoses`), which also stands for the server's own ttl.
A value is the time it was handed to the cache, so ages can be read off; a copy in
the fallback also has the time a caller last asked for it to live (`since`), which
is its `Set` or an `Expire`. The
fallback is as forgetful as LossyCache allows; its removal of an expired entry,
which can hit a fresh one, is `fallbackLoses` too.

**Server.** `main`, the HTTP server and the health checks, with the goroutines
of BackgroundRefresh composed in: `main`'s signal context is their context, and
its deferred `StopBackgroundRefresh` and `Close` are their two stoppers. A request
moves through the stages of the middleware and of its handler. What a stage
decides on (the limiter, the query, the cache, Kraken) is left open: the modules
above are about that. A panic can come only where the jitter is drawn, in a call
of Kraken. net/http is external: `Shutdown` closes the listener and waits for
the requests being handled, and a connection it has just accepted may still bring
its first one; an accept error ends `ListenAndServe` and leaves its
connections to go on (`orphaned`).

Definitions marked "Mutant" are plausible bugs. None of them is part of a
specification; each property fails when its mutant stands in for the definition
it imitates.

## Runs

| Run | Instance | Shows |
|---|---|---|
| `limiter` | 1 IP, 2 requests, buckets of 2, 2 ticks a second, clock 3, fair | bounds on admissions from above and below, no lost refund, mutual exclusion; `Allow` answers; the cleanup goroutine ends after `Stop` |
| `cache` | 4 keys in a map of 2, batches of up to 3, 2 clients, 1 entry kept by callers, clock 1 | `Set` makes room; how far batches overshoot; the cache interface is implemented |
| `cache_fresh` (violation) | 2 keys, 2 clients | `Get` deletes a value `Set` in between |
| `ltp` | 2 requests, 2 pairs of one symbol and 2 refused ones, clock 4, fair | cache freshness, complete responses, age of a returned price; no step is repeated; `GetLTP` returns |
| `ltp_partial` (violation) | 1 request, 2 symbols | one pair without a price refuses the others |
| `ltp_minute` (violation) | 1 request, 2 symbols | a returned price is older than the minute it is cached for |
| `kraken` | 4 attempts, delays 2 to 4, jitter 50%, fair | duration, rate, retries, termination |
| `refresh` | 2 workers, 2 keys, channel of 2, 2 stoppers, fair | stop leaves nothing and returns |
| `refresh_main` (violation) | `main`'s keys | no cached key can be refreshed |
| `two_layer` | 1 key, 2 clients, ttls of 1, clock 4 | the age of what is served; no store of what was not found |
| `two_layer_fresh` (violation) | 1 key, 1 client | `Get` copies an older value over a newer one |
| `server` | 1 connection, 7 endpoints, 1 key, 1 worker, fair | graceful end, errors counted, requests and process end |

Why the bounds are enough:

- `limiter`: the idle timeout is 2 ticks and the cleanup ticker fires at 3, so a
  bucket is forgotten and started again within the clock, and a window can open
  just before. The two requests can come from the same address again and again,
  empty either bucket and poll it at every tick; a refill that is due may come out
  a token short, which is how fractions are lost. `MaxHold` lets the clock move once inside
  `allowIP`, and the cleanup goroutine wait for it. Addresses meet only in the global
  bucket, where who asks makes no difference; the proofs cover any number of them.
- `cache`: a batch of 3 is one more than `MaxSize`, so the map does go past it
  (`SizeBounded` is 3 there), and the 4 keys are one more than that bound allows.
  An eviction drops everything (`EvictShare` 1): evictions of a part, oldest
  first, would need more keys than TLC can go through with two clients, and are
  left to the proofs, which hold for every share. Two clients are enough for a
  pointer of one call to outlive what the other does to the map, and one kept entry
  is enough to be stored under all the keys. A call that would need more than the 4
  addresses is not made; the proofs have any number of addresses and of kept entries.
- `ltp` has two interleaving requests. Its clock is one tick more than `MaxAge` (3), and a price
  does reach the age `MaxAge`: found at the end of its life for one pair and gone
  when the other pair with the same symbol is looked up. `Lag` is 0 there, the lookups
  and the stores of a request taking no time, though others come between them; a second symbol
  is in the violation runs only, since two symbols and two requests are too many
  states together. The proofs cover any pairs and any `Lag`. The
  pairs include two that are refused.
- `kraken`: the third sleep is where the cap at `MaxDelay` begins to matter. The statuses
  are both ends of the 5xx range and one of each other kind.
- `refresh`: two workers can send four keys into a channel of two.
- `two_layer`: an operation touches its keys independently, so one key is
  enough. A value can be set, read at the end of its ttl, copied, and served from
  the copy at the end of its life within 4 ticks: the bound of `ServedAge` is 3.
- `server`: requests meet only in `drain`, which waits for all of them, and the
  proofs cover any number; the one connection carries any number of requests in
  turn. One worker and a channel of 1 suffice, as `refresh` has the larger instance.

Symmetry is used for keys and clients in runs that check safety only and whose
formulas do not tell them apart. Deadlock is checked
except in `server`, where the process ends.

Fairness:

- *limiter*: the scheduler runs ready goroutines (weak fairness); `lookupIP`
  and `cleanup` are strongly fair because `sync.Mutex` hands over to a starved waiter,
  and `cleanupReturns` because the select picks among ready cases at random and a
  closed channel is always ready.
- *ltp*: a request that can step does; a fetch can always end, since a
  Kraken call returns (`EveryCallReturns`).
- *kraken*: the clock runs, the select takes a ready case, and the HTTP client
  ends an attempt at its timeout. Nothing is asked of Kraken.
- *refresh*: goroutines run and `refreshFunc` returns. `workerReturns` is
  strongly fair because a select picks among ready cases at random.
- *server*: `main` and the handlers go on (a Kraken call returns, see *kraken*; a
  Redis command has the timeouts of its client), and the goroutines of the cache
  as in *refresh*. Nothing is asked of signals, of clients or of the listener.

## What the violation runs show

- `cache_fresh` (`memory.go:48-53`): `Get` tests the entry after unlocking and
  then deletes the key, whatever it holds by then.
- `refresh_main` (`main.go:61`): cache keys are Kraken symbols and
  `NormalizeUserPair` refuses anything without a slash.
- `two_layer_fresh` (`fallback.go:50`): a `Set` that Redis refuses is kept by the
  fallback alone. The next `Get` that reaches Redis finds the older value and
  copies it over the newer one "with fresh data".

- `ltp_partial` (`service.go:110`): a symbol missing from Kraken's answer ends the
  call with a 400, though other pairs have their prices; `docs/openapi.yaml:38`
  has an answer 207, "Partial success when some requested pairs cannot be priced".
  `ResponseComplete` is about the responses that are given.
- `ltp_minute` (`legacy.go:34`): the 60 s of a cache entry begin at its store, while
  `README.md:37` of the service asks for "accuracy of the data up to the last minute".
  `ResponseFresh` gives the bound that does hold, and it is reached: about 80 s
  with the default backoff and the 3 s HTTP timeout (3 s in the answer, 60 s in the
  cache, 16.65 s of a slow fetch of another pair).

The passing run `two_layer` measures the same for the two layers: `ServedAge` allows the
60 s of Redis, one call and 5 minutes of `FallbackTTL`, counted from the last time
a caller asked for the value to live. `Expire` is such a request whatever its ttl, and
gives the copy in the fallback `FallbackTTL`; a caller that wanted to shorten a
life prolongs it there (`expireFallback`), and the bound allows it.

## Proofs

Each theorem holds for any constants that satisfy the named assumption of the
module. `TypeCorrect` of each module is the ground the others stand on.

- **RateLimiterProofs** (`ConfigAssumption`, `IdleAssumption`). *TypeCorrect* and
  *MutexCorrect*: `TypeOK` and `MutexHeld` are inductive together, as the entry a
  request stamped must still be there when it takes its token. *GlobalBound*: `GlobalWindowBound` says nothing of the tokens
  left, so it is not inductive; `GlobalCovered` says that what the window may
  still admit covers the tokens in the bucket, the tokens held by requests
  in flight, and what the time since the last refill is worth. *PerIPBound*: `IPCovered`
  says the same per address, where a missing entry counts as a full bucket. A
  removal then has to show that the bucket would have been full by now. That is
  `StampInv` (an entry that was not seen was not taken from) with
  `IdleAssumption`, which says that the idle timeout outlasts a refill.
  *QuotaKept*: `NoQuotaLeak` is inductive over `TypeOK`. *NobodyStarved*:
  `RefusedOnlyWhenSpent` speaks of the moment of a refusal; the invariant is
  `GlobalKept` and `IPKept`, which say that the tokens in the bucket and those
  used make up for half of what was earned up to its clock mark. A refill keeps
  them because the mark moves only with a whole token, which costs at most the
  time of two (`TokensPaid`), and the time after the mark is worth at most one
  token when a request is refused (`RefillKept`).
- **MemoryCacheProofs** (`CacheAssumption`). *SizeCorrect*: at `Ceiling` or
  above it an eviction makes room for a whole batch; below `MaxSize` nothing need be
  evicted. *SetMakesRoomCorrect* rests on the same count of what `evictLRU` drops.
  *Refinement*: each action is shown to be one of LossyCache's, or a stutter. For the
  end of an `Expire`, which writes through every pointer to an entry, it must be known
  that the keys it changes had identical entries. That is `Coherent` (pointers to one address, in
  the map, in a call or kept by a caller, see one entry) with `Past` (no entry was
  created after now); neither says that keys do not share entries. A new
  entry keeps `Coherent` because its address is in no other hands (`StoreEffect`, `MadeFacts`,
  `AddedEntries`), a written one because all its pointers see the write
  (`RewrittenEntries`).
- **LtpServiceProofs** (`ServiceAssumption`). One invariant serves the first four
  theorems: `Phase` ties the sets of pairs of a call together, `Results` says which
  pairs have a price and how old it was when the phase began (`AgeAtStart`), and
  `Timing` bounds the phase and the age of what Kraken answered. *ResponseAgeBounded*
  is the sum of the two. The cache enters only through `CacheOK`, which `Forget` and
  `Put` keep (`ForgetKeeps`, `PutKeeps`). *StepsRunOutCorrect* is the safety half of
  `EveryRequestReturns`: the steps a call has left (`Left`) are a finite set, each
  step of the call makes it smaller (`StepLess`) and no other step makes it larger
  (`OthersAddNothing`). What is left to fairness is that a call which can step does.
- **FallbackCacheProofs** (`FallbackAssumption`). *ServedAgeBounded*: the bound on a
  copy (`GoodCopy`) holds because a call holds a value for at most `Lag` after a
  moment when the entry it read was alive, or after it was handed in (`GoodCall`).
- **ServerProofs** (`ServerAssumption`). Every step of the process is a step of
  BackgroundRefresh or leaves it alone (`RefreshSteps`), which holds by the way the
  module is composed and serves to carry its invariants over (`RefreshInv`).
  *GracefulCorrect* adds `Leaving` (once the limiter is stopped the listener is
  closed, and `main` goes on only when nothing is being handled) and `Stopped` (the
  goroutines are gone once `main` is past its first deferred call).
  *CountedCorrect* needs `Uncounted`: what the outer middleware has not passed on
  is not counted.
- **KrakenClientProofs** (`ClientAssumption`). *CallTimeBounded*: `Budget` charges
  each finished round a timeout and a longest sleep. *RequestRateBounded*:
  `Spaced` charges each finished sleep at least the shortest. *RetryCorrect*: `Refused`
  remembers that a sleep follows a retryable answer.
- **BackgroundRefreshProofs** (`RefreshAssumption`). *TypeCorrect* needs
  `StartTogether`. *StopLeavesNothing*: `StopHeld` says that whoever
  closed `stopCh` holds `f.mu` until every goroutine has returned, so a caller
  that finds it closed can return too.

Only model-checked: liveness (fairness is outside the prover) and the violations.

Assumptions to know of: `IdleAssumption` holds for `DefaultConfig` (10 tokens a
second for 10 minutes against a capacity of 100); without it an address could
gain by waiting. `BaseDelay <= MaxDelay` holds for the default; with a larger
`BaseDelay` the first sleep is cut and `RequestRate` would have to use the cut
delay. `MaxHold` and `Lag` bound how long a running goroutine is kept from the
processor.

## Not modelled

- `ExtractIP`, `parseRedisURL`, `LoadConfigFromEnv`, `getenv`, `getDuration`: they
  read strings and keep no state. `FromKrakenSymbol` has no caller outside its tests.
- Metrics, apart from the count of requests per status, and the hit and miss
  counters: written and never read by the program's logic. The metrics updater
  only calls `GetStats`, an action of RateLimiter.
- Callers that write to a `CacheEntry` they were handed: none in the repository does.
- The buckets' own mutexes and the counters' as locks: nothing is called while one
  is held, so they cannot take part in a deadlock; what they protect is one action.
- CORS headers, logging, bodies of answers, the Swagger page: pure output.
- net/http's timeouts: what becomes of an answer written after `WriteTimeout`
  (15 s, against 16.65 s for the longest Kraken call) is decided there. A second
  signal, after `stop`, kills the process.

## Plan

Done: all the modules above with their proofs. What could still be added:

1. FallbackCache over MemoryCache itself instead of its promise, and a refinement
   of LossyCache by FallbackCache with ages in place of contents.
2. LtpService over FallbackCache, to bound the age of an answer with two layers
   end to end.
3. `FromKrakenSymbol` against `ToKrakenSymbol`, if the service begins to use it.
