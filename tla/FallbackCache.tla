--------------------------- MODULE FallbackCache ---------------------------
(***************************************************************************)
(* FallbackCache (internal/cache/fallback.go): Redis in front of the       *)
(* in-memory cache.  Every operation calls Redis and then the fallback,    *)
(* with nothing to hold the two together: other operations come between,   *)
(* and a Redis call may fail, with or without having been carried out.     *)
(*                                                                         *)
(* Redis is external.  Its entries hold the JSON of RedisCache (redis.go), *)
(* with an ExpiresAt only RedisCache looks at; the server's own life of a  *)
(* key, which Set gives and Expire changes, shows as the key vanishing,    *)
(* and a server may lose keys at any other time too (redisLoses).  The     *)
(* fallback is as forgetful as LossyCache allows (fallbackLoses).          *)
(*                                                                         *)
(* A value is the time its caller handed it to the cache: what is served   *)
(* has an age.  GetMultiple, TTL, Size and Ping change nothing and are     *)
(* left out; the background workers are in BackgroundRefresh.              *)
(***************************************************************************)
EXTENDS Integers

CONSTANTS
  Keys, Clients, None,
  DefaultTTL, MaxTTL, FallbackTTL,
  TTLs,         \* the ttl arguments callers pass
  Life,         \* no ttl is longer
  Lag,          \* longest call, Redis timeouts and retries included
  MaxTime       \* bound of the clock

Entry == [value : Int, expiresAt : Int]

\* An entry of the fallback; "since" is for the properties: when the value was
\* handed in, or when a caller last asked to Expire it.
Copy == [value : Int, expiresAt : Int, since : Int]

ASSUME FallbackAssumption ==
  /\ {DefaultTTL, MaxTTL, FallbackTTL} \subseteq Nat \ {0}
  /\ TTLs \subseteq Int
  /\ Life \in Nat /\ DefaultTTL <= Life /\ \A ttl \in TTLs : ttl <= Life
  /\ {Lag, MaxTime} \subseteq Nat
  /\ None \notin Entry \cup Copy

VARIABLES
  now,          \* the clock
  redis,        \* key -> Entry or None
  fallback,     \* key -> Copy or None
  call          \* client -> the operation it is in, or None

vars == <<now, redis, fallback, call>>

Reads == {"Get", "GetWithMetadata"}
Puts == {"Set", "SetMultiple", "SetWithMetadata"}
Drops == {"Delete", "Clear", "EvictExpired"}

Call == [op : Reads \cup Puts \cup Drops \cup {"Expire"},
         stage : {"redis", "clean", "update", "fallback"},
         keys : SUBSET Keys, entry : Entry \cup {None}, since : Int]

IsExpired(entry) == now > entry.expiresAt

Live(entry) == entry # None /\ ~IsExpired(entry)

\* The ttl RedisCache.Set uses.
EffectiveTTL(ttl) ==
  LET given == IF ttl <= 0 THEN DefaultTTL ELSE ttl
  IN  IF given > MaxTTL THEN MaxTTL ELSE given

\* The in-memory Set is given FallbackTTL and clamps it; its SetMultiple and its
\* Expire do not.
FallbackLife == IF FallbackTTL > MaxTTL THEN MaxTTL ELSE FallbackTTL

\* f with the keys K set to e.
Put(f, K, e) == [k \in Keys |-> IF k \in K THEN e ELSE f[k]]

-----------------------------------------------------------------------------

Init ==
  /\ now = 0
  /\ redis = [k \in Keys |-> None]
  /\ fallback = [k \in Keys |-> None]
  /\ call = [c \in Clients |-> None]

\* c calls op, which goes to Redis first.
Begin(c, op, K, entry) ==
  /\ call[c] = None
  /\ call' = [call EXCEPT ![c] = [op |-> op, stage |-> "redis", keys |-> K,
                                  entry |-> entry, since |-> now]]
  /\ UNCHANGED <<now, redis, fallback>>

Get(c, k) == Begin(c, "Get", {k}, None)
GetWithMetadata(c, k) == Begin(c, "GetWithMetadata", {k}, None)
Set(c, k, ttl) ==
  Begin(c, "Set", {k}, [value |-> now, expiresAt |-> now + EffectiveTTL(ttl)])
SetMultiple(c, K, ttl) ==
  Begin(c, "SetMultiple", K, [value |-> now, expiresAt |-> now + ttl])
SetWithMetadata(c, k, created, ttl) ==
  Begin(c, "SetWithMetadata", {k}, [value |-> created, expiresAt |-> created + ttl])
Delete(c, k) == Begin(c, "Delete", {k}, None)
Clear(c) == Begin(c, "Clear", Keys, None)
Expire(c, k) == Begin(c, "Expire", {k}, None)

EvictExpired(c) == Begin(c, "EvictExpired", {}, None)

\* c's call goes on to stage with entry in its hands.
Proceed(c, stage, entry) ==
  call' = [call EXCEPT ![c].stage = stage, ![c].entry = entry]

At(c, stage, ops) == call[c] # None /\ call[c].stage = stage /\ call[c].op \in ops

\* RedisCache.Get and GetWithMetadata find a live entry.
primaryHit(c) ==
  /\ At(c, "redis", Reads)
  /\ \E k \in call[c].keys : Live(redis[k]) /\ Proceed(c, "update", redis[k])
  /\ UNCHANGED <<now, redis, fallback>>

\* Mutant: the copy to the fallback is made without asking whether it was found.
missUpdates(c) ==
  /\ At(c, "redis", Reads)
  /\ Proceed(c, "update", None)
  /\ UNCHANGED <<now, redis, fallback>>

\* They find none, or Redis fails.
primaryMiss(c) ==
  /\ At(c, "redis", Reads)
  /\ Proceed(c, "fallback", None)
  /\ UNCHANGED <<now, redis, fallback>>

\* They find an expired one and go on to delete it.
primaryExpired(c) ==
  /\ At(c, "redis", Reads)
  /\ \E k \in call[c].keys : redis[k] # None /\ IsExpired(redis[k])
  /\ Proceed(c, "clean", None)
  /\ UNCHANGED <<now, redis, fallback>>

\* The Del, of whatever is there by now; its error is ignored.
primaryClean(c) ==
  /\ At(c, "clean", Reads)
  /\ redis' \in {redis, Put(redis, call[c].keys, None)}
  /\ Proceed(c, "fallback", None)
  /\ UNCHANGED <<now, fallback>>

\* RedisCache.EvictExpired looks at the keys one by one and keeps for a Del those it
\* finds expired or gone; one it fails to read it leaves alone.
findExpired(c, k) ==
  /\ At(c, "redis", {"EvictExpired"})
  /\ ~Live(redis[k])
  /\ call' = [call EXCEPT ![c].keys = @ \cup {k}]
  /\ UNCHANGED <<now, redis, fallback>>

\* What a call does to the keys K in Redis.  Expire changes the server's ttl only.
Applied(c, K) ==
  IF call[c].op \in Puts THEN Put(redis, K, call[c].entry)
  ELSE IF call[c].op \in Drops THEN Put(redis, K, None)
  ELSE redis

\* A Redis call that writes.  It may succeed, fail, fail after it was carried out,
\* or fail halfway through a pipeline, and the client library may send it again;
\* FallbackCache goes on to the fallback in each case.
primaryWrite(c) ==
  /\ At(c, "redis", Puts \cup Drops \cup {"Expire"})
  /\ \E K \in SUBSET call[c].keys, stage \in {"redis", "fallback"} :
       /\ call[c].op = "Clear" => K \in {{}, Keys}
       /\ redis' = Applied(c, K)
       /\ Proceed(c, stage, call[c].entry)
  /\ UNCHANGED <<now, fallback>>

\* The entry the call leaves in the fallback: the value with the fallback's ttl
\* from now on, or, for the operations on whole entries, the entry as it is.
FallbackEntry(c) ==
  LET entry == call[c].entry
  IN  [value |-> entry.value, since |-> entry.value,
       expiresAt |-> IF call[c].op \in {"GetWithMetadata", "SetWithMetadata"}
                     THEN entry.expiresAt
                     ELSE now + IF call[c].op = "SetMultiple" THEN FallbackTTL
                                ELSE FallbackLife]

Return(c) == call' = [call EXCEPT ![c] = None]

\* Get copies what it found in Redis to the fallback, and returns it.
updateFallback(c) ==
  /\ At(c, "update", Reads)
  /\ fallback' = Put(fallback, call[c].keys, FallbackEntry(c))
  /\ Return(c)
  /\ UNCHANGED <<now, redis>>

\* Mutant: a hit in the fallback is kept for another FallbackTTL.
serveAndKeep(c) ==
  /\ At(c, "fallback", Reads)
  /\ \E k \in call[c].keys :
       /\ Live(fallback[k])
       /\ fallback' = [fallback EXCEPT ![k].expiresAt = now + FallbackLife]
  /\ Return(c)
  /\ UNCHANGED <<now, redis>>

\* Get returns what it finds in the fallback.
serveFallback(c) ==
  /\ At(c, "fallback", Reads)
  /\ \E k \in call[c].keys : Live(fallback[k])
  /\ Return(c)
  /\ UNCHANGED <<now, redis, fallback>>

\* Get finds nothing there either, or an expired entry that it removes.
missFallback(c) ==
  /\ At(c, "fallback", Reads)
  /\ \A k \in call[c].keys : ~Live(fallback[k])
  /\ fallback' = Put(fallback, call[c].keys, None)
  /\ Return(c)
  /\ UNCHANGED <<now, redis>>

putFallback(c) ==
  /\ At(c, "fallback", Puts)
  /\ fallback' = Put(fallback, call[c].keys, FallbackEntry(c))
  /\ Return(c)
  /\ UNCHANGED <<now, redis>>

dropFallback(c) ==
  /\ At(c, "fallback", {"Delete", "Clear"})
  /\ fallback' = Put(fallback, call[c].keys, None)
  /\ Return(c)
  /\ UNCHANGED <<now, redis>>

\* EvictExpired drops what has expired here, whatever it found in Redis.
evictFallback(c) ==
  /\ At(c, "fallback", {"EvictExpired"})
  /\ fallback' = Put(fallback, {k \in Keys : ~Live(fallback[k])}, None)
  /\ Return(c)
  /\ UNCHANGED <<now, redis>>

\* Expire gives the entry FallbackTTL from now, whatever ttl it was called with, so
\* it prolongs the life of a copy its caller wanted to shorten.  A caller has asked
\* for a new life, so since starts again.
expireFallback(c) ==
  /\ At(c, "fallback", {"Expire"})
  /\ fallback' = [k \in Keys |-> IF k \in call[c].keys /\ fallback[k] # None
                                 THEN [fallback[k] EXCEPT !.expiresAt = now + FallbackTTL,
                                                           !.since = now]
                                 ELSE fallback[k]]
  /\ Return(c)
  /\ UNCHANGED <<now, redis>>

redisLoses(k) ==
  /\ redis' = Put(redis, {k}, None)
  /\ UNCHANGED <<now, fallback, call>>

fallbackLoses(k) ==
  /\ fallback' = Put(fallback, {k}, None)
  /\ UNCHANGED <<now, redis, call>>

\* No call outlasts Lag.
Tick ==
  /\ now < MaxTime
  /\ \A c \in Clients : call[c] # None => now < call[c].since + Lag
  /\ now' = now + 1
  /\ UNCHANGED <<redis, fallback, call>>

CallStep(c) ==
  \/ \E k \in Keys : Get(c, k) \/ GetWithMetadata(c, k) \/ Delete(c, k) \/ Expire(c, k)
  \/ \E k \in Keys, ttl \in TTLs : Set(c, k, ttl)
  \/ \E K \in (SUBSET Keys) \ {{}}, ttl \in TTLs : SetMultiple(c, K, ttl)
  \/ \E k \in Keys, created \in 0 .. now, ttl \in TTLs : SetWithMetadata(c, k, created, ttl)
  \/ Clear(c) \/ EvictExpired(c)

PrimaryStep(c) ==
  \/ primaryHit(c)
  \/ primaryMiss(c)
  \/ primaryExpired(c)
  \/ primaryClean(c)
  \/ \E k \in Keys : findExpired(c, k)
  \/ primaryWrite(c)

FallbackStep(c) ==
  \/ updateFallback(c)
  \/ serveFallback(c)
  \/ missFallback(c)
  \/ putFallback(c)
  \/ dropFallback(c)
  \/ evictFallback(c)
  \/ expireFallback(c)

Next ==
  \/ \E c \in Clients : CallStep(c) \/ PrimaryStep(c) \/ FallbackStep(c)
  \/ \E k \in Keys : redisLoses(k) \/ fallbackLoses(k)
  \/ Tick

Spec == Init /\ [][Next]_vars

-----------------------------------------------------------------------------

\* Every variable has its type, and a call has an entry to store where it needs one.
TypeOK ==
  /\ now \in 0 .. MaxTime
  /\ redis \in [Keys -> Entry \cup {None}]
  /\ fallback \in [Keys -> Copy \cup {None}]
  /\ call \in [Clients -> Call \cup {None}]
  /\ \A c \in Clients : call[c] # None =>
       call[c].entry # None <=> call[c].op \in Puts \/ call[c].stage = "update"

\* A value that has left Redis, by expiry or failure, goes on being served by the
\* fallback, where a Get may have put it in the last moment of its life and an
\* Expire may have prolonged it.  It never circulates: since it was handed in, or
\* since a caller last asked for more, no more than its ttl, one call and
\* FallbackTTL have passed when it is served.  Expire is such a request, with any
\* ttl: that it may prolong a life it was to shorten is within the bound.
ServedAge ==
  [][\A c \in Clients :
       /\ updateFallback(c) => now <= call[c].entry.value + Life + Lag
       /\ serveFallback(c) =>
            \A k \in call[c].keys : Live(fallback[k]) =>
              now <= fallback[k].since + Life + Lag + FallbackTTL]_vars

\* internal/cache/fallback.go:49, "Update fallback with fresh data": the copy a Get
\* makes never replaces a newer value the fallback holds.
FallbackGetsFresh ==
  [][\A c \in Clients : updateFallback(c) =>
       \A k \in call[c].keys : Live(fallback[k]) => fallback[k].value <= call[c].entry.value]_vars

=============================================================================
