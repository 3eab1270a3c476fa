------------------------ MODULE FallbackCacheProofs ------------------------
(***************************************************************************)
(* The age of what the two layers serve is bounded, for any numbers of     *)
(* keys and clients, any ttls and any length of a call.                    *)
(***************************************************************************)
EXTENDS FallbackCache, TLAPS

\* What an entry in Redis, one in the fallback and a call in progress satisfy.  A
\* call that holds a value has taken less than Lag since it was handed in (Set), or
\* since a moment when the entry it read was alive (Get).
GoodEntry(e) == e = None \/ (e \in Entry /\ e.expiresAt <= e.value + Life)

GoodCopy(e) == e = None \/ (e \in Copy /\ e.expiresAt <= e.since + Life + Lag + FallbackTTL)

GoodCall(x) ==
  \/ x = None
  \/ /\ x \in Call
     /\ GoodEntry(x.entry)
     /\ x.entry # None <=> x.op \in Puts \/ x.stage = "update"
     /\ x.since <= now /\ now <= x.since + Lag
     /\ x.stage = "update" => x.op \in Reads /\ x.since <= x.entry.expiresAt
     /\ x.op \in {"Set", "SetMultiple"} => x.entry.value = x.since

\* The inductive invariant.
Inv ==
  /\ now \in 0 .. MaxTime
  /\ redis \in [Keys -> Entry \cup {None}] /\ \A k \in Keys : GoodEntry(redis[k])
  /\ fallback \in [Keys -> Copy \cup {None}] /\ \A k \in Keys : GoodCopy(fallback[k])
  /\ call \in [Clients -> Call \cup {None}] /\ \A c \in Clients : GoodCall(call[c])

-----------------------------------------------------------------------------

\* The parts of Inv.
CallsGood == call \in [Clients -> Call \cup {None}] /\ \A c \in Clients : GoodCall(call[c])
RedisGood == redis \in [Keys -> Entry \cup {None}] /\ \A k \in Keys : GoodEntry(redis[k])
FallbackGood == fallback \in [Keys -> Copy \cup {None}] /\ \A k \in Keys : GoodCopy(fallback[k])

\* A call is not None, and None is no entry.
LEMMA NoneIsNoEntry == None \notin Entry /\ None \notin Copy
  BY FallbackAssumption

\* One client's call changes.
LEMMA CallChanges ==
  ASSUME Inv, NEW c \in Clients, NEW x \in Call \cup {None}, GoodCall(x),
         call' = [call EXCEPT ![c] = x], now' = now
  PROVE  CallsGood'
  BY DEF Inv, CallsGood, GoodCall

\* Keys are put to one entry.
LEMMA PutKeepsRedis ==
  ASSUME Inv, NEW K, NEW e \in Entry \cup {None}, GoodEntry(e), redis' = Put(redis, K, e)
  PROVE  RedisGood'
  BY DEF Inv, RedisGood, Put

LEMMA PutKeepsFallback ==
  ASSUME Inv, NEW K, NEW e \in Copy \cup {None}, GoodCopy(e), fallback' = Put(fallback, K, e)
  PROVE  FallbackGood'
  BY DEF Inv, FallbackGood, Put

\* Set never asks Redis for more than Life.
LEMMA EffectiveIsShort ==
  ASSUME NEW ttl \in TTLs
  PROVE  EffectiveTTL(ttl) \in Int /\ EffectiveTTL(ttl) <= Life
  BY FallbackAssumption DEF EffectiveTTL

-----------------------------------------------------------------------------

LEMMA BeginKeeps ==
  ASSUME Inv, NEW c \in Clients, NEW op \in Reads \cup Puts \cup Drops \cup {"Expire"},
         NEW K \in SUBSET Keys, NEW e \in Entry \cup {None}, Begin(c, op, K, e),
         GoodEntry(e), e # None <=> op \in Puts,
         op \in {"Set", "SetMultiple"} => e.value = now
  PROVE  Inv'
<1> DEFINE x == [op |-> op, stage |-> "redis", keys |-> K, entry |-> e, since |-> now]
<1>1. x \in Call
  BY DEF Call, Inv
<1>2. GoodCall(x)
  BY <1>1, FallbackAssumption DEF GoodCall, Inv
<1>3. CallsGood'
  BY <1>1, <1>2, CallChanges DEF Begin
<1>4. QED
  BY <1>3 DEF Begin, Inv, CallsGood

LEMMA CallStepKeeps ==
  ASSUME Inv, NEW c \in Clients, CallStep(c)
  PROVE  Inv'
<1> USE DEF Reads, Puts, Drops
<1>0. now \in Int /\ GoodEntry(None)
  BY DEF Inv, GoodEntry
<1>1. ASSUME NEW k \in Keys, Get(c, k) \/ GetWithMetadata(c, k) \/ Delete(c, k) \/ Expire(c, k)
      PROVE  Inv'
  BY <1>0, <1>1, BeginKeeps DEF Get, GetWithMetadata, Delete, Expire
<1>2. ASSUME NEW k \in Keys, NEW ttl \in TTLs, Set(c, k, ttl)
      PROVE  Inv'
  <2> DEFINE e == [value |-> now, expiresAt |-> now + EffectiveTTL(ttl)]
  <2>1. e \in Entry /\ GoodEntry(e) /\ e.value = now /\ e # None
    BY <1>0, EffectiveIsShort, NoneIsNoEntry, FallbackAssumption DEF Entry, GoodEntry
  <2>2. Begin(c, "Set", {k}, e)
    BY <1>2 DEF Set
  <2> HIDE DEF e
  <2>3. QED
    BY <2>1, <2>2, BeginKeeps
<1>3. ASSUME NEW K \in SUBSET Keys, NEW ttl \in TTLs, SetMultiple(c, K, ttl)
      PROVE  Inv'
  <2> DEFINE e == [value |-> now, expiresAt |-> now + ttl]
  <2>1. e \in Entry /\ GoodEntry(e) /\ e.value = now /\ e # None
    BY <1>0, NoneIsNoEntry, FallbackAssumption DEF Entry, GoodEntry
  <2>2. Begin(c, "SetMultiple", K, e)
    BY <1>3 DEF SetMultiple
  <2> HIDE DEF e
  <2>3. QED
    BY <2>1, <2>2, BeginKeeps
<1>4. ASSUME NEW k \in Keys, NEW created \in 0 .. now, NEW ttl \in TTLs,
             SetWithMetadata(c, k, created, ttl)
      PROVE  Inv'
  <2> DEFINE e == [value |-> created, expiresAt |-> created + ttl]
  <2>1. e \in Entry /\ GoodEntry(e) /\ e # None
    BY <1>0, NoneIsNoEntry, FallbackAssumption DEF Entry, GoodEntry
  <2>2. Begin(c, "SetWithMetadata", {k}, e)
    BY <1>4 DEF SetWithMetadata
  <2> HIDE DEF e
  <2>3. QED
    BY <2>1, <2>2, BeginKeeps
<1>5. CASE Clear(c) \/ EvictExpired(c)
  BY <1>0, <1>5, BeginKeeps DEF Clear, EvictExpired
<1>6. QED
  BY <1>1, <1>2, <1>3, <1>4, <1>5 DEF CallStep

-----------------------------------------------------------------------------

\* A call goes on with an entry that suits its new stage.
LEMMA ProceedKeeps ==
  ASSUME Inv, NEW c \in Clients, call[c] # None,
         NEW stage \in {"redis", "clean", "update", "fallback"}, NEW e \in Entry \cup {None},
         GoodEntry(e), Proceed(c, stage, e), now' = now,
         e # None <=> call[c].op \in Puts \/ stage = "update",
         stage = "update" => call[c].op \in Reads /\ call[c].since <= e.expiresAt,
         call[c].op \in {"Set", "SetMultiple"} => e = call[c].entry
  PROVE  CallsGood'
<1> DEFINE x == [call[c] EXCEPT !.stage = stage, !.entry = e]
<1>1. call[c] \in Call /\ GoodCall(call[c])
  BY DEF Inv
<1>2. x \in Call /\ x.op = call[c].op /\ x.since = call[c].since /\ x.entry = e /\ x.stage = stage
  BY <1>1 DEF Call
<1>3. call' = [call EXCEPT ![c] = x]
  BY DEF Proceed
<1> HIDE DEF x
<1>4. GoodCall(x)
  BY <1>1, <1>2 DEF GoodCall
<1>5. QED
  BY <1>2, <1>3, <1>4, CallChanges

LEMMA PrimaryStepKeeps ==
  ASSUME Inv, NEW c \in Clients, PrimaryStep(c)
  PROVE  Inv'
<1>0. GoodEntry(None) /\ GoodCall(call[c]) /\ call[c] \in Call \cup {None}
  BY DEF Inv, GoodEntry
<1>1. CASE primaryHit(c)
  <2>1. PICK k \in call[c].keys : Live(redis[k]) /\ Proceed(c, "update", redis[k])
    BY <1>1 DEF primaryHit
  <2>2. At(c, "redis", Reads) /\ call[c] \in Call /\ k \in Keys
    BY <1>0, <1>1, <2>1 DEF primaryHit, At, Call
  <2>3. redis[k] \in Entry /\ GoodEntry(redis[k]) /\ now <= redis[k].expiresAt
    BY <2>1, <2>2 DEF Live, IsExpired, Inv, Entry
  <2>4. call[c].since <= redis[k].expiresAt
    BY <1>0, <2>2, <2>3 DEF GoodCall, At, Inv, Entry, Call
  <2>5. redis[k] # None /\ call[c].op \in Reads /\ call[c].op \notin Puts
    BY <2>1, <2>2 DEF Live, At, Reads, Puts
  <2>6. CallsGood'
    BY <1>1, <2>1, <2>2, <2>3, <2>4, <2>5, ProceedKeeps DEF primaryHit, At, Puts
  <2>7. QED
    BY <1>1, <2>6 DEF primaryHit, Inv, CallsGood
<1>2. ASSUME At(c, "redis", Reads) \/ At(c, "clean", Reads),
             NEW stage \in {"clean", "fallback"}, Proceed(c, stage, None), now' = now
      PROVE  CallsGood'
  BY <1>0, <1>2, ProceedKeeps DEF At, Reads, Puts
<1>3. CASE primaryMiss(c)
  BY <1>2, <1>3 DEF primaryMiss, Inv, CallsGood
<1>4. CASE primaryExpired(c)
  BY <1>2, <1>4 DEF primaryExpired, Inv, CallsGood
<1>5. CASE primaryClean(c)
  <2>1. RedisGood'
    BY <1>0, <1>5, PutKeepsRedis DEF primaryClean, Inv, RedisGood
  <2>2. QED
    BY <1>2, <1>5, <2>1 DEF primaryClean, Inv, CallsGood, RedisGood
<1>6. CASE primaryWrite(c)
  <2>1. PICK K \in SUBSET call[c].keys, stage \in {"redis", "fallback"} :
          redis' = Applied(c, K) /\ Proceed(c, stage, call[c].entry)
    BY <1>6 DEF primaryWrite
  <2>2. call[c] \in Call /\ call[c] # None /\ call[c].stage # "update" /\ call[c].op \notin Reads
    BY <1>0, <1>6 DEF primaryWrite, At, Reads, Puts, Drops
  <2>3. GoodEntry(call[c].entry) /\ call[c].entry \in Entry \cup {None}
    BY <1>0, <2>2 DEF GoodCall, Call
  <2>4. call[c].entry # None <=> call[c].op \in Puts
    BY <1>0, <2>2 DEF GoodCall
  <2>5. CallsGood'
    BY <1>6, <2>1, <2>2, <2>3, <2>4, ProceedKeeps DEF primaryWrite
  <2>6. RedisGood'
    BY <1>0, <2>1, <2>3, PutKeepsRedis DEF Applied, Inv, RedisGood
  <2>7. QED
    BY <1>6, <2>5, <2>6 DEF primaryWrite, Inv, CallsGood, RedisGood
<1>7. ASSUME NEW k \in Keys, findExpired(c, k) PROVE Inv'
  <2> DEFINE x == [call[c] EXCEPT !.keys = @ \cup {k}]
  <2>1. call[c] \in Call /\ call[c] # None
    BY <1>0, <1>7 DEF findExpired, At
  <2>2. x \in Call /\ x.op = call[c].op /\ x.stage = call[c].stage /\ x.entry = call[c].entry
        /\ x.since = call[c].since
    BY <2>1 DEF Call
  <2>3. call' = [call EXCEPT ![c] = x]
    BY <1>7 DEF findExpired
  <2> HIDE DEF x
  <2>4. GoodCall(x)
    BY <1>0, <2>1, <2>2 DEF GoodCall
  <2>5. CallsGood'
    BY <1>7, <2>2, <2>3, <2>4, CallChanges DEF findExpired
  <2>6. QED
    BY <1>7, <2>5 DEF findExpired, Inv, CallsGood
<1>8. QED
  BY <1>1, <1>3, <1>4, <1>5, <1>6, <1>7 DEF PrimaryStep

-----------------------------------------------------------------------------

\* What a call leaves in the fallback does not live longer than it should.
LEMMA FallbackEntryGood ==
  ASSUME Inv, NEW c \in Clients, At(c, "update", Reads) \/ At(c, "fallback", Puts)
  PROVE  FallbackEntry(c) \in Copy /\ GoodCopy(FallbackEntry(c))
<1> DEFINE e == call[c].entry
           life == IF call[c].op = "SetMultiple" THEN FallbackTTL ELSE FallbackLife
<1>1. call[c] \in Call /\ GoodCall(call[c])
  BY DEF Inv, At
<1>2. e # None /\ e \in Entry /\ e.expiresAt <= e.value + Life
  BY <1>1 DEF GoodCall, GoodEntry, At
<1>3. life \in Int /\ life <= FallbackTTL
  BY FallbackAssumption DEF FallbackLife
<1>4. call[c].op \notin {"GetWithMetadata", "SetWithMetadata"} => now <= e.value + Life + Lag
  <2>1. CASE At(c, "update", Reads)
    <3>1. call[c].since <= e.expiresAt /\ now <= call[c].since + Lag
      BY <1>1, <2>1 DEF GoodCall, At
    <3>2. QED
      BY <1>1, <1>2, <3>1, FallbackAssumption DEF Entry, Call, Inv
  <2>2. CASE At(c, "fallback", Puts)
    <3>1. call[c].op \in {"Set", "SetMultiple"} =>
            e.value = call[c].since /\ now <= call[c].since + Lag
      BY <1>1, <2>2 DEF GoodCall, At
    <3>2. QED
      BY <1>1, <1>2, <2>2, <3>1, FallbackAssumption DEF Entry, Call, Inv, At, Puts
  <2>3. QED
    BY <2>1, <2>2
<1>5. now \in Int /\ Life \in Nat /\ Lag \in Nat /\ FallbackTTL \in Nat
  BY FallbackAssumption DEF Inv
<1>6. e.value \in Int /\ e.expiresAt \in Int
  BY <1>2 DEF Entry
<1>7. FallbackEntry(c) = [value |-> e.value, since |-> e.value,
                          expiresAt |-> IF call[c].op \in {"GetWithMetadata", "SetWithMetadata"}
                                        THEN e.expiresAt ELSE now + life]
  BY DEF FallbackEntry
<1> HIDE DEF e, life
<1>8. QED
  BY <1>2, <1>3, <1>4, <1>5, <1>6, <1>7 DEF Copy, GoodCopy

LEMMA FallbackStepKeeps ==
  ASSUME Inv, NEW c \in Clients, FallbackStep(c)
  PROVE  Inv'
<1>0. GoodCopy(None)
  BY DEF GoodCopy
<1>1. ASSUME Return(c), now' = now PROVE CallsGood'
  BY <1>1, CallChanges DEF Return, GoodCall
<1>2. ASSUME Return(c), now' = now, redis' = redis, FallbackGood' PROVE Inv'
  BY <1>1, <1>2 DEF Inv, CallsGood, FallbackGood
<1>3. CASE updateFallback(c)
  BY <1>2, <1>3, FallbackEntryGood, PutKeepsFallback DEF updateFallback
<1>4. CASE serveFallback(c)
  BY <1>2, <1>4 DEF serveFallback, Inv, FallbackGood
<1>5. CASE missFallback(c)
  BY <1>0, <1>2, <1>5, PutKeepsFallback DEF missFallback
<1>6. CASE putFallback(c)
  BY <1>2, <1>6, FallbackEntryGood, PutKeepsFallback DEF putFallback
<1>7. CASE dropFallback(c) \/ evictFallback(c)
  BY <1>0, <1>2, <1>7, PutKeepsFallback DEF dropFallback, evictFallback
<1>8. CASE expireFallback(c)
  <2>1. ASSUME NEW k \in Keys, fallback[k] # None
        PROVE  LET e == [fallback[k] EXCEPT !.expiresAt = now + FallbackTTL, !.since = now]
               IN  e \in Copy /\ GoodCopy(e)
    <3> DEFINE e == [fallback[k] EXCEPT !.expiresAt = now + FallbackTTL, !.since = now]
    <3>1. fallback[k] \in Copy /\ now \in Int /\ now + FallbackTTL \in Int
      BY <2>1, FallbackAssumption DEF Inv
    <3>2. e \in Copy /\ e.expiresAt = now + FallbackTTL /\ e.since = now
      BY <3>1 DEF Copy
    <3> HIDE DEF e
    <3>3. GoodCopy(e)
      BY <3>1, <3>2, FallbackAssumption DEF GoodCopy
    <3>4. QED
      BY <3>2, <3>3 DEF e
  <2>2. FallbackGood'
    BY <1>8, <2>1 DEF expireFallback, Inv, FallbackGood
  <2>3. QED
    BY <1>2, <1>8, <2>2 DEF expireFallback
<1>9. QED
  BY <1>3, <1>4, <1>5, <1>6, <1>7, <1>8 DEF FallbackStep

LEMMA InvInit == Init => Inv
  BY FallbackAssumption DEF Init, Inv, GoodEntry, GoodCopy, GoodCall

LEMMA InvStep ==
  ASSUME Inv, [Next]_vars
  PROVE  Inv'
<1>1. ASSUME NEW c \in Clients, CallStep(c) \/ PrimaryStep(c) \/ FallbackStep(c) PROVE Inv'
  BY <1>1, CallStepKeeps, PrimaryStepKeeps, FallbackStepKeeps
<1>2. ASSUME NEW k \in Keys, redisLoses(k) \/ fallbackLoses(k) PROVE Inv'
  <2>1. GoodEntry(None) /\ GoodCopy(None)
    BY DEF GoodEntry, GoodCopy
  <2>2. CASE redisLoses(k)
    BY <2>1, <2>2, PutKeepsRedis DEF redisLoses, Inv, RedisGood, GoodCall
  <2>3. CASE fallbackLoses(k)
    BY <2>1, <2>3, PutKeepsFallback DEF fallbackLoses, Inv, FallbackGood, GoodCall
  <2>4. QED
    BY <1>2, <2>2, <2>3
<1>3. CASE Tick
  <2>1. now' \in 0 .. MaxTime
    BY <1>3, FallbackAssumption DEF Tick, Inv
  <2>2. ASSUME NEW c \in Clients PROVE GoodCall(call[c])'
    <3>1. call'[c] = call[c] /\ now' = now + 1 /\ GoodCall(call[c])
      BY <1>3 DEF Tick, Inv
    <3>2. CASE call[c] = None
      BY <3>1, <3>2 DEF GoodCall
    <3>3. CASE call[c] # None
      <4>1. call[c].since \in Int /\ now < call[c].since + Lag /\ call[c].since <= now
        BY <1>3, <3>1, <3>3 DEF Tick, GoodCall, Call
      <4>2. call[c].since <= now' /\ now' <= call[c].since + Lag
        BY <3>1, <4>1, FallbackAssumption DEF Inv
      <4>3. QED
        BY <3>1, <3>3, <4>2 DEF GoodCall
    <3>4. QED
      BY <3>2, <3>3
  <2>3. QED
    BY <1>3, <2>1, <2>2 DEF Tick, Inv
<1>4. CASE UNCHANGED vars
  BY <1>4 DEF vars, Inv, GoodCall
<1>5. QED
  BY <1>1, <1>2, <1>3, <1>4 DEF Next

LEMMA InvHolds == Spec => []Inv
<1>1. Init => Inv
  BY InvInit
<1>2. Inv /\ [Next]_vars => Inv'
  BY InvStep
<1>3. QED
  BY <1>1, <1>2, PTL DEF Spec

-----------------------------------------------------------------------------

\* The type invariant: no operation goes on with an entry it does not have, whatever
\* Redis answers.
THEOREM TypeCorrect == Spec => []TypeOK
<1>1. Inv => TypeOK
  BY DEF Inv, TypeOK, GoodCall
<1>2. QED
  BY <1>1, InvHolds, PTL

\* What is served is never older than its ttl, one call and FallbackTTL: the two
\* layers never keep a value alive by copying it.
THEOREM ServedAgeBounded == Spec => ServedAge
<1>1. ASSUME Inv, NEW c \in Clients, updateFallback(c)
      PROVE  now <= call[c].entry.value + Life + Lag
  <2>1. call[c] \in Call /\ GoodCall(call[c]) /\ call[c].stage = "update" /\ call[c] # None
    BY <1>1 DEF updateFallback, At, Inv
  <2>2. call[c].entry \in Entry /\ call[c].entry.expiresAt <= call[c].entry.value + Life
    BY <2>1 DEF GoodCall, GoodEntry
  <2>3. now <= call[c].since + Lag /\ call[c].since <= call[c].entry.expiresAt
    BY <2>1 DEF GoodCall
  <2>4. QED
    BY <1>1, <2>1, <2>2, <2>3, FallbackAssumption DEF Entry, Call, Inv
<1>2. ASSUME Inv, NEW c \in Clients, serveFallback(c), NEW k \in call[c].keys, Live(fallback[k])
      PROVE  now <= fallback[k].since + Life + Lag + FallbackTTL
  <2>1. call[c] \in Call /\ k \in Keys
    BY <1>2 DEF serveFallback, At, Inv, Call
  <2>2. fallback[k] \in Copy /\ GoodCopy(fallback[k]) /\ now <= fallback[k].expiresAt
    BY <1>2, <2>1 DEF Live, IsExpired, Inv, Copy
  <2>3. QED
    BY <1>2, <2>2, FallbackAssumption DEF GoodCopy, Copy, Inv, Live
<1> DEFINE Young(c) ==
             /\ updateFallback(c) => now <= call[c].entry.value + Life + Lag
             /\ serveFallback(c) =>
                  \A k \in call[c].keys : Live(fallback[k]) =>
                    now <= fallback[k].since + Life + Lag + FallbackTTL
<1>3. Inv => \A c \in Clients : Young(c)
  BY <1>1, <1>2
<1>4. Inv /\ [Next]_vars => [\A c \in Clients : Young(c)]_vars
  BY <1>3
<1>5. QED
  BY <1>4, InvHolds, PTL DEF Spec, ServedAge
=============================================================================
