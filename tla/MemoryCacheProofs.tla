-------------------------- MODULE MemoryCacheProofs --------------------------
(***************************************************************************)
(* The types and the size of the in-memory cache, and that it implements   *)
(* LossyCache, for every set of keys and clients, every MaxSize, batch     *)
(* size and eviction share, and any sharing of entries by the callers.     *)
(***************************************************************************)
EXTENDS MemoryCache, TLAPS, FiniteSetTheorems

Ceiling == IF MaxSize > EvictShare * MaxBatch THEN MaxSize ELSE EvictShare * MaxBatch

\* The constants and the ceiling they give.
LEMMA Constants ==
  /\ MaxSize \in Nat \ {0} /\ MaxBatch \in Nat \ {0} /\ EvictShare \in Nat \ {0}
  /\ Ceiling \in Nat /\ MaxSize <= Ceiling /\ EvictShare * MaxBatch <= Ceiling
  /\ MaxBatch <= EvictShare * MaxBatch
<1>1. MaxSize \in Nat \ {0} /\ MaxBatch \in Nat \ {0} /\ EvictShare \in Nat \ {0}
  BY CacheAssumption
<1>2. EvictShare * MaxBatch \in Nat
  BY <1>1
<1>3. PICK d \in Nat : EvictShare = d + 1
  <2>1. EvictShare - 1 \in Nat /\ EvictShare = (EvictShare - 1) + 1
    BY <1>1
  <2>2. QED
    BY <2>1
<1>4. EvictShare * MaxBatch = d * MaxBatch + MaxBatch /\ d * MaxBatch \in Nat
  BY <1>1, <1>3
<1>5. QED
  BY <1>1, <1>2, <1>4 DEF Ceiling

-----------------------------------------------------------------------------
\* Sizes.

\* The stored keys are finitely many.
LEMMA StoredFinite == IsFiniteSet(Stored) /\ Cardinality(Stored) \in Nat
BY CacheAssumption, FS_Subset, FS_CardinalityType DEF Stored

\* A map whose keys are among K, which has at most n elements, has at most n keys.
LEMMA StoredWithin ==
  ASSUME NEW K, IsFiniteSet(K), NEW n \in Nat, Cardinality(K) <= n, Stored' \subseteq K
  PROVE  Cardinality(Stored') <= n /\ Cardinality(Stored') \in Nat
BY FS_Subset, FS_CardinalityType

\* Whole division rounds down.
LEMMA DivBounds ==
  ASSUME NEW x \in Nat, NEW d \in Nat \ {0}
  PROVE  /\ x \div d \in Nat
         /\ (x \div d) * d <= x
         /\ x < (x \div d) * d + d
OBVIOUS

\* evictLRU leaves EvictCount fewer keys, at least one fewer, if there are any.
LEMMA EvictSize ==
  ASSUME NEW V \in evictLRU
  PROVE  /\ IsFiniteSet(Stored \ V) /\ Cardinality(Stored \ V) \in Nat
         /\ EvictCount(Cardinality(Stored)) \in Nat \ {0}
         /\ Cardinality(Stored) # 0 =>
              Cardinality(Stored \ V) = Cardinality(Stored) - EvictCount(Cardinality(Stored))
         /\ Cardinality(Stored) = 0 => Cardinality(Stored \ V) = 0
<1>1. IsFiniteSet(Stored) /\ Cardinality(Stored) \in Nat
  BY StoredFinite
<1>2. Stored \cap V = V /\ V \subseteq Stored
  BY DEF evictLRU
<1>3. /\ IsFiniteSet(Stored \ V) /\ Cardinality(Stored \ V) \in Nat
      /\ Cardinality(Stored \ V) = Cardinality(Stored) - Cardinality(V)
  BY <1>1, <1>2, FS_Difference, FS_CardinalityType
<1>4. Cardinality(V) = IF Stored = {} THEN 0 ELSE EvictCount(Cardinality(Stored))
  BY DEF evictLRU
<1>5. Stored = {} <=> Cardinality(Stored) = 0
  BY <1>1, FS_EmptySet
<1>6. EvictCount(Cardinality(Stored)) \in Nat \ {0}
  <2>1. Cardinality(Stored) \div EvictShare \in Nat
    BY <1>1, Constants, DivBounds
  <2>2. QED
    BY <2>1 DEF EvictCount
<1>7. QED
  BY <1>1, <1>3, <1>4, <1>5, <1>6

\* A map below EvictShare full batches stays there after an eviction and a
\* batch; above, the eviction makes room for the batch.
LEMMA BatchArithmetic ==
  ASSUME NEW n \in Nat \ {0}, NEW b \in Nat, b <= MaxBatch, n <= Ceiling
  PROVE  n - EvictCount(n) + b <= Ceiling
<1> DEFINE q == n \div EvictShare
<1>1. /\ MaxBatch \in Nat \ {0} /\ EvictShare \in Nat \ {0} /\ Ceiling \in Nat
      /\ EvictShare * MaxBatch <= Ceiling
  BY Constants
<1>2. q \in Nat /\ q * EvictShare <= n /\ n < q * EvictShare + EvictShare
  BY <1>1, DivBounds
<1>3. EvictCount(n) \in Nat /\ EvictCount(n) >= q
  BY <1>2 DEF EvictCount
<1> HIDE DEF q
<1>4. CASE q >= MaxBatch
  BY <1>1, <1>2, <1>3, <1>4
<1>5. CASE q < MaxBatch
  <2>1. PICK d \in Nat : MaxBatch = q + 1 + d
    <3>1. MaxBatch - q - 1 \in Nat /\ MaxBatch = q + 1 + (MaxBatch - q - 1)
      BY <1>1, <1>2, <1>5
    <3>2. QED
      BY <3>1
  <2>2. PICK e \in Nat : EvictShare = e + 1
    <3>1. EvictShare - 1 \in Nat /\ EvictShare = (EvictShare - 1) + 1
      BY <1>1
    <3>2. QED
      BY <3>1
  <2>3. EvictShare * MaxBatch = q * EvictShare + EvictShare + d * EvictShare
    BY <1>1, <1>2, <2>1
  <2>4. d * EvictShare = d * e + d /\ d * e \in Nat
    BY <2>1, <2>2
  <2>5. n - q + MaxBatch <= EvictShare * MaxBatch
    BY <1>1, <1>2, <2>1, <2>3, <2>4
  <2>6. QED
    BY <1>1, <1>2, <1>3, <2>5
<1>6. QED
  BY <1>1, <1>2, <1>4, <1>5

\* Store: the size stays, or stays within MaxSize.
LEMMA StoreSize ==
  ASSUME NEW k \in Keys, NEW e, Store(k, e)
  PROVE  Cardinality(Stored') <= IF Cardinality(Stored) > MaxSize
                                 THEN Cardinality(Stored) ELSE MaxSize
<1>1. /\ IsFiniteSet(Stored) /\ Cardinality(Stored) \in Nat /\ MaxSize \in Nat \ {0}
  BY StoredFinite, Constants
<1>2. CASE Cardinality(Stored) >= MaxSize
  <2>1. PICK V \in evictLRU : data' = [Without(data, V) EXCEPT ![k] = e]
    BY <1>2 DEF Store
  <2>2. Stored' \subseteq (Stored \ V) \cup {k}
    BY <2>1 DEF Stored, Without
  <2>3. /\ IsFiniteSet(Stored \ V)
        /\ Cardinality(Stored \ V) \in Nat
        /\ Cardinality(Stored \ V) <= Cardinality(Stored) - 1
    BY <1>1, <1>2, EvictSize
  <2>4. /\ IsFiniteSet((Stored \ V) \cup {k})
        /\ Cardinality((Stored \ V) \cup {k}) <= Cardinality(Stored)
    BY <1>1, <2>3, FS_AddElement
  <2>5. Cardinality(Stored') <= Cardinality(Stored) /\ Cardinality(Stored') \in Nat
    BY <1>1, <2>2, <2>4, StoredWithin
  <2>6. QED
    BY <1>1, <1>2, <2>5
<1>3. CASE Cardinality(Stored) < MaxSize
  <2>0. data' = [data EXCEPT ![k] = e]
    BY <1>1, <1>3 DEF Store
  <2>1. Stored' \subseteq Stored \cup {k}
    BY <2>0 DEF Stored
  <2>2. IsFiniteSet(Stored \cup {k}) /\ Cardinality(Stored \cup {k}) <= MaxSize
    BY <1>1, <1>3, FS_AddElement
  <2>3. QED
    BY <1>1, <1>3, <2>1, <2>2, StoredWithin
<1>4. QED
  BY <1>1, <1>2, <1>3

\* SetMultiple: the size stays below the ceiling.
LEMMA BatchSize ==
  ASSUME NEW c, NEW items \in SUBSET Keys, NEW v, NEW ttl,
         Cardinality(items) \in 1 .. MaxBatch, SetMultiple(c, items, v, ttl),
         Cardinality(Stored) <= Ceiling
  PROVE  Cardinality(Stored') <= Ceiling
<1>1. /\ IsFiniteSet(Stored) /\ Cardinality(Stored) \in Nat /\ MaxSize \in Nat \ {0}
      /\ MaxBatch \in Nat /\ Ceiling \in Nat /\ MaxSize <= Ceiling /\ MaxBatch <= Ceiling
  BY StoredFinite, Constants
<1>2. IsFiniteSet(items) /\ Cardinality(items) \in Nat /\ Cardinality(items) <= MaxBatch
  BY <1>1, CacheAssumption, FS_Subset
<1>3. PICK V \in IF Cardinality(Stored) + Cardinality(items) >= MaxSize
                 THEN evictLRU ELSE {{}} :
        Stored' \subseteq (Stored \ V) \cup items
  BY DEF SetMultiple, Stored, Without
<1>4. CASE Cardinality(Stored) + Cardinality(items) >= MaxSize
  <2>1. V \in evictLRU
    BY <1>3, <1>4
  <2>2. IsFiniteSet(Stored \ V) /\ Cardinality(Stored \ V) \in Nat
    BY <2>1, EvictSize
  <2>3. /\ IsFiniteSet((Stored \ V) \cup items)
        /\ Cardinality((Stored \ V) \cup items) <= Cardinality(Stored \ V) + Cardinality(items)
    <3> DEFINE R == Stored \ V
    <3>1. IsFiniteSet(R) /\ Cardinality(R) \in Nat
      BY <2>2
    <3> HIDE DEF R
    <3>2. IsFiniteSet(R \cap items) /\ Cardinality(R \cap items) \in Nat
      BY <1>2, FS_Subset, FS_CardinalityType
    <3>3. /\ IsFiniteSet(R \cup items)
          /\ Cardinality(R \cup items) <= Cardinality(R) + Cardinality(items)
      BY <1>2, <3>1, <3>2, FS_Union
    <3>4. QED
      BY <3>3 DEF R
  <2>4. Cardinality(Stored \ V) + Cardinality(items) <= Ceiling
    <3>1. CASE Cardinality(Stored) = 0
      BY <1>1, <1>2, <2>1, <3>1, EvictSize
    <3>2. CASE Cardinality(Stored) # 0
      BY <1>1, <1>2, <2>1, <3>2, EvictSize, BatchArithmetic
    <3>3. QED
      BY <3>1, <3>2
  <2>5. QED
    BY <1>1, <1>2, <1>3, <2>2, <2>3, <2>4, StoredWithin, FS_CardinalityType
<1>5. CASE Cardinality(Stored) + Cardinality(items) < MaxSize
  <2>1. Stored' \subseteq Stored \cup items
    BY <1>3
  <2>2. /\ IsFiniteSet(Stored \cup items)
        /\ Cardinality(Stored \cup items) <= Cardinality(Stored) + Cardinality(items)
    <3>1. IsFiniteSet(Stored \cap items) /\ Cardinality(Stored \cap items) \in Nat
      BY <1>2, FS_Subset, FS_CardinalityType
    <3>2. QED
      BY <1>1, <1>2, <3>1, FS_Union
  <2>3. QED
    BY <1>1, <1>2, <1>5, <2>1, <2>2, StoredWithin, FS_CardinalityType
<1>6. QED
  BY <1>1, <1>2, <1>4, <1>5

-----------------------------------------------------------------------------
\* The invariants.

\* Nothing but Set, SetWithMetadata and SetMultiple adds a key.
LEMMA SizeStep ==
  ASSUME TypeOK, SizeBounded, [Next]_vars
  PROVE  SizeBounded'
<1> SUFFICES Cardinality(Stored') <= Ceiling
  BY DEF SizeBounded, Ceiling
<1>1. /\ IsFiniteSet(Stored) /\ Cardinality(Stored) \in Nat
      /\ Cardinality(Stored) <= Ceiling /\ Ceiling \in Nat
      /\ MaxSize \in Nat /\ MaxSize <= Ceiling
  BY StoredFinite, Constants DEF SizeBounded, Ceiling
<1>s. ASSUME Stored' \subseteq Stored
      PROVE  Cardinality(Stored') <= Ceiling
  BY <1>1, <1>s, StoredWithin
<1>2. ASSUME NEW c \in Clients, GetStep(c)
      PROVE  Cardinality(Stored') <= Ceiling
  <2>1. Stored' \subseteq Stored
    BY <1>2 DEF GetStep, Get, checkHit, handOut, checkExpired, removeExpired, Stored, TypeOK
  <2>2. QED
    BY <1>s, <2>1
<1>3. ASSUME NEW c \in Clients, NEW k \in Keys, NEW e, Store(k, e)
      PROVE  Cardinality(Stored') <= Ceiling
  <2>1. Stored' \subseteq Keys
    BY DEF Stored
  <2>2. Cardinality(Stored') \in Nat
    BY <2>1, CacheAssumption, FS_Subset, FS_CardinalityType
  <2>3. QED
    BY <1>1, <1>3, <2>2, StoreSize
<1>4. ASSUME NEW c \in Clients, SetStep(c)
      PROVE  Cardinality(Stored') <= Ceiling
  <2>1. ASSUME NEW k \in Keys, NEW v \in Values, NEW ttl \in TTLs, Set(c, k, v, ttl)
        PROVE  Cardinality(Stored') <= Ceiling
    <3>1. Stored' \subseteq Stored
      BY <2>1 DEF Set, Stored
    <3>2. QED
      BY <1>s, <3>1
  <2>2. CASE storeSet(c)
    <3>1. key[c] \in Keys /\ Store(key[c], held[c])
      BY <2>2 DEF storeSet, TypeOK
    <3>2. QED
      BY <1>3, <3>1
  <2>3. ASSUME NEW k \in Keys, NEW entry, SetWithMetadata(c, k, entry)
        PROVE  Cardinality(Stored') <= Ceiling
    BY <1>3, <2>3 DEF SetWithMetadata
  <2>4. ASSUME NEW items \in SUBSET Keys, NEW v \in Values, NEW ttl \in TTLs,
               Cardinality(items) \in 1 .. MaxBatch, SetMultiple(c, items, v, ttl)
        PROVE  Cardinality(Stored') <= Ceiling
    BY <1>1, <2>4, BatchSize
  <2>5. QED
    BY <1>4, <2>1, <2>2, <2>3, <2>4 DEF SetStep
<1>5. ASSUME NEW c \in Clients, DropStep(c)
      PROVE  Cardinality(Stored') <= Ceiling
  <2>1. \A k \in Keys : data[k] = None => data'[k] = None
    BY <1>5 DEF DropStep, Delete, Clear, EvictExpired, Expire, expired, Without, Stored, TypeOK
  <2>2. Stored' \subseteq Stored
    BY <2>1 DEF Stored
  <2>3. QED
    BY <1>s, <2>2
<1>6. CASE Tick \/ UNCHANGED vars
  <2>1. Stored' \subseteq Stored
    BY <1>6 DEF Tick, vars, Stored
  <2>2. QED
    BY <1>s, <2>1
<1>7. QED
  BY <1>2, <1>4, <1>5, <1>6 DEF Next

\* Entries are built, stored and rewritten as entries.
LEMMA TypeStep ==
  ASSUME TypeOK, [Next]_vars
  PROVE  TypeOK'
<1> DEFINE Slot == {None} \cup Entry
<1>0. /\ now \in 0 .. MaxTime /\ now \in Int /\ None \notin Entry /\ TTLs \subseteq Int
      /\ data \in [Keys -> Slot] /\ held \in [Clients -> Slot] /\ kept \subseteq Entry
      /\ pc \in [Clients -> {"idle", "check", "remove", "store", "expire"}]
      /\ key \in [Clients -> {None} \cup Keys]
      /\ \A c \in Clients : pc[c] # "idle" => key[c] \in Keys /\ held[c] # None
  BY CacheAssumption DEF TypeOK
<1>e. ASSUME NEW a \in Addrs, NEW v \in Values, NEW t \in Int, NEW u \in Int
      PROVE  NewEntry(a, v, t, u) \in Entry
  BY DEF NewEntry, Entry
<1>k. ASSUME NEW e \in Entry, Keeps(e)
      PROVE  kept' \subseteq Entry
  BY <1>0, <1>k DEF Keeps
<1>r. ASSUME NEW c \in Clients, Return(c), UNCHANGED now, data' \in [Keys -> Slot],
             kept' \subseteq Entry
      PROVE  TypeOK'
  BY <1>0, <1>r DEF Return, TypeOK
<1>i. ASSUME NEW c \in Clients, NEW k \in Keys, NEW e \in Entry,
             NEW at \in {"check", "store", "expire"},
             Inside(c, k, at, e), UNCHANGED <<now, data, kept>>
      PROVE  TypeOK'
  BY <1>0, <1>i DEF Inside, TypeOK
<1>d. ASSUME UNCHANGED <<now, pc, key, held>>, data' \in [Keys -> Slot], kept' \subseteq Entry
      PROVE  TypeOK'
  BY <1>0, <1>d DEF TypeOK
<1>s. ASSUME NEW k \in Keys, NEW e \in Entry, Store(k, e)
      PROVE  data' \in [Keys -> Slot]
  <2>1. \A V : Without(data, V) \in [Keys -> Slot]
    BY <1>0 DEF Without
  <2>2. QED
    BY <1>0, <1>s, <2>1 DEF Store
<1>1. ASSUME NEW c \in Clients, GetStep(c)
      PROVE  TypeOK'
  <2>1. ASSUME NEW k \in Keys, Get(c, k)
        PROVE  TypeOK'
    <3>1. data[k] \in Entry
      BY <1>0, <2>1 DEF Get
    <3>2. QED
      BY <1>i, <2>1, <3>1 DEF Get
  <2>2. CASE checkHit(c)
    BY <1>0, <1>r, <2>2 DEF checkHit
  <2>6. CASE handOut(c)
    <3>1. kept' \subseteq Entry
      BY <1>0, <1>k, <2>6 DEF handOut
    <3>2. QED
      BY <1>0, <1>r, <2>6, <3>1 DEF handOut
  <2>3. CASE checkExpired(c)
    BY <1>0, <2>3 DEF checkExpired, TypeOK
  <2>4. CASE removeExpired(c)
    <3>1. data' \in [Keys -> Slot]
      BY <1>0, <2>4 DEF removeExpired
    <3>2. QED
      BY <1>0, <1>r, <2>4, <3>1 DEF removeExpired
  <2>5. QED
    BY <1>1, <2>1, <2>2, <2>3, <2>4, <2>6 DEF GetStep
<1>2. ASSUME NEW c \in Clients, SetStep(c)
      PROVE  TypeOK'
  <2>1. ASSUME NEW k \in Keys, NEW v \in Values, NEW ttl \in TTLs, Set(c, k, v, ttl)
        PROVE  TypeOK'
    <3>1. PICK a \in Addrs :
            Inside(c, k, "store", NewEntry(a, v, now, now + EffectiveTTL(ttl)))
      BY <2>1 DEF Set, Fresh
    <3>2. EffectiveTTL(ttl) \in Int
      BY <1>0, CacheAssumption DEF EffectiveTTL
    <3>3. NewEntry(a, v, now, now + EffectiveTTL(ttl)) \in Entry
      BY <1>0, <1>e, <3>2
    <3>4. UNCHANGED <<now, data, kept>>
      BY <2>1 DEF Set
    <3>5. QED
      BY <1>i, <3>1, <3>3, <3>4
  <2>2. CASE storeSet(c)
    <3>1. key[c] \in Keys /\ held[c] \in Entry /\ Store(key[c], held[c])
      BY <1>0, <2>2 DEF storeSet
    <3>2. QED
      BY <1>0, <1>r, <1>s, <2>2, <3>1 DEF storeSet
  <2>3. ASSUME NEW k \in Keys, NEW entry \in kept \cup Made, SetWithMetadata(c, k, entry)
        PROVE  TypeOK'
    <3>1. entry \in Entry
      <4>1. ASSUME NEW a \in Fresh, NEW v \in Values, NEW created \in 0 .. now, NEW ttl \in TTLs
            PROVE  NewEntry(a, v, created, created + ttl) \in Entry
        <5>1. a \in Addrs /\ created \in Int /\ created + ttl \in Int
          BY <1>0 DEF Fresh
        <5>2. QED
          BY <1>e, <5>1
      <4>2. QED
        BY <1>0, <4>1 DEF Made
    <3>2. data' \in [Keys -> Slot] /\ kept' \subseteq Entry
      BY <1>k, <1>s, <2>3, <3>1 DEF SetWithMetadata
    <3>3. QED
      BY <1>d, <2>3, <3>2 DEF SetWithMetadata
  <2>4. ASSUME NEW items \in SUBSET Keys, NEW v \in Values, NEW ttl \in TTLs,
               SetMultiple(c, items, v, ttl)
        PROVE  TypeOK'
    <3>1. PICK f \in Allocations(items) : \E V :
            data' = [k \in Keys |-> IF k \in items THEN NewEntry(f[k], v, now, now + ttl)
                                    ELSE Without(data, V)[k]]
      BY <2>4 DEF SetMultiple
    <3>2. \A k \in items : f[k] \in Addrs
      BY DEF Allocations
    <3>3. \A k \in items : NewEntry(f[k], v, now, now + ttl) \in Entry
      BY <1>0, <1>e, <3>2
    <3>4. \A V : \A k \in Keys : Without(data, V)[k] \in Slot
      BY <1>0 DEF Without
    <3>5. data' \in [Keys -> Slot]
      BY <3>1, <3>3, <3>4
    <3>6. QED
      BY <1>0, <1>d, <2>4, <3>5 DEF SetMultiple
  <2>5. QED
    BY <1>2, <2>1, <2>2, <2>3, <2>4 DEF SetStep
<1>3. ASSUME NEW c \in Clients, DropStep(c)
      PROVE  TypeOK'
  <2>1. ASSUME (\E k \in Keys : Delete(c, k)) \/ Clear(c) \/ EvictExpired(c)
        PROVE  TypeOK'
    <3>1. data' \in [Keys -> Slot]
      BY <1>0, <2>1 DEF Delete, Clear, EvictExpired, Without
    <3>2. QED
      BY <1>0, <1>d, <2>1, <3>1 DEF Delete, Clear, EvictExpired
  <2>2. ASSUME NEW k \in Keys, Expire(c, k)
        PROVE  TypeOK'
    <3>1. data[k] \in Entry
      BY <1>0, <2>2 DEF Expire
    <3>2. QED
      BY <1>i, <2>2, <3>1 DEF Expire
  <2>3. ASSUME NEW ttl \in TTLs, expired(c, ttl)
        PROVE  TypeOK'
    <3> DEFINE W(e) == IF e # None /\ e.addr = held[c].addr
                       THEN [e EXCEPT !.expiresAt = now + ttl] ELSE e
    <3>1. /\ data' = [k \in Keys |-> W(data[k])]
          /\ held' = [d \in Clients |-> IF d = c THEN None ELSE W(held[d])]
          /\ kept' = {W(e) : e \in kept}
          /\ pc' = [pc EXCEPT ![c] = "idle"] /\ key' = [key EXCEPT ![c] = None] /\ now' = now
      BY <2>3 DEF expired
    <3>2. \A e \in Entry : [e EXCEPT !.expiresAt = now + ttl] \in Entry
      BY <1>0 DEF Entry
    <3>3. \A e \in Slot : W(e) \in Slot /\ (e # None => W(e) # None)
      BY <1>0, <3>2
    <3>7. \A e \in kept : W(e) \in Entry
      BY <1>0, <3>2
    <3> HIDE DEF W
    <3>4. /\ data' \in [Keys -> Slot] /\ held' \in [Clients -> Slot] /\ kept' \subseteq Entry
          /\ key' \in [Clients -> {None} \cup Keys]
          /\ pc' \in [Clients -> {"idle", "check", "remove", "store", "expire"}]
      BY <1>0, <3>1, <3>3, <3>7
    <3>5. \A d \in Clients : pc'[d] # "idle" => key'[d] \in Keys /\ held'[d] # None
      BY <1>0, <3>1, <3>3
    <3>6. QED
      BY <1>0, <3>1, <3>4, <3>5 DEF TypeOK
  <2>4. QED
    BY <1>3, <2>1, <2>2, <2>3 DEF DropStep
<1>4. CASE Tick
  <2>1. now' \in 0 .. MaxTime
    BY <1>0, <1>4, CacheAssumption DEF Tick
  <2>2. QED
    BY <1>0, <1>4, <2>1 DEF Tick, TypeOK
<1>5. CASE UNCHANGED vars
  BY <1>5 DEF vars, TypeOK
<1>6. QED
  BY <1>1, <1>2, <1>3, <1>4, <1>5 DEF Next

\* TypeOK is an invariant of the cache.
THEOREM TypeCorrect == Spec => []TypeOK
<1>1. Init => TypeOK
  BY CacheAssumption DEF Init, TypeOK
<1>2. TypeOK /\ [Next]_vars => TypeOK'
  BY TypeStep
<1>3. QED
  BY <1>1, <1>2, PTL DEF Spec

\* SizeBounded holds for every MaxSize, batch size and eviction share.
THEOREM SizeCorrect == Spec => []SizeBounded
<1>1. Init => SizeBounded
  <2> SUFFICES ASSUME Init PROVE SizeBounded
    OBVIOUS
  <2>1. Stored = {}
    BY DEF Init, Stored
  <2>2. Cardinality(Stored) = 0
    BY <2>1, FS_EmptySet
  <2>3. QED
    BY <2>2, Constants DEF SizeBounded, Ceiling
<1>2. TypeOK /\ SizeBounded /\ [Next]_vars => SizeBounded'
  BY SizeStep
<1>3. QED
  BY <1>1, <1>2, TypeCorrect, PTL DEF Spec

\* SetMakesRoom: the action property of Set, from the size of Store.
THEOREM SetMakesRoomCorrect == Spec => SetMakesRoom
<1>1. TypeOK /\ [Next]_vars =>
        [\A c \in Clients : storeSet(c) =>
           Cardinality(Stored') <= IF Cardinality(Stored) > MaxSize
                                   THEN Cardinality(Stored) ELSE MaxSize]_vars
  <2> SUFFICES ASSUME TypeOK, NEW c \in Clients, storeSet(c)
               PROVE  Cardinality(Stored') <= IF Cardinality(Stored) > MaxSize
                                              THEN Cardinality(Stored) ELSE MaxSize
    OBVIOUS
  <2>1. key[c] \in Keys /\ Store(key[c], held[c])
    BY DEF storeSet, TypeOK
  <2>2. QED
    BY <2>1, StoreSize
<1>2. QED
  BY <1>1, TypeCorrect, PTL DEF Spec, SetMakesRoom

-----------------------------------------------------------------------------
\* Pointers.

\* All pointers to an address see the same entry, and every entry was made in the past.
Coherent == \A e, f \in Live : e.addr = f.addr => e = f

Past == \A e \in Live : e.createdAt <= now

\* What the pointers refer to.
LEMMA LiveFacts ==
  ASSUME TypeOK
  PROVE  /\ Live \subseteq Entry
         /\ \A k \in Keys : data[k] # None => data[k] \in Live
         /\ \A c \in Clients : held[c] # None => held[c] \in Live
         /\ \A e \in kept : e \in Live
         /\ \A e \in Live : e.addr \in InUse
BY CacheAssumption DEF TypeOK, Live, InUse

\* Where the entries that are live after a step come from.
LEMMA LiveWithin ==
  ASSUME NEW E, \A k \in Keys : data'[k] \in E \cup {None},
         \A c \in Clients : held'[c] \in E \cup {None}, kept' \subseteq E
  PROVE  Live' \subseteq E
BY DEF Live

\* Store puts the entry under k and keeps or drops the rest.
LEMMA StoreEffect ==
  ASSUME TypeOK, NEW k \in Keys, NEW e, Store(k, e)
  PROVE  /\ data'[k] = e
         /\ \A j \in Keys \ {k} : data'[j] \in {data[j], None}
         /\ Cardinality(Stored) < MaxSize => \A j \in Keys \ {k} : data'[j] = data[j]
<1>1. CASE Cardinality(Stored) >= MaxSize
  <2>1. ~(Cardinality(Stored) < MaxSize)
    BY <1>1, StoredFinite, Constants
  <2>2. QED
    BY <1>1, <2>1 DEF Store, Without, TypeOK
<1>2. CASE ~(Cardinality(Stored) >= MaxSize)
  BY <1>2 DEF Store, TypeOK
<1>3. QED
  BY <1>1, <1>2

\* A caller's own entry is at a new address and was made in the past.
LEMMA MadeFacts ==
  ASSUME TypeOK, NEW entry \in Made
  PROVE  entry \in Entry /\ entry.addr \notin InUse /\ entry.createdAt <= now
<1>1. PICK a \in Fresh, v \in Values, created \in 0 .. now, ttl \in TTLs :
        entry = NewEntry(a, v, created, created + ttl)
  BY DEF Made
<1>2. /\ a \in Addrs /\ a \notin InUse /\ created \in Int /\ created <= now
      /\ ttl \in Int /\ created + ttl \in Int
  BY CacheAssumption DEF Fresh, TypeOK
<1>3. QED
  BY <1>1, <1>2 DEF NewEntry, Entry

\* A step that adds the entries N, at new addresses, to those there are.
LEMMA AddedEntries ==
  ASSUME TypeOK, Coherent, Past, NEW N \in SUBSET Entry, Live' \subseteq Live \cup N,
         \A e \in N : e.addr \notin InUse /\ e.createdAt <= now,
         \A e, f \in N : e.addr = f.addr => e = f,
         now' \in Int, now <= now'
  PROVE  Coherent' /\ Past'
<1>1. /\ Live \subseteq Entry /\ now \in Int
      /\ \A e \in Live : e.addr \in InUse
  BY LiveFacts DEF TypeOK
<1>2. Coherent'
  BY <1>1 DEF Coherent
<1>3. Past'
  <2>1. \A e \in Entry : e.createdAt \in Int
    BY DEF Entry
  <2>2. QED
    BY <1>1, <2>1 DEF Past
<1>4. QED
  BY <1>2, <1>3

\* The entry an Expire writes to is replaced through every pointer.
LEMMA RewrittenEntries ==
  ASSUME TypeOK, Coherent, Past, NEW c \in Clients, NEW ttl \in TTLs, expired(c, ttl)
  PROVE  Coherent' /\ Past'
<1> DEFINE W(e) == IF e # None /\ e.addr = held[c].addr
                   THEN [e EXCEPT !.expiresAt = now + ttl] ELSE e
<1>1. /\ data' = [k \in Keys |-> W(data[k])]
      /\ held' = [d \in Clients |-> IF d = c THEN None ELSE W(held[d])]
      /\ kept' = {W(e) : e \in kept}
      /\ now' = now
  BY DEF expired
<1>2. Live \subseteq Entry /\ None \notin Entry
  BY LiveFacts, CacheAssumption
<1>3. \A e \in Live : W(e).addr = e.addr /\ W(e).createdAt = e.createdAt
  BY <1>2 DEF Entry
<1>4. W(None) = None
  OBVIOUS
<1> HIDE DEF W
<1> DEFINE E == {W(e) : e \in Live}
<1>5. Live' \subseteq E
  <2>1. \A e : e \in Live => W(e) \in E
    OBVIOUS
  <2> HIDE DEF E
  <2>2. \A k \in Keys : data'[k] \in E \cup {None}
    BY <1>1, <1>4, <2>1, LiveFacts
  <2>3. \A d \in Clients : held'[d] \in E \cup {None}
    BY <1>1, <1>4, <2>1, LiveFacts
  <2>4. kept' \subseteq E
    BY <1>1, <2>1, LiveFacts
  <2>5. QED
    BY <2>2, <2>3, <2>4, LiveWithin
<1>6. QED
  BY <1>1, <1>3, <1>5 DEF Coherent, Past

\* Every step keeps the pointers coherent.
LEMMA PointerStep ==
  ASSUME TypeOK, Coherent, Past, [Next]_vars
  PROVE  Coherent' /\ Past'
<1>0. /\ now \in Int /\ None \notin Entry
      /\ \A k \in Keys : data[k] \in Live \cup {None}
      /\ \A c \in Clients : held[c] \in Live \cup {None}
      /\ kept \subseteq Live
      /\ \A c \in Clients : pc[c] # "idle" => key[c] \in Keys /\ held[c] \in Live
      /\ data \in [Keys -> {None} \cup Entry] /\ held \in [Clients -> {None} \cup Entry]
  BY CacheAssumption, LiveFacts DEF TypeOK
<1>same. ASSUME Live' \subseteq Live, now' = now
         PROVE  Coherent' /\ Past'
  <2> DEFINE N == {}
  <2>1. /\ N \in SUBSET Entry /\ Live' \subseteq Live \cup N
        /\ \A e \in N : e.addr \notin InUse /\ e.createdAt <= now
        /\ \A e, f \in N : e.addr = f.addr => e = f
    BY <1>same
  <2> HIDE DEF N
  <2>2. QED
    BY <1>0, <1>same, <2>1, AddedEntries
<1>one. ASSUME NEW e \in Entry, e.addr \notin InUse, e.createdAt <= now,
               Live' \subseteq Live \cup {e}, now' = now
        PROVE  Coherent' /\ Past'
  <2> DEFINE N == {e}
  <2>1. /\ N \in SUBSET Entry /\ Live' \subseteq Live \cup N
        /\ \A g \in N : g.addr \notin InUse /\ g.createdAt <= now
        /\ \A g, f \in N : g.addr = f.addr => g = f
    BY <1>one
  <2> HIDE DEF N
  <2>2. QED
    BY <1>0, <1>one, <2>1, AddedEntries
<1>1. ASSUME NEW c \in Clients, GetStep(c) PROVE Coherent' /\ Past'
  <2>1. /\ \A k \in Keys : data'[k] \in Live \cup {None}
        /\ \A d \in Clients : held'[d] \in Live \cup {None}
    BY <1>0, <1>1 DEF GetStep, Get, checkHit, handOut, checkExpired, removeExpired, Inside, Return
  <2>2. kept' \subseteq Live /\ now' = now
    BY <1>0, <1>1 DEF GetStep, Get, checkHit, handOut, checkExpired, removeExpired, Keeps
  <2>3. QED
    BY <1>same, <2>1, <2>2, LiveWithin
<1>2. ASSUME NEW c \in Clients, NEW k \in Keys, NEW v \in Values, NEW ttl \in TTLs, Set(c, k, v, ttl)
      PROVE  Coherent' /\ Past'
  <2>1. PICK a \in Fresh : Inside(c, k, "store", NewEntry(a, v, now, now + EffectiveTTL(ttl)))
    BY <1>2 DEF Set
  <2> DEFINE e == NewEntry(a, v, now, now + EffectiveTTL(ttl))
  <2>2. a \in Addrs /\ a \notin InUse /\ EffectiveTTL(ttl) \in Int
    BY CacheAssumption DEF Fresh, EffectiveTTL
  <2>3. e \in Entry /\ e.addr \notin InUse /\ e.createdAt <= now
    BY <1>0, <2>2 DEF NewEntry, Entry
  <2> HIDE DEF e
  <2>4. UNCHANGED <<now, data, kept>> /\ held' = [held EXCEPT ![c] = e]
    BY <1>2, <2>1 DEF Set, Inside, e
  <2>5. Live' \subseteq Live \cup {e}
    BY <1>0, <2>4 DEF Live
  <2>6. QED
    BY <1>one, <2>3, <2>4, <2>5
<1>3. ASSUME NEW c \in Clients, storeSet(c) PROVE Coherent' /\ Past'
  <2>1. key[c] \in Keys /\ held[c] \in Live /\ Store(key[c], held[c])
    BY <1>0, <1>3 DEF storeSet
  <2>2. \A k \in Keys : data'[k] \in Live \cup {None}
    BY <1>0, <2>1, StoreEffect
  <2>3. (\A d \in Clients : held'[d] \in Live \cup {None}) /\ kept' \subseteq Live /\ now' = now
    BY <1>0, <1>3 DEF storeSet, Return
  <2>4. QED
    BY <1>same, <2>2, <2>3, LiveWithin
<1>4. ASSUME NEW c \in Clients, NEW k \in Keys, NEW entry \in kept \cup Made,
             SetWithMetadata(c, k, entry)
      PROVE  Coherent' /\ Past'
  <2>1. \A j \in Keys : data'[j] \in (Live \cup {entry}) \cup {None}
    BY <1>0, <1>4, StoreEffect DEF SetWithMetadata
  <2>2. /\ \A d \in Clients : held'[d] \in (Live \cup {entry}) \cup {None}
        /\ kept' \subseteq Live \cup {entry}
        /\ now' = now
    BY <1>0, <1>4 DEF SetWithMetadata, Keeps
  <2>3. Live' \subseteq Live \cup {entry}
    BY <2>1, <2>2, LiveWithin
  <2>4. CASE entry \in kept
    BY <1>0, <1>same, <2>2, <2>3, <2>4
  <2>5. CASE entry \in Made
    BY <1>one, <2>2, <2>3, <2>5, MadeFacts
  <2>6. QED
    BY <2>4, <2>5
<1>5. ASSUME NEW c \in Clients, NEW items \in SUBSET Keys, NEW v \in Values, NEW ttl \in TTLs,
             SetMultiple(c, items, v, ttl)
      PROVE  Coherent' /\ Past'
  <2>1. PICK f \in Allocations(items) : \E V :
          data' = [k \in Keys |-> IF k \in items THEN NewEntry(f[k], v, now, now + ttl)
                                  ELSE Without(data, V)[k]]
    BY <1>5 DEF SetMultiple
  <2> DEFINE n(k) == NewEntry(f[k], v, now, now + ttl)
             N == {n(k) : k \in items}
  <2>2. ASSUME NEW k \in items PROVE f[k] \in Addrs /\ f[k] \notin InUse
    BY DEF Allocations
  <2>3. ASSUME NEW k \in items
        PROVE  n(k) \in Entry /\ n(k).addr = f[k] /\ n(k).addr \notin InUse /\ n(k).createdAt <= now
    BY <1>0, <2>2, CacheAssumption DEF NewEntry, Entry
  <2>4. \A j, k \in items : f[j] = f[k] => j = k
    BY DEF Allocations
  <2>5. \A k \in Keys : data'[k] \in N \cup {data[k], None}
    BY <2>1 DEF Without
  <2> HIDE DEF n
  <2>6. /\ N \in SUBSET Entry
        /\ \A e \in N : e.addr \notin InUse /\ e.createdAt <= now
        /\ \A e, g \in N : e.addr = g.addr => e = g
    BY <2>3, <2>4
  <2> HIDE DEF N
  <2>7. UNCHANGED <<now, held, kept>>
    BY <1>5 DEF SetMultiple
  <2>8. Live' \subseteq Live \cup N
    <3> DEFINE E == Live \cup N
    <3>1. /\ \A k \in Keys : data'[k] \in E \cup {None}
          /\ \A d \in Clients : held'[d] \in E \cup {None}
          /\ kept' \subseteq E
      BY <1>0, <2>5, <2>7
    <3> HIDE DEF E
    <3>2. Live' \subseteq E
      BY <3>1, LiveWithin
    <3>3. QED
      BY <3>2 DEF E
  <2>9. QED
    BY <1>0, <2>6, <2>7, <2>8, AddedEntries
<1>6. ASSUME NEW c \in Clients,
             (\E k \in Keys : Delete(c, k)) \/ Clear(c) \/ EvictExpired(c)
      PROVE  Coherent' /\ Past'
  <2>1. \A k \in Keys : data'[k] \in Live \cup {None}
    BY <1>0, <1>6 DEF Delete, Clear, EvictExpired, Without
  <2>2. UNCHANGED <<now, held, kept>>
    BY <1>6 DEF Delete, Clear, EvictExpired
  <2>3. QED
    BY <1>0, <1>same, <2>1, <2>2, LiveWithin
<1>7. ASSUME NEW c \in Clients, NEW k \in Keys, Expire(c, k) PROVE Coherent' /\ Past'
  <2>1. /\ UNCHANGED <<now, data, kept>>
        /\ \A d \in Clients : held'[d] \in Live \cup {None}
    BY <1>0, <1>7 DEF Expire, Inside
  <2>2. QED
    BY <1>0, <1>same, <2>1, LiveWithin
<1>8. ASSUME NEW c \in Clients, NEW ttl \in TTLs, expired(c, ttl) PROVE Coherent' /\ Past'
  BY <1>8, RewrittenEntries
<1>9. CASE Tick
  <2>1. Live' \subseteq Live /\ now' \in Int /\ now <= now'
    BY <1>0, <1>9 DEF Tick, Live
  <2>2. QED
    <3> DEFINE N == {}
    <3>1. /\ N \in SUBSET Entry /\ Live' \subseteq Live \cup N
          /\ \A e \in N : e.addr \notin InUse /\ e.createdAt <= now
          /\ \A e, f \in N : e.addr = f.addr => e = f
      BY <2>1
    <3> HIDE DEF N
    <3>2. QED
      BY <2>1, <3>1, AddedEntries
<1>10. CASE UNCHANGED vars
  BY <1>0, <1>same, <1>10 DEF vars, Live
<1>11. QED
  BY <1>1, <1>2, <1>3, <1>4, <1>5, <1>6, <1>7, <1>8, <1>9, <1>10 DEF Next, SetStep, DropStep

LEMMA PointersHold == Spec => [](TypeOK /\ Coherent /\ Past)
<1>1. Init => Coherent /\ Past
  BY DEF Init, Coherent, Past, Live
<1>2. TypeOK /\ Coherent /\ Past /\ [Next]_vars => Coherent' /\ Past'
  BY PointerStep
<1>3. QED
  BY <1>1, <1>2, TypeCorrect, PTL DEF Spec

-----------------------------------------------------------------------------
\* The refinement.

\* An entry as callers see it.
Seen(e) ==
  IF e = None THEN None
  ELSE [value |-> e.value, createdAt |-> e.createdAt, expiresAt |-> e.expiresAt]

LEMMA SeenFacts ==
  ASSUME NEW e \in {None} \cup Entry
  PROVE  /\ Seen(e) \in L!Entry \cup {None}
         /\ Seen(e) = None <=> e = None
         /\ e # None => Seen(e) = [value |-> e.value, createdAt |-> e.createdAt,
                                   expiresAt |-> e.expiresAt]
<1>1. CASE e = None
  BY <1>1 DEF Seen
<1>2. CASE e # None
  <2>1. e \in Entry
    BY <1>2
  <2>2. Seen(e) \in [value : Values, createdAt : Int, expiresAt : Int]
    BY <1>2, <2>1 DEF Seen, Entry
  <2>3. QED
    BY <1>2, <2>2, CacheAssumption DEF Seen, L!Entry
<1>3. QED
  BY <1>1, <1>2

LEMMA ContentsFacts ==
  ASSUME TypeOK
  PROVE  /\ contents = [k \in Keys |-> Seen(data[k])]
         /\ contents \in [Keys -> L!Entry \cup {None}]
         /\ L!Held = Stored
<1>1. contents = [k \in Keys |-> Seen(data[k])]
  BY DEF contents, Seen
<1>2. \A k \in Keys : data[k] \in {None} \cup Entry
  BY DEF TypeOK
<1>3. QED
  BY <1>1, <1>2, SeenFacts DEF L!Held, Stored

\* A step that leaves entries or drops them is a Forget.
LEMMA DropIsForget ==
  ASSUME TypeOK, TypeOK', UNCHANGED now, \A k \in Keys : data'[k] \in {data[k], None}
  PROVE  L!Next
<1> DEFINE K == {k \in Keys : data'[k] = None}
<1>1. contents' = [k \in Keys |-> IF k \in K THEN None ELSE contents[k]]
  BY DEF contents, TypeOK
<1>2. L!Forget(K) /\ K \in SUBSET Keys
  BY <1>1 DEF L!Forget
<1>3. QED
  BY <1>2 DEF L!Next

\* The abstract specification counts as this one does.
LEMMA SameCardinality == \A S : L!Cardinality(S) = Cardinality(S)
  BY Zenon DEF L!Cardinality, Cardinality, L!IsFiniteSet, IsFiniteSet

\* The keys K get entries, and others are dropped only if the map is full.
LEMMA IsWrite ==
  ASSUME TypeOK, TypeOK', NEW K \in SUBSET Keys, NEW full \in BOOLEAN,
         \A k \in K : data'[k] # None,
         \A k \in Keys \ K : data'[k] \in {data[k], None},
         full \/ \A k \in Keys \ K : data'[k] = data[k]
  PROVE  /\ L!Write([k \in K |-> contents'[k]], full)
         /\ \A k \in K : /\ contents'[k] \in L!Entry
                         /\ contents'[k].createdAt = data'[k].createdAt
<1>1. contents' = [k \in Keys |-> Seen(data'[k])]
  BY DEF contents, Seen
<1>2. contents = [k \in Keys |-> Seen(data[k])]
  BY ContentsFacts
<1>3. \A k \in Keys : data'[k] \in {None} \cup Entry
  BY DEF TypeOK
<1>4. \A k \in K : contents'[k] \in L!Entry /\ contents'[k].createdAt = data'[k].createdAt
  <2>1. \A k \in K : contents'[k] = Seen(data'[k]) /\ data'[k] \in Entry
    BY <1>1, <1>3
  <2>2. QED
    BY <2>1, SeenFacts, CacheAssumption
<1> DEFINE lost == {k \in Keys \ K : contents'[k] = None}
           f == [k \in K |-> contents'[k]]
<1>5. \A k \in Keys \ K : contents'[k] = IF k \in lost THEN None ELSE contents[k]
  BY <1>1, <1>2 DEF Seen
<1>6. contents' = [k \in Keys |-> IF k \in DOMAIN f THEN f[k]
                                  ELSE IF k \in lost THEN None ELSE contents[k]]
  BY <1>1, <1>5
<1>7. CASE full
  BY <1>4, <1>6, <1>7 DEF L!Write
<1>8. CASE ~full
  <2>1. \A k \in Keys \ K : contents'[k] = contents[k]
    BY <1>1, <1>2, <1>8
  <2>2. contents' = [k \in Keys |-> IF k \in DOMAIN f THEN f[k]
                                    ELSE IF k \in {} THEN None ELSE contents[k]]
    BY <1>1, <2>1
  <2>3. {} \in SUBSET (Keys \ DOMAIN f)
    OBVIOUS
  <2>4. QED
    BY <1>4, <2>2, <2>3 DEF L!Write
<1>9. QED
  BY <1>7, <1>8

\* A Store of an entry made in the past is a Put.
LEMMA StoreIsPut ==
  ASSUME TypeOK, TypeOK', NEW k \in Keys, NEW e \in Entry, Store(k, e), e.createdAt <= now,
         UNCHANGED now
  PROVE  L!Next
<1>1. /\ data'[k] = e
      /\ \A j \in Keys \ {k} : data'[j] \in {data[j], None}
      /\ Cardinality(Stored) < MaxSize => \A j \in Keys \ {k} : data'[j] = data[j]
  BY StoreEffect
<1> DEFINE full == Cardinality(Stored) >= MaxSize
<1>2. full = (L!Cardinality(L!Held) >= MaxSize)
  BY ContentsFacts, SameCardinality
<1>3. full \/ \A j \in Keys \ {k} : data'[j] = data[j]
  BY <1>1, StoredFinite, Constants
<1>4. \A j \in {k} : data'[j] # None
  BY <1>1, CacheAssumption
<1>5. /\ L!Write([j \in {k} |-> contents'[j]], full)
      /\ contents'[k] \in L!Entry /\ contents'[k].createdAt = data'[k].createdAt
  <2>1. full \in BOOLEAN
    OBVIOUS
  <2> HIDE DEF full
  <2>2. QED
    BY <1>1, <1>3, <1>4, <2>1, IsWrite, {k} \in SUBSET Keys
<1>6. L!Put(k, contents'[k])
  <2>1. [j \in {k} |-> contents'[j]] = [j \in {k} |-> contents'[k]]
    OBVIOUS
  <2>2. L!Write([j \in {k} |-> contents'[k]], L!Cardinality(L!Held) >= MaxSize)
    BY <1>2, <1>5, <2>1
  <2>3. QED
    BY <1>1, <1>5, <2>2 DEF L!Put
<1>7. QED
  BY <1>6 DEF L!Next

\* The end of an Expire is a Renew of the keys that share its entry, if any has it still.
LEMMA ExpiredIsRenew ==
  ASSUME TypeOK, Coherent, NEW c \in Clients, NEW ttl \in TTLs, expired(c, ttl)
  PROVE  [L!Next]_<<now, contents>>
<1> DEFINE t == now + ttl
           K == {k \in Keys : data[k] # None /\ data[k].addr = held[c].addr}
<1>1. /\ now' = now
      /\ \A k \in Keys : data'[k] = IF k \in K THEN [data[k] EXCEPT !.expiresAt = t] ELSE data[k]
  BY DEF expired
<1>2. t \in Int /\ \A k \in K : data[k] \in Entry
  BY CacheAssumption DEF TypeOK
<1>3. \A j, k \in K : data[j] = data[k]
  BY LiveFacts DEF Coherent
<1> HIDE DEF K, t
<1>4. contents = [k \in Keys |-> Seen(data[k])] /\ contents' = [k \in Keys |-> Seen(data'[k])]
  BY DEF contents, Seen
<1>5. K \subseteq Keys
  BY DEF K
<1>6. ASSUME NEW k \in K
      PROVE  /\ contents[k] \in L!Entry
             /\ contents'[k] = [contents[k] EXCEPT !.expiresAt = t]
             /\ contents'[k].expiresAt = t /\ contents'[k] # None
  <2> DEFINE e == data[k]
             f == data'[k]
  <2>1. e \in Entry /\ e # None
    BY <1>2, CacheAssumption
  <2>2. f = [e EXCEPT !.expiresAt = t]
    BY <1>1, <1>5
  <2> HIDE DEF e, f
  <2>3. /\ f \in Entry /\ f # None /\ f.value = e.value /\ f.createdAt = e.createdAt
        /\ f.expiresAt = t
    BY <1>2, <2>1, <2>2, CacheAssumption DEF Entry
  <2>4. /\ Seen(e) = [value |-> e.value, createdAt |-> e.createdAt, expiresAt |-> e.expiresAt]
        /\ Seen(f) = [value |-> e.value, createdAt |-> e.createdAt, expiresAt |-> t]
        /\ Seen(e) \in L!Entry /\ Seen(f) # None
    BY <2>1, <2>3, SeenFacts
  <2>5. contents[k] = Seen(e) /\ contents'[k] = Seen(f)
    BY <1>4, <1>5 DEF e, f
  <2>6. QED
    BY <2>4, <2>5
<1>7. \A k \in Keys \ K : contents'[k] = contents[k]
  BY <1>1, <1>4
<1>8. CASE K = {}
  BY <1>1, <1>4, <1>7, <1>8
<1>9. CASE K # {}
  <2>1. PICK k \in K : TRUE
    BY <1>9
  <2>2. K \subseteq L!Held
    BY <1>5, <1>6, CacheAssumption DEF L!Held, L!Entry
  <2>3. \A i, j \in K : contents[i] = contents[j]
    BY <1>3, <1>4, <1>5
  <2>4. contents' = [j \in Keys |-> IF j \in K THEN [contents[j] EXCEPT !.expiresAt = t]
                                    ELSE contents[j]]
    BY <1>4, <1>6, <1>7
  <2>5. L!Renew(K, contents'[k].expiresAt)
    BY <1>2, <1>6, <2>1, <2>2, <2>3, <2>4 DEF L!Renew
  <2>6. QED
    BY <1>1, <1>6, <2>1, <2>2, <2>5 DEF L!Next
<1>10. QED
  BY <1>8, <1>9

LEMMA RefinementStep ==
  ASSUME TypeOK, Coherent, Past, [Next]_vars
  PROVE  [L!Next]_<<now, contents>>
<1>0. TypeOK'
  BY TypeStep
<1>1. ASSUME UNCHANGED <<now, data>> PROVE UNCHANGED <<now, contents>>
  BY <1>1 DEF contents
<1>2. ASSUME NEW c \in Clients, GetStep(c) PROVE [L!Next]_<<now, contents>>
  <2>1. UNCHANGED <<now, data>> \/ removeExpired(c)
    BY <1>2 DEF GetStep, Get, checkHit, handOut, checkExpired
  <2>2. CASE removeExpired(c)
    <3>1. now' = now /\ \A k \in Keys : data'[k] \in {data[k], None}
      BY <2>2 DEF removeExpired, TypeOK
    <3>2. QED
      BY <1>0, <3>1, DropIsForget
  <2>3. QED
    BY <1>1, <2>1, <2>2
<1>3. ASSUME NEW c \in Clients, NEW k \in Keys, NEW v \in Values, NEW ttl \in TTLs, Set(c, k, v, ttl)
      PROVE  [L!Next]_<<now, contents>>
  BY <1>1, <1>3 DEF Set
<1>4. ASSUME NEW c \in Clients, storeSet(c) PROVE L!Next
  <2>1. key[c] \in Keys /\ held[c] \in Entry /\ held[c].createdAt <= now /\ now' = now
        /\ Store(key[c], held[c])
    BY <1>4, LiveFacts DEF storeSet, Past, TypeOK
  <2>2. QED
    BY <1>0, <2>1, StoreIsPut
<1>5. ASSUME NEW c \in Clients, NEW k \in Keys, NEW entry \in kept \cup Made,
             SetWithMetadata(c, k, entry)
      PROVE  L!Next
  <2>1. entry \in Entry /\ entry.createdAt <= now
    BY LiveFacts, MadeFacts DEF Past, TypeOK
  <2>2. QED
    BY <1>0, <1>5, <2>1, StoreIsPut DEF SetWithMetadata
<1>6. ASSUME NEW c \in Clients, NEW items \in SUBSET Keys, NEW v \in Values, NEW ttl \in TTLs,
             SetMultiple(c, items, v, ttl)
      PROVE  L!Next
  <2>1. PICK f \in Allocations(items) :
          \E V \in IF Cardinality(Stored) + Cardinality(items) >= MaxSize
                   THEN evictLRU ELSE {{}} :
            data' = [k \in Keys |-> IF k \in items THEN NewEntry(f[k], v, now, now + ttl)
                                    ELSE Without(data, V)[k]]
    BY <1>6 DEF SetMultiple
  <2>2. PICK V \in IF Cardinality(Stored) + Cardinality(items) >= MaxSize
                   THEN evictLRU ELSE {{}} :
          data' = [k \in Keys |-> IF k \in items THEN NewEntry(f[k], v, now, now + ttl)
                                  ELSE Without(data, V)[k]]
    BY <2>1
  <2>3. ASSUME NEW k \in items PROVE data'[k] # None /\ data'[k].createdAt = now
    <3>1. data'[k] = NewEntry(f[k], v, now, now + ttl)
      BY <2>2
    <3>2. f[k] \in Addrs
      BY DEF Allocations
    <3>3. NewEntry(f[k], v, now, now + ttl) \in Entry
      BY <3>2, CacheAssumption DEF NewEntry, Entry, TypeOK
    <3>4. NewEntry(f[k], v, now, now + ttl).createdAt = now
      BY DEF NewEntry
    <3>5. QED
      BY <3>1, <3>3, <3>4, CacheAssumption
  <2>4. \A k \in items : data'[k] # None /\ data'[k].createdAt = now
    BY <2>3
  <2>5. \A k \in Keys \ items : data'[k] \in {data[k], None}
    BY <2>2 DEF Without
  <2> DEFINE full == Cardinality(Stored) + Cardinality(items) >= MaxSize
  <2>6. full \/ \A k \in Keys \ items : data'[k] = data[k]
    <3>1. Cardinality(Stored) \in Nat /\ Cardinality(items) \in Nat /\ MaxSize \in Nat
      BY StoredFinite, Constants, CacheAssumption, FS_Subset, FS_CardinalityType
    <3>2. QED
      BY <2>2, <3>1 DEF Without
  <2> DEFINE g == [k \in items |-> contents'[k]]
  <2>7. /\ L!Write(g, full)
        /\ \A k \in items : contents'[k] \in L!Entry /\ contents'[k].createdAt = data'[k].createdAt
    <3>1. full \in BOOLEAN
      OBVIOUS
    <3> HIDE DEF full
    <3>2. QED
      BY <1>0, <2>4, <2>5, <2>6, <3>1, IsWrite
  <2>8. L!PutAll(g)
    <3>1. full = (L!Cardinality(L!Held) + L!Cardinality(DOMAIN g) >= MaxSize)
      BY <1>0, ContentsFacts, SameCardinality
    <3>2. \A k \in DOMAIN g : g[k] \in L!Entry /\ g[k].createdAt = now
      BY <2>4, <2>7
    <3> HIDE DEF g, full
    <3>3. L!Write(g, L!Cardinality(L!Held) + L!Cardinality(DOMAIN g) >= MaxSize)
      BY <2>7, <3>1
    <3>4. QED
      BY <3>2, <3>3 DEF L!PutAll
  <2>9. QED
    BY <1>6, <2>8 DEF L!Next, SetMultiple
<1>7. ASSUME NEW c \in Clients, (\E k \in Keys : Delete(c, k)) \/ Clear(c) \/ EvictExpired(c)
      PROVE  L!Next
  <2>1. now' = now /\ \A k \in Keys : data'[k] \in {data[k], None}
    BY <1>7 DEF Delete, Clear, EvictExpired, Without, TypeOK
  <2>2. QED
    BY <1>0, <2>1, DropIsForget
<1>8. ASSUME NEW c \in Clients, NEW k \in Keys, Expire(c, k) PROVE UNCHANGED <<now, contents>>
  BY <1>1, <1>8 DEF Expire
<1>9. ASSUME NEW c \in Clients, NEW ttl \in TTLs, expired(c, ttl)
      PROVE  [L!Next]_<<now, contents>>
  BY <1>9, ExpiredIsRenew
<1>10. CASE Tick
  <2>1. L!Tick
    BY <1>10 DEF Tick, L!Tick, contents
  <2>2. QED
    BY <2>1 DEF L!Next
<1>11. CASE UNCHANGED vars
  BY <1>1, <1>11 DEF vars
<1>12. QED
  BY <1>2, <1>3, <1>4, <1>5, <1>6, <1>7, <1>8, <1>9, <1>10, <1>11
  DEF Next, SetStep, DropStep

\* The in-memory cache, with its pointers and unlocked stretches, implements the
\* promise of the Cache interface that LossyCache states.
THEOREM Refinement == Spec => ImplementsLossyCache
<1>1. Init => L!Init
  BY DEF Init, L!Init, contents
<1>2. TypeOK /\ Coherent /\ Past /\ [Next]_vars => [L!Next]_<<now, contents>>
  BY RefinementStep
<1>3. QED
  BY <1>1, <1>2, PointersHold, PTL DEF Spec, ImplementsLossyCache, L!Spec

=============================================================================
