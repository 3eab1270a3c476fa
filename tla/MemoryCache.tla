---------------------------- MODULE MemoryCache ----------------------------
(***************************************************************************)
(* InMemoryCache (internal/cache/memory.go): a map of entries behind one   *)
(* RWMutex, used by many goroutines, each inside at most one call.  It is  *)
(* the whole cache without Redis and the second layer behind it.           *)
(*                                                                         *)
(* Entries are shared by pointer, so an entry carries the address it was   *)
(* allocated at: Get keeps the pointer when it has released the lock, and  *)
(* Expire writes through it.  GetWithMetadata hands the stored pointer     *)
(* out and SetWithMetadata stores the pointer it is given, so a caller can *)
(* put one entry under several keys; callers are taken not to write to an  *)
(* entry themselves, as none in the repository does.  The calls that hold  *)
(* the lock for all of their work are one action.  The others are one      *)
(* action per stretch:                                                     *)
(*   Get, GetWithMetadata: read the pointer; test IsExpired, unlocked;     *)
(*     remove the key under the lock.                                      *)
(*   Set: build the entry, unlocked; evict and store under the lock.       *)
(*   Expire: the unlocked IsExpired of a Get can read ExpiresAt while it   *)
(*     is being written, so the write has a beginning and an end.          *)
(* GetMultiple, TTL, Size and the counters of CacheStats change nothing    *)
(* here and are left out.                                                  *)
(***************************************************************************)
EXTENDS Integers, FiniteSets

CONSTANTS
  Keys, Values, Clients,
  Addrs,        \* addresses; a freed one is used again, as after a collection
  None,         \* no entry
  DefaultTTL, MaxTTL, MaxSize,
  TTLs,         \* the ttl arguments callers pass
  MaxBatch,     \* most items of one SetMultiple
  MaxKept,      \* most entries callers keep a pointer to between calls
  EvictShare,   \* evictLRU drops one entry in this many (10 in the code)
  MaxTime       \* bound of the clock

Entry == [addr : Addrs, value : Values, createdAt : Int, expiresAt : Int]

ASSUME CacheAssumption ==
  /\ IsFiniteSet(Keys)
  /\ {DefaultTTL, MaxTTL, MaxSize, MaxBatch, EvictShare} \subseteq Nat \ {0}
  /\ MaxKept \in Nat
  /\ TTLs \subseteq Int
  /\ MaxTime \in Nat
  /\ None \notin Entry
  /\ None \notin [value : Values, createdAt : Int, expiresAt : Int]

VARIABLES
  now,          \* the clock
  data,         \* key -> Entry or None
  pc,           \* idle, check, remove (Get), store (Set), expire (Expire)
  key,          \* the key of the client's call, or None
  held,         \* the entry the client's call points to, or None
  kept          \* the entries callers have a pointer to outside any call

vars == <<now, data, pc, key, held, kept>>

-----------------------------------------------------------------------------

Stored == {k \in Keys : data[k] # None}

\* The entries some pointer still refers to.
Live == ({data[k] : k \in Keys} \cup {held[c] : c \in Clients} \cup kept) \ {None}

InUse == {e.addr : e \in Live}

\* The address of the next allocation, if the bound on them leaves one.
Fresh == {a \in Addrs \ InUse : a = CHOOSE b \in Addrs \ InUse : TRUE}

\* m.mu is held across states only while Expire writes.
LockFree == \A c \in Clients : pc[c] # "expire"

IsExpired(entry) == now > entry.expiresAt

\* The ttl Set uses: the default for none, and never above the maximum.
EffectiveTTL(ttl) ==
  LET given == IF ttl <= 0 THEN DefaultTTL ELSE ttl
  IN  IF given > MaxTTL THEN MaxTTL ELSE given

NewEntry(a, v, created, expires) ==
  [addr |-> a, value |-> v, createdAt |-> created, expiresAt |-> expires]

\* Mutant: always a single entry.
EvictOne(n) == 1

EvictCount(n) == IF n \div EvictShare = 0 THEN 1 ELSE n \div EvictShare

\* evictLRU: the possible sets of keys it drops, the oldest by CreatedAt.  The
\* sort is not stable, so any order of equal times can come out.
evictLRU ==
  {V \in SUBSET Stored :
     /\ Cardinality(V) = IF Stored = {} THEN 0 ELSE EvictCount(Cardinality(Stored))
     /\ \A v \in V, s \in Stored \ V : data[v].createdAt <= data[s].createdAt}

Without(m, V) == [k \in Keys |-> IF k \in V THEN None ELSE m[k]]

\* Mutant: the size is compared after the insertion's fashion, one too late.
StoreLate(k, entry) ==
  IF Cardinality(Stored) > MaxSize
  THEN \E V \in evictLRU : data' = [Without(data, V) EXCEPT ![k] = entry]
  ELSE data' = [data EXCEPT ![k] = entry]

\* Mutant: an entry that is there already is overwritten in place, through its pointer.
StoreInPlace(k, entry) ==
  data' = [j \in Keys |->
             IF j = k /\ data[k] = None THEN entry
             ELSE IF data[k] # None /\ data[j] # None /\ data[j].addr = data[k].addr
                  THEN [entry EXCEPT !.addr = data[k].addr] ELSE data[j]]

\* The locked part of Set and SetWithMetadata.
Store(k, entry) ==
  IF Cardinality(Stored) >= MaxSize
  THEN \E V \in evictLRU : data' = [Without(data, V) EXCEPT ![k] = entry]
  ELSE data' = [data EXCEPT ![k] = entry]

-----------------------------------------------------------------------------

Init ==
  /\ now = 0
  /\ data = [k \in Keys |-> None]
  /\ pc = [c \in Clients |-> "idle"]
  /\ key = [c \in Clients |-> None]
  /\ held = [c \in Clients |-> None]
  /\ kept = {}

\* c is inside a call on k that is at "at" and points to e.
Inside(c, k, at, e) ==
  /\ pc' = [pc EXCEPT ![c] = at]
  /\ key' = [key EXCEPT ![c] = k]
  /\ held' = [held EXCEPT ![c] = e]

Return(c) ==
  /\ pc' = [pc EXCEPT ![c] = "idle"]
  /\ key' = [key EXCEPT ![c] = None]
  /\ held' = [held EXCEPT ![c] = None]

\* The caller keeps its pointer to e or lets it go, and so for the older ones.
Keeps(e) == \E K \in SUBSET (kept \cup {e}) : Cardinality(K) <= MaxKept /\ kept' = K

\* Mutant: the entry is used without a look at exists.
getUnchecked(c, k) ==
  /\ pc[c] = "idle"
  /\ LockFree
  /\ Inside(c, k, "check", data[k])
  /\ UNCHANGED <<now, data, kept>>

\* Get and GetWithMetadata under the read lock; a missing key is a miss at once.
Get(c, k) ==
  /\ pc[c] = "idle"
  /\ LockFree
  /\ data[k] # None
  /\ Inside(c, k, "check", data[k])
  /\ UNCHANGED <<now, data, kept>>

\* The entry is being written by an Expire, and a read of it may be torn.
Torn(entry) == \E c \in Clients : pc[c] = "expire" /\ held[c].addr = entry.addr

\* Get finds the entry alive and returns its value.
checkHit(c) ==
  /\ pc[c] = "check"
  /\ Torn(held[c]) \/ ~IsExpired(held[c])
  /\ Return(c)
  /\ UNCHANGED <<now, data, kept>>

\* GetWithMetadata finds it alive and returns the pointer itself.
handOut(c) ==
  /\ pc[c] = "check"
  /\ Torn(held[c]) \/ ~IsExpired(held[c])
  /\ Return(c)
  /\ Keeps(held[c])
  /\ UNCHANGED <<now, data>>

\* Get and GetWithMetadata find it expired and go for the write lock.
checkExpired(c) ==
  /\ pc[c] = "check"
  /\ Torn(held[c]) \/ IsExpired(held[c])
  /\ pc' = [pc EXCEPT ![c] = "remove"]
  /\ UNCHANGED <<now, data, key, held, kept>>

\* They remove the key, whatever entry it has by now, and report a miss.
removeExpired(c) ==
  /\ pc[c] = "remove"
  /\ LockFree
  /\ data' = [data EXCEPT ![key[c]] = None]
  /\ Return(c)
  /\ UNCHANGED <<now, kept>>

\* Set stamps the new entry before it asks for the lock.
Set(c, k, v, ttl) ==
  /\ pc[c] = "idle"
  /\ \E a \in Fresh : Inside(c, k, "store", NewEntry(a, v, now, now + EffectiveTTL(ttl)))
  /\ UNCHANGED <<now, data, kept>>

storeSet(c) ==
  /\ pc[c] = "store"
  /\ LockFree
  /\ Store(key[c], held[c])
  /\ Return(c)
  /\ UNCHANGED <<now, kept>>

\* Entries a caller builds itself, or another cache layer for it, at some earlier time.
Made ==
  {NewEntry(a, v, created, created + ttl) :
     a \in Fresh, v \in Values, created \in 0 .. now, ttl \in TTLs}

\* The caller's pointer is stored as it is, and the caller may keep it.
SetWithMetadata(c, k, entry) ==
  /\ pc[c] = "idle"
  /\ LockFree
  /\ Store(k, entry)
  /\ Keeps(entry)
  /\ UNCHANGED <<now, pc, key, held>>

\* Allocations of one entry for each of the keys.
Allocations(items) ==
  {f \in [items -> Addrs \ InUse] : \A j, k \in items : f[j] = f[k] => j = k}

\* SetMultiple makes room at most once for all its items and clamps no ttl.
SetMultiple(c, items, v, ttl) ==
  /\ pc[c] = "idle"
  /\ LockFree
  /\ \E f \in Allocations(items) :
       /\ f = CHOOSE g \in Allocations(items) : TRUE
       /\ \E V \in IF Cardinality(Stored) + Cardinality(items) >= MaxSize
                   THEN evictLRU ELSE {{}} :
            data' = [k \in Keys |-> IF k \in items THEN NewEntry(f[k], v, now, now + ttl)
                                    ELSE Without(data, V)[k]]
  /\ UNCHANGED <<now, pc, key, held, kept>>

Delete(c, k) ==
  /\ pc[c] = "idle"
  /\ LockFree
  /\ data' = [data EXCEPT ![k] = None]
  /\ UNCHANGED <<now, pc, key, held, kept>>

Clear(c) ==
  /\ pc[c] = "idle"
  /\ LockFree
  /\ data' = [k \in Keys |-> None]
  /\ UNCHANGED <<now, pc, key, held, kept>>

EvictExpired(c) ==
  /\ pc[c] = "idle"
  /\ LockFree
  /\ data' = Without(data, {k \in Stored : IsExpired(data[k])})
  /\ UNCHANGED <<now, pc, key, held, kept>>

\* Expire takes the lock and starts to write ExpiresAt of a stored entry.
Expire(c, k) ==
  /\ pc[c] = "idle"
  /\ LockFree
  /\ data[k] # None
  /\ Inside(c, k, "expire", data[k])
  /\ UNCHANGED <<now, data, kept>>

\* The new ExpiresAt is there, through every pointer to the entry.
expired(c, ttl) ==
  /\ pc[c] = "expire"
  /\ LET Written(e) == IF e # None /\ e.addr = held[c].addr
                       THEN [e EXCEPT !.expiresAt = now + ttl] ELSE e
     IN  /\ data' = [k \in Keys |-> Written(data[k])]
         /\ held' = [d \in Clients |-> IF d = c THEN None ELSE Written(held[d])]
         /\ kept' = {Written(e) : e \in kept}
  /\ pc' = [pc EXCEPT ![c] = "idle"]
  /\ key' = [key EXCEPT ![c] = None]
  /\ UNCHANGED now

Tick ==
  /\ now < MaxTime
  /\ now' = now + 1
  /\ UNCHANGED <<data, pc, key, held, kept>>

GetStep(c) ==
  \/ \E k \in Keys : Get(c, k)
  \/ checkHit(c)
  \/ handOut(c)
  \/ checkExpired(c)
  \/ removeExpired(c)

SetStep(c) ==
  \/ \E k \in Keys, v \in Values, ttl \in TTLs : Set(c, k, v, ttl)
  \/ storeSet(c)
  \/ \E k \in Keys, entry \in kept \cup Made : SetWithMetadata(c, k, entry)
  \/ \E items \in SUBSET Keys, v \in Values, ttl \in TTLs :
       /\ Cardinality(items) \in 1 .. MaxBatch
       /\ SetMultiple(c, items, v, ttl)

DropStep(c) ==
  \/ \E k \in Keys : Delete(c, k)
  \/ Clear(c)
  \/ EvictExpired(c)
  \/ \E k \in Keys : Expire(c, k)
  \/ \E ttl \in TTLs : expired(c, ttl)

Next == Tick \/ \E c \in Clients : GetStep(c) \/ SetStep(c) \/ DropStep(c)

Spec == Init /\ [][Next]_vars

-----------------------------------------------------------------------------

\* Every variable has its type, and a call in progress has a key and an entry: no
\* call goes on to use the nil pointer of a key that is not in the map.
TypeOK ==
  /\ now \in 0 .. MaxTime
  /\ data \in [Keys -> {None} \cup Entry]
  /\ pc \in [Clients -> {"idle", "check", "remove", "store", "expire"}]
  /\ key \in [Clients -> {None} \cup Keys]
  /\ held \in [Clients -> {None} \cup Entry]
  /\ kept \subseteq Entry
  /\ \A c \in Clients : pc[c] # "idle" => key[c] \in Keys /\ held[c] # None

\* The cache as its callers see it, the addresses left out.
contents ==
  [k \in Keys |-> IF data[k] = None THEN None
                  ELSE [value |-> data[k].value, createdAt |-> data[k].createdAt,
                        expiresAt |-> data[k].expiresAt]]

L == INSTANCE LossyCache WITH store <- contents

\* Whatever the goroutines do through the pointers they keep and pass on, callers
\* see the steps of LossyCache only: a write changes no key it was not given except
\* to make room in a full map, and the end of an Expire changes one expiry, of
\* several keys at once only where the callers have put one entry under them.
ImplementsLossyCache == L!Spec

\* Batches can push the map past MaxSize, since evictLRU runs once per batch, but
\* never past EvictShare full batches: from there on each eviction makes room
\* for a whole batch.
SizeBounded ==
  Cardinality(Stored) <= IF MaxSize > EvictShare * MaxBatch
                         THEN MaxSize ELSE EvictShare * MaxBatch

\* A Set never grows the map beyond MaxSize, nor a map that is beyond it already.
SetMakesRoom ==
  [][\A c \in Clients : storeSet(c) =>
       Cardinality(Stored') <= IF Cardinality(Stored) > MaxSize
                               THEN Cardinality(Stored) ELSE MaxSize]_vars

\* internal/cache/comprehensive_test.go:24, of a value just Set: "Should be available
\* immediately".  A Get that found an older entry expired does not take away the
\* fresh one a Set has stored in its place meanwhile.
FreshSurvivesGet ==
  [][\A c \in Clients : removeExpired(c) =>
       LET there == data[key[c]]
       IN  \/ there = None
           \/ there.addr = held[c].addr
           \/ IsExpired(there)]_vars

=============================================================================
