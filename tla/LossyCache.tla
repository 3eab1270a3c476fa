----------------------------- MODULE LossyCache -----------------------------
(***************************************************************************)
(* What the Cache interface (internal/cache/interface.go) promises, with   *)
(* no lock, pointer or order of eviction in it: a write changes the keys   *)
(* it was given and no other, except that keys may be lost to make room;   *)
(* a change of expiry touches the expiry of one entry only, which callers  *)
(* may have put under several keys; any key may be forgotten at any time.  *)
(* MemoryCache is shown to implement it.                                   *)
(***************************************************************************)
EXTENDS Integers, FiniteSets

CONSTANTS Keys, Values, None, MaxSize

VARIABLES now, store    \* store: key -> Entry or None

Entry == [value : Values, createdAt : Int, expiresAt : Int]

Held == {k \in Keys : store[k] # None}

Init == now = 0 /\ store = [k \in Keys |-> None]

\* The keys of f get its entries; of the others some are lost, but only when the map
\* is full.
Write(f, full) ==
  \E lost \in SUBSET (Keys \ DOMAIN f) :
    /\ full \/ lost = {}
    /\ store' = [k \in Keys |-> IF k \in DOMAIN f THEN f[k]
                                ELSE IF k \in lost THEN None ELSE store[k]]

\* Set and SetWithMetadata: the entry may have been made a while ago.
Put(k, entry) ==
  /\ entry \in Entry
  /\ entry.createdAt <= now
  /\ Write([j \in {k} |-> entry], Cardinality(Held) >= MaxSize)

\* SetMultiple: the entries are made on the spot, and count before they are in.
PutAll(f) ==
  /\ \A k \in DOMAIN f : f[k] \in Entry /\ f[k].createdAt = now
  /\ Write(f, Cardinality(Held) + Cardinality(DOMAIN f) >= MaxSize)

\* Delete, Clear, EvictExpired and the cleaning up of Get.
Forget(K) == store' = [k \in Keys |-> IF k \in K THEN None ELSE store[k]]

\* Expire of an entry that the keys K, all alike, share.
Renew(K, expiresAt) ==
  /\ K \subseteq Held
  /\ \A j, k \in K : store[j] = store[k]
  /\ expiresAt \in Int
  /\ store' = [k \in Keys |-> IF k \in K THEN [store[k] EXCEPT !.expiresAt = expiresAt]
                              ELSE store[k]]

Tick == now' = now + 1 /\ UNCHANGED store

\* Any entries and expirations: those that are there afterwards.
Next ==
  \/ Tick
  \/ /\ UNCHANGED now
     /\ \/ \E k \in Keys : Put(k, store'[k])
        \/ \E K \in SUBSET Held, k \in Held :
             store'[k] # None /\ Renew(K, store'[k].expiresAt)
        \/ \E K \in SUBSET Keys : PutAll([k \in K |-> store'[k]]) \/ Forget(K)

Spec == Init /\ [][Next]_<<now, store>>

=============================================================================
