-------------------------- MODULE LtpServiceProofs --------------------------
(***************************************************************************)
(* What GetLTP answers, for any numbers of requests, any pairs, any ttl    *)
(* and any lengths of its phases.                                          *)
(***************************************************************************)
EXTENDS LtpService, TLAPS, FiniteSetTheorems

\* An entry for symbol s that dies in time.
Fresh(entry, s) ==
  /\ entry.value.sym = s
  /\ entry.expiresAt <= entry.value.at + HTTPTimeout + Lag + TTL

\* How old a price a request holds was at most when its phase began.
AgeAtStart(at) ==
  LET cached == HTTPTimeout + Lag + TTL
  IN  IF at \in {"lookup", "check"} THEN cached
      ELSE IF at = "fetch" THEN cached + Lag ELSE cached + Lag + FetchLimit

Item == [pair : Pairings, entry : CacheEntry]

Types ==
  /\ now \in 0 .. MaxTime
  /\ cache \in [Symbols -> CacheEntry \cup {None}]
  /\ pc \in [Requests -> {"idle", "lookup", "check", "fetch", "store", "storing"}]
  /\ since \in [Requests -> 0 .. MaxTime]
  /\ want \in [Requests -> SUBSET Pairings]
  /\ todo \in [Requests -> SUBSET Pairings]
  /\ needed \in [Requests -> SUBSET Pairings]
  /\ results \in [Requests -> [Pairings -> Price \cup {None}]]
  /\ prices \in [Requests -> [Symbols -> Price \cup {None}] \cup {None}]
  /\ item \in [Requests -> Item \cup {NoItem}]

\* The sets of pairs of a call in each of its phases.
Phase(r) ==
  /\ todo[r] \cup needed[r] \subseteq want[r] /\ IsFiniteSet(want[r])
  /\ pc[r] = "idle" => want[r] = {}
  /\ pc[r] \in {"lookup", "check"} => todo[r] \cap needed[r] = {}
  /\ pc[r] = "fetch" => todo[r] = {}
  /\ pc[r] \in {"idle", "lookup", "check"} => prices[r] = None
  /\ pc[r] \in {"store", "storing"} => prices[r] # None
  /\ pc[r] \in {"check", "storing"} <=> item[r] # NoItem
  /\ item[r] # NoItem => item[r].pair \in todo[r]

\* The results of a call: which pairs have one, of which symbol, and how old it is.
Results(r) ==
  /\ \A p \in Pairings : results[r][p] # None <=>
       /\ p \in want[r] \ todo[r]
       /\ pc[r] \notin {"store", "storing"} => p \notin needed[r]
  /\ \A p \in Pairings : results[r][p] # None =>
       /\ results[r][p].sym = ToKrakenSymbol(p)
       /\ since[r] - results[r][p].at <= AgeAtStart(pc[r])

\* The time a phase has taken, what Kraken has answered and the entry in hand.
Timing(r) ==
  /\ since[r] <= now
  /\ pc[r] # "idle" => now - since[r] <= Limit(pc[r])
  /\ prices[r] # None => \A s \in Symbols : prices[r][s] # None =>
       /\ prices[r][s].sym = s
       /\ pc[r] \in {"store", "storing"} => since[r] - prices[r][s].at <= HTTPTimeout
  /\ item[r] # NoItem => /\ Fresh(item[r].entry, ToKrakenSymbol(item[r].pair))
                         /\ item[r].entry.createdAt <= now
  /\ pc[r] = "storing" => since[r] - item[r].entry.value.at <= HTTPTimeout

CallOK(r) == Phase(r) /\ Results(r) /\ Timing(r)

\* The entries of the cache: CacheFresh, and made in the past.
CacheOK ==
  \A s \in Symbols : cache[s] # None => Fresh(cache[s], s) /\ cache[s].createdAt <= now

\* The inductive invariant.
Inv == Types /\ CacheOK /\ \A r \in Requests : CallOK(r)

-----------------------------------------------------------------------------

\* The symbol of a pair is a symbol; None is no entry and no price.
LEMMA SymbolOf == \A p \in Pairings : ToKrakenSymbol(p) \in Symbols
  BY DEF Symbols

LEMMA NoneIsNothing == None \notin CacheEntry /\ None \notin Price
  BY ServiceAssumption

LEMMA NoItemIsNoItem == NoItem \notin Item
  BY NoneIsNothing DEF NoItem, Item

\* The cache keeps its entries but those it was given or has lost.
LEMMA ForgetKeeps ==
  ASSUME Types, CacheOK, now' = now, NEW K, C!Forget(K)
  PROVE  cache' \in [Symbols -> CacheEntry \cup {None}] /\ CacheOK'
<1>1. cache' = [s \in Symbols |-> IF s \in K THEN None ELSE cache[s]]
  BY DEF C!Forget
<1>2. QED
  BY <1>1 DEF Types, CacheOK

LEMMA PutKeeps ==
  ASSUME Types, CacheOK, now' = now, NEW k \in Symbols, NEW e, C!Put(k, e), Fresh(e, k)
  PROVE  cache' \in [Symbols -> CacheEntry \cup {None}] /\ CacheOK'
<1>1. e \in CacheEntry /\ e.createdAt <= now
  BY DEF C!Put, C!Entry, CacheEntry
<1>2. PICK lost :
        cache' = [s \in Symbols |-> IF s \in DOMAIN [j \in {k} |-> e] THEN [j \in {k} |-> e][s]
                                    ELSE IF s \in lost THEN None ELSE cache[s]]
  BY DEF C!Put, C!Write
<1>3. cache' = [s \in Symbols |-> IF s = k THEN e ELSE IF s \in lost THEN None ELSE cache[s]]
  BY <1>2
<1>4. QED
  BY <1>1, <1>3 DEF Types, CacheOK

\* A call that does not move is left as it was.
LEMMA Unmoved ==
  ASSUME NEW q \in Requests, CallOK(q), now' = now, pc'[q] = pc[q], since'[q] = since[q],
         want'[q] = want[q], todo'[q] = todo[q], needed'[q] = needed[q],
         results'[q] = results[q], prices'[q] = prices[q], item'[q] = item[q]
  PROVE  CallOK(q)'
  BY DEF CallOK, Phase, Results, Timing

\* So a step of r need only be looked at for r.
Moves(r) ==
  /\ now' = now
  /\ \A q \in Requests \ {r} :
       /\ pc'[q] = pc[q] /\ since'[q] = since[q] /\ want'[q] = want[q] /\ todo'[q] = todo[q]
       /\ needed'[q] = needed[q] /\ results'[q] = results[q] /\ prices'[q] = prices[q]
       /\ item'[q] = item[q]

LEMMA StepOf ==
  ASSUME Inv, NEW r \in Requests, Moves(r), Types', CallOK(r)', CacheOK'
  PROVE  Inv'
<1>1. ASSUME NEW q \in Requests \ {r} PROVE CallOK(q)'
  <2>1. CallOK(q)
    BY DEF Inv
  <2>2. QED
    BY <2>1, Unmoved DEF Moves
<1>2. QED
  BY <1>1 DEF Inv

\* A return clears everything.
LEMMA ReturnKeeps ==
  ASSUME Inv, NEW r \in Requests, Return(r), UNCHANGED <<now, cache>>
  PROVE  Inv'
<1>1. Types'
  BY ServiceAssumption DEF Inv, Types, Return, NoResults
<1>2. Moves(r)
  BY DEF Inv, Types, Return, Moves
<1>3. CallOK(r)'
  <2>1. /\ pc'[r] = "idle" /\ since'[r] = 0 /\ want'[r] = {} /\ todo'[r] = {} /\ needed'[r] = {}
        /\ prices'[r] = None /\ item'[r] = NoItem /\ \A p \in Pairings : results'[r][p] = None
        /\ now' \in Nat
    BY DEF Inv, Types, Return, NoResults
  <2>2. Phase(r)'
    BY <2>1, FS_EmptySet DEF Phase
  <2>3. Results(r)'
    BY <2>1 DEF Results
  <2>4. Timing(r)'
    BY <2>1 DEF Timing
  <2>5. QED
    BY <2>2, <2>3, <2>4 DEF CallOK
<1>4. QED
  BY <1>1, <1>2, <1>3, StepOf DEF Inv, CacheOK

-----------------------------------------------------------------------------

\* The durations are natural numbers.
LEMMA Durations == {TTL, HTTPTimeout, FetchLimit, Lag, MaxTime} \subseteq Nat
  BY ServiceAssumption

LEMMA GetLTPKeeps ==
  ASSUME Inv, NEW r \in Requests, NEW userPairs \in SUBSET UserPairs, GetLTP(r, userPairs)
  PROVE  Inv'
<1> DEFINE normalized == {NormalizeUserPair(u) : u \in userPairs}
<1>1. normalized \subseteq Pairings
  BY DEF GetLTP, Pairings
<1>2. Types'
  BY <1>1 DEF Inv, Types, GetLTP
<1>3. Moves(r)
  BY DEF Inv, Types, GetLTP, Moves
<1>6. IsFiniteSet(normalized)
  <2>1. [u \in userPairs |-> NormalizeUserPair(u)] \in Surjection(userPairs, normalized)
    BY DEF Surjection
  <2>2. IsFiniteSet(userPairs)
    BY DEF GetLTP
  <2>3. QED
    BY <2>1, <2>2, FS_Surjection
<1>4. CallOK(r)'
  <2>1. /\ pc[r] = "idle" /\ pc'[r] = "lookup" /\ since'[r] = now /\ now' = now
        /\ want'[r] = normalized /\ todo'[r] = normalized
        /\ needed'[r] = needed[r] /\ results'[r] = results[r] /\ prices'[r] = prices[r]
        /\ item'[r] = item[r] /\ now \in Nat
    BY DEF Inv, Types, GetLTP
  <2>2. CallOK(r)
    BY DEF Inv
  <2>3. /\ needed[r] = {} /\ prices[r] = None /\ item[r] = NoItem
        /\ \A p \in Pairings : results[r][p] = None
    BY <2>1, <2>2 DEF CallOK, Phase, Results
  <2> HIDE DEF normalized
  <2>4. Phase(r)'
    BY <1>6, <2>1, <2>3 DEF Phase
  <2>5. Results(r)'
    BY <2>1, <2>3 DEF Results
  <2>6. Timing(r)'
    BY <2>1, <2>3, Durations DEF Timing, Limit
  <2>7. QED
    BY <2>4, <2>5, <2>6 DEF CallOK
<1>5. QED
  BY <1>2, <1>3, <1>4, StepOf DEF Inv, GetLTP, CacheOK

\* cache.Get, first half.
LEMMA CacheGetKeeps ==
  ASSUME Inv, NEW r \in Requests, cacheGet(r)
  PROVE  Inv'
<1>0. PICK p \in todo[r] :
        LET entry == cache[ToKrakenSymbol(p)]
        IN  IF entry = None
            THEN /\ needed' = [needed EXCEPT ![r] = @ \cup {p}]
                 /\ todo' = [todo EXCEPT ![r] = @ \ {p}]
                 /\ UNCHANGED <<pc, item>>
            ELSE /\ item' = [item EXCEPT ![r] = [pair |-> p, entry |-> entry]]
                 /\ pc' = [pc EXCEPT ![r] = "check"]
                 /\ UNCHANGED <<needed, todo>>
  BY DEF cacheGet
<1>1. p \in Pairings /\ ToKrakenSymbol(p) \in Symbols
  BY SymbolOf DEF Inv, Types
<1>2. CallOK(r) /\ pc[r] = "lookup" /\ UNCHANGED <<now, cache, since, want, results, prices>>
  BY DEF Inv, cacheGet
<1> USE DEF Inv, Types
<1>3. CASE cache[ToKrakenSymbol(p)] = None
  <2>1. /\ needed' = [needed EXCEPT ![r] = @ \cup {p}] /\ todo' = [todo EXCEPT ![r] = @ \ {p}]
        /\ UNCHANGED <<pc, item>>
    BY <1>0, <1>3
  <2>2. Types' /\ Moves(r)
    BY <1>1, <1>2, <2>1 DEF Moves
  <2>3. needed'[r] = needed[r] \cup {p} /\ todo'[r] = todo[r] \ {p}
    BY <2>1
  <2>4. Phase(r)'
    BY <1>0, <1>2, <2>1, <2>3 DEF CallOK, Phase
  <2>5. Results(r)'
    BY <1>0, <1>1, <1>2, <2>1, <2>3 DEF CallOK, Results
  <2>6. Timing(r)'
    BY <1>2, <2>1 DEF CallOK, Timing
  <2>7. QED
    BY <1>2, <2>2, <2>4, <2>5, <2>6, StepOf DEF CallOK, CacheOK
<1>4. CASE cache[ToKrakenSymbol(p)] # None
  <2> DEFINE x == [pair |-> p, entry |-> cache[ToKrakenSymbol(p)]]
  <2>1. /\ item' = [item EXCEPT ![r] = x] /\ pc' = [pc EXCEPT ![r] = "check"]
        /\ UNCHANGED <<needed, todo>>
    BY <1>0, <1>4
  <2>2. /\ x \in Item /\ x # NoItem /\ x.pair = p /\ Fresh(x.entry, ToKrakenSymbol(p))
        /\ x.entry.createdAt <= now
    BY <1>1, <1>4, NoItemIsNoItem DEF Item, Fresh, CacheOK
  <2> HIDE DEF x
  <2>3. Types' /\ Moves(r)
    BY <1>2, <2>1, <2>2 DEF Moves
  <2>4. item'[r] = x /\ pc'[r] = "check"
    BY <2>1
  <2>5. Phase(r)'
    BY <1>0, <1>2, <2>1, <2>2, <2>4 DEF CallOK, Phase
  <2>6. Results(r)'
    BY <1>2, <2>1, <2>4 DEF CallOK, Results, AgeAtStart
  <2>7. Timing(r)'
    BY <1>2, <2>1, <2>2, <2>4 DEF CallOK, Phase, Timing, Limit
  <2>8. QED
    BY <1>2, <2>3, <2>5, <2>6, <2>7, StepOf DEF CallOK, CacheOK
<1>5. QED
  BY <1>3, <1>4

\* cache.Get, second half: a live entry is as young as its life is long.
LEMMA CheckHitKeeps ==
  ASSUME Inv, NEW r \in Requests, checkHit(r)
  PROVE  Inv'
<1> DEFINE p == item[r].pair
           price == item[r].entry.value
<1>1. CallOK(r) /\ pc[r] = "check" /\ UNCHANGED <<now, cache, since, want, needed, prices>>
  BY DEF Inv, checkHit
<1>2. item[r] \in Item /\ p \in todo[r] /\ p \in Pairings /\ price \in Price
  BY <1>1 DEF Inv, Types, CallOK, Phase, Item, CacheEntry
<1>3. price.sym = ToKrakenSymbol(p) /\ since[r] - price.at <= AgeAtStart("lookup")
  <2>1. now <= item[r].entry.expiresAt /\ since[r] <= now /\ Fresh(item[r].entry, ToKrakenSymbol(p))
    BY <1>1, <1>2, NoItemIsNoItem DEF checkHit, CallOK, Timing
  <2>2. item[r].entry.expiresAt \in Int /\ price.at \in Int /\ now \in Int /\ since[r] \in Int
    BY <1>2 DEF Inv, Types, Item, CacheEntry, Price
  <2>3. QED
    BY <2>1, <2>2, Durations DEF Fresh, AgeAtStart
<1>4. /\ results' = [results EXCEPT ![r] = [results[r] EXCEPT ![p] = price]]
      /\ todo' = [todo EXCEPT ![r] = @ \ {p}] /\ item' = [item EXCEPT ![r] = NoItem]
      /\ pc' = [pc EXCEPT ![r] = "lookup"]
  BY DEF checkHit
<1>5. results[r] \in [Pairings -> Price \cup {None}]
  BY DEF Inv, Types
<1> HIDE DEF p, price
<1>6. Types' /\ Moves(r)
  BY <1>1, <1>2, <1>4, <1>5 DEF Inv, Types, Moves
<1>7. /\ results'[r] = [results[r] EXCEPT ![p] = price] /\ todo'[r] = todo[r] \ {p}
      /\ item'[r] = NoItem /\ pc'[r] = "lookup"
  BY <1>4 DEF Inv, Types
<1>8. Phase(r)'
  BY <1>1, <1>7 DEF CallOK, Phase
<1>9. Results(r)'
  <2>1. /\ results'[r][p] = price /\ price # None
        /\ \A q \in Pairings \ {p} : results'[r][q] = results[r][q]
    BY <1>2, <1>5, <1>7, NoneIsNothing
  <2>2. p \in want[r] /\ p \notin needed[r]
    BY <1>1, <1>2 DEF CallOK, Phase
  <2>3. AgeAtStart(pc'[r]) = AgeAtStart("lookup") /\ AgeAtStart(pc[r]) = AgeAtStart("lookup")
    BY <1>1, <1>7 DEF AgeAtStart
  <2>4. Results(r)
    BY <1>1 DEF CallOK
  <2>5. QED
    BY <1>1, <1>3, <1>7, <2>1, <2>2, <2>3, <2>4 DEF Results
<1>10. Timing(r)'
  BY <1>1, <1>7 DEF CallOK, Phase, Timing, Limit
<1>11. QED
  BY <1>1, <1>6, <1>8, <1>9, <1>10, StepOf DEF CallOK, Inv, CacheOK

LEMMA CheckExpiredKeeps ==
  ASSUME Inv, NEW r \in Requests, checkExpired(r)
  PROVE  Inv'
<1> DEFINE p == item[r].pair
<1>1. CallOK(r) /\ pc[r] = "check" /\ UNCHANGED <<now, since, want, results, prices>>
  BY DEF Inv, checkExpired
<1>2. item[r] \in Item /\ p \in todo[r] /\ p \in Pairings
  BY <1>1 DEF Inv, Types, CallOK, Phase, Item
<1>3. /\ C!Forget({ToKrakenSymbol(p)})
      /\ needed' = [needed EXCEPT ![r] = @ \cup {p}] /\ todo' = [todo EXCEPT ![r] = @ \ {p}]
      /\ item' = [item EXCEPT ![r] = NoItem] /\ pc' = [pc EXCEPT ![r] = "lookup"]
  BY DEF checkExpired
<1> HIDE DEF p
<1>9. cache' \in [Symbols -> CacheEntry \cup {None}] /\ CacheOK'
  BY <1>1, <1>3, ForgetKeeps DEF Inv
<1>4. Types' /\ Moves(r)
  BY <1>1, <1>2, <1>3, <1>9 DEF Inv, Types, Moves
<1>5. /\ needed'[r] = needed[r] \cup {p} /\ todo'[r] = todo[r] \ {p}
      /\ item'[r] = NoItem /\ pc'[r] = "lookup"
  BY <1>3 DEF Inv, Types
<1>6. Phase(r)'
  BY <1>1, <1>2, <1>5 DEF CallOK, Phase
<1>7. Results(r)'
  BY <1>1, <1>2, <1>5 DEF CallOK, Results, AgeAtStart
<1>8. Timing(r)'
  BY <1>1, <1>5 DEF CallOK, Phase, Timing, Limit
<1>10. QED
  BY <1>4, <1>6, <1>7, <1>8, <1>9, StepOf DEF CallOK

LEMMA AskKrakenKeeps ==
  ASSUME Inv, NEW r \in Requests, askKraken(r)
  PROVE  Inv'
<1>1. /\ CallOK(r) /\ pc[r] = "lookup" /\ todo[r] = {}
      /\ UNCHANGED <<now, cache, want, todo, needed, results, prices, item>>
  BY DEF Inv, askKraken
<1>2. Types' /\ Moves(r) /\ pc'[r] = "fetch" /\ since'[r] = now
  BY DEF askKraken, Inv, Types, Moves
<1>3. Phase(r)'
  BY <1>1, <1>2 DEF CallOK, Phase
<1>4. Results(r)'
  <2>1. Results(r) /\ now - since[r] <= Lag
    BY <1>1 DEF CallOK, Timing, Limit
  <2>2. ASSUME NEW p \in Pairings, results[r][p] # None
        PROVE  now - results[r][p].at <= AgeAtStart("fetch")
    <3>1. results[r][p].at \in Int /\ now \in Int /\ since[r] \in Int
      BY <2>2 DEF Inv, Types, Price
    <3>2. since[r] - results[r][p].at <= HTTPTimeout + Lag + TTL
      BY <1>1, <2>1, <2>2 DEF Results, AgeAtStart
    <3>3. QED
      BY <2>1, <3>1, <3>2, Durations DEF AgeAtStart
  <2>3. QED
    BY <1>1, <1>2, <2>1, <2>2 DEF Results
<1>5. Timing(r)'
  <2>1. now \in Nat /\ item[r] = NoItem /\ prices[r] = None
    BY <1>1 DEF Inv, Types, CallOK, Phase
  <2>2. QED
    BY <1>1, <1>2, <2>1, Durations DEF CallOK, Timing, Limit
<1>6. QED
  BY <1>1, <1>2, <1>3, <1>4, <1>5, StepOf DEF CallOK, Inv, CacheOK

LEMMA KrakenAnswersKeeps ==
  ASSUME Inv, NEW r \in Requests, NEW known, krakenAnswers(r, known)
  PROVE  Inv'
<1> DEFINE x == [s \in Symbols |-> IF s \in known THEN [sym |-> s, at |-> now] ELSE None]
<1>1. /\ CallOK(r) /\ pc[r] = "fetch"
      /\ UNCHANGED <<now, cache, pc, since, want, todo, needed, results, item>>
  BY DEF Inv, krakenAnswers
<1>2. x \in [Symbols -> Price \cup {None}] /\ \A s \in Symbols : x[s] # None => x[s].sym = s
  BY DEF Price, Inv, Types
<1>3. prices' = [prices EXCEPT ![r] = x]
  BY DEF krakenAnswers
<1> HIDE DEF x
<1>4. Types' /\ Moves(r) /\ prices'[r] = x
  BY <1>1, <1>2, <1>3 DEF Inv, Types, Moves
<1>5. Phase(r)'
  BY <1>1, <1>4 DEF CallOK, Phase
<1>6. Results(r)'
  BY <1>1 DEF CallOK, Results
<1>7. Timing(r)'
  BY <1>1, <1>2, <1>4 DEF CallOK, Timing
<1>8. QED
  BY <1>1, <1>4, <1>5, <1>6, <1>7, StepOf DEF CallOK, Inv, CacheOK

LEMMA FetchSucceedsKeeps ==
  ASSUME Inv, NEW r \in Requests, fetchSucceeds(r)
  PROVE  Inv'
<1>1. /\ CallOK(r) /\ pc[r] = "fetch" /\ prices[r] # None
      /\ UNCHANGED <<now, cache, want, needed, results, prices, item>>
  BY DEF Inv, fetchSucceeds
<1>2. Types' /\ Moves(r) /\ pc'[r] = "store" /\ since'[r] = now /\ todo'[r] = needed[r]
  BY DEF fetchSucceeds, Inv, Types, Moves
<1>3. Phase(r)'
  BY <1>1, <1>2 DEF CallOK, Phase
<1>4. Results(r)'
  <2>1. Results(r) /\ now - since[r] <= FetchLimit /\ todo[r] = {}
    BY <1>1 DEF CallOK, Phase, Timing, Limit
  <2>2. ASSUME NEW p \in Pairings, results[r][p] # None
        PROVE  now - results[r][p].at <= AgeAtStart("store")
    <3>1. results[r][p].at \in Int /\ now \in Int /\ since[r] \in Int
      BY <2>2 DEF Inv, Types, Price
    <3>2. since[r] - results[r][p].at <= HTTPTimeout + Lag + TTL + Lag
      BY <1>1, <2>1, <2>2 DEF Results, AgeAtStart
    <3>3. QED
      BY <2>1, <3>1, <3>2, Durations DEF AgeAtStart
  <2>3. QED
    BY <1>1, <1>2, <2>1, <2>2 DEF Results
<1>5. Timing(r)'
  <2>1. now \in Nat /\ item[r] = NoItem
    BY <1>1 DEF Inv, Types, CallOK, Phase
  <2>2. \A s \in Symbols : prices[r][s] # None =>
          prices[r][s].sym = s /\ now - prices[r][s].at <= HTTPTimeout
    BY <1>1 DEF fetchSucceeds, CallOK, Timing
  <2>3. QED
    BY <1>1, <1>2, <2>1, <2>2, Durations DEF Timing, Limit
<1>6. QED
  BY <1>1, <1>2, <1>3, <1>4, <1>5, StepOf DEF CallOK, Inv, CacheOK

\* cache.Set, first half: the ttl begins at most a timeout and a pass of the loop
\* after Kraken sampled the price.
LEMMA StampKeeps ==
  ASSUME Inv, NEW r \in Requests, stamp(r)
  PROVE  Inv'
<1>1. /\ CallOK(r) /\ pc[r] = "store"
      /\ UNCHANGED <<now, cache, since, want, todo, needed, results, prices>>
  BY DEF Inv, stamp
<1>2. PICK p \in todo[r] :
        /\ prices[r][ToKrakenSymbol(p)] # None
        /\ item' = [item EXCEPT ![r] =
             [pair |-> p, entry |-> [value |-> prices[r][ToKrakenSymbol(p)],
                                     createdAt |-> now, expiresAt |-> now + TTL]]]
  BY DEF stamp
<1> DEFINE price == prices[r][ToKrakenSymbol(p)]
           entry == [value |-> price, createdAt |-> now, expiresAt |-> now + TTL]
           x == [pair |-> p, entry |-> entry]
<1>3. p \in Pairings /\ ToKrakenSymbol(p) \in Symbols /\ prices[r] # None
  BY <1>1, SymbolOf DEF Inv, Types, CallOK, Phase
<1>4. price \in Price /\ price.sym = ToKrakenSymbol(p) /\ since[r] - price.at <= HTTPTimeout
  BY <1>1, <1>2, <1>3 DEF Inv, Types, CallOK, Timing
<1>5. price.at \in Int /\ now \in Int /\ since[r] \in Int /\ now - since[r] <= Lag
  BY <1>1, <1>4 DEF Inv, Types, Price, CallOK, Timing, Limit
<1>6. item' = [item EXCEPT ![r] = x] /\ pc' = [pc EXCEPT ![r] = "storing"]
  BY <1>2 DEF stamp
<1> HIDE DEF price
<1>7. /\ entry \in CacheEntry /\ Fresh(entry, ToKrakenSymbol(p)) /\ entry.value = price
      /\ entry.createdAt <= now
  BY <1>4, <1>5, Durations DEF CacheEntry, Fresh
<1> HIDE DEF entry
<1>8. x \in Item /\ x # NoItem /\ x.pair = p /\ x.entry = entry
  BY <1>3, <1>7, NoItemIsNoItem DEF Item
<1> HIDE DEF x
<1>9. Types' /\ Moves(r) /\ item'[r] = x /\ pc'[r] = "storing"
  BY <1>1, <1>6, <1>8 DEF Inv, Types, Moves
<1>10. Phase(r)'
  BY <1>1, <1>2, <1>8, <1>9 DEF CallOK, Phase
<1>11. Results(r)'
  BY <1>1, <1>9 DEF CallOK, Results, AgeAtStart
<1>12. Timing(r)'
  BY <1>1, <1>4, <1>7, <1>8, <1>9 DEF CallOK, Timing, Limit
<1>13. QED
  BY <1>1, <1>9, <1>10, <1>11, <1>12, StepOf DEF CallOK, Inv, CacheOK

\* cache.Set, second half.
LEMMA StoreKeeps ==
  ASSUME Inv, NEW r \in Requests, store(r)
  PROVE  Inv'
<1> DEFINE p == item[r].pair
           price == item[r].entry.value
<1>1. CallOK(r) /\ pc[r] = "storing" /\ UNCHANGED <<now, since, want, needed, prices>>
  BY DEF Inv, store
<1>2. /\ item[r] \in Item /\ item[r] # NoItem /\ p \in todo[r] /\ p \in Pairings /\ price \in Price
      /\ item[r].entry \in CacheEntry
  BY <1>1 DEF Inv, Types, CallOK, Phase, Item, CacheEntry
<1>3. Fresh(item[r].entry, ToKrakenSymbol(p)) /\ since[r] - price.at <= HTTPTimeout
  BY <1>1, <1>2 DEF CallOK, Timing
<1>4. price.sym = ToKrakenSymbol(p) /\ since[r] - price.at <= AgeAtStart("store")
  <2>1. price.at \in Int /\ since[r] \in Int
    BY <1>2 DEF Price, Inv, Types
  <2>2. QED
    BY <1>3, <2>1, Durations DEF Fresh, AgeAtStart
<1>5. /\ C!Put(ToKrakenSymbol(p), item[r].entry)
      /\ results' = [results EXCEPT ![r] = [results[r] EXCEPT ![p] = price]]
      /\ todo' = [todo EXCEPT ![r] = @ \ {p}] /\ item' = [item EXCEPT ![r] = NoItem]
      /\ pc' = [pc EXCEPT ![r] = "store"]
  BY DEF store
<1>6. results[r] \in [Pairings -> Price \cup {None}] /\ ToKrakenSymbol(p) \in Symbols
  BY <1>2, SymbolOf DEF Inv, Types
<1>7. cache' \in [Symbols -> CacheEntry \cup {None}] /\ CacheOK'
  BY <1>1, <1>3, <1>5, <1>6, PutKeeps DEF Inv
<1> HIDE DEF p, price
<1>8. Types' /\ Moves(r)
  BY <1>1, <1>2, <1>5, <1>6, <1>7 DEF Inv, Types, Moves
<1>9. /\ results'[r] = [results[r] EXCEPT ![p] = price] /\ todo'[r] = todo[r] \ {p}
      /\ item'[r] = NoItem /\ pc'[r] = "store"
  BY <1>5 DEF Inv, Types
<1>10. Phase(r)'
  BY <1>1, <1>9 DEF CallOK, Phase
<1>11. Results(r)'
  <2>1. /\ results'[r][p] = price /\ price # None
        /\ \A q \in Pairings \ {p} : results'[r][q] = results[r][q]
    BY <1>2, <1>6, <1>9, NoneIsNothing
  <2>2. p \in want[r]
    BY <1>1, <1>2 DEF CallOK, Phase
  <2>3. AgeAtStart(pc'[r]) = AgeAtStart("store") /\ AgeAtStart(pc[r]) = AgeAtStart("store")
    BY <1>1, <1>9 DEF AgeAtStart
  <2>4. Results(r)
    BY <1>1 DEF CallOK
  <2>5. QED
    BY <1>1, <1>4, <1>9, <2>1, <2>2, <2>3, <2>4 DEF Results
<1>12. Timing(r)'
  BY <1>1, <1>9 DEF CallOK, Timing, Limit
<1>13. QED
  BY <1>7, <1>8, <1>10, <1>11, <1>12, StepOf DEF CallOK

LEMMA TickKeeps ==
  ASSUME Inv, Tick
  PROVE  Inv'
<1>1. Types'
  BY ServiceAssumption DEF Inv, Types, Tick, C!Tick
<1>2. ASSUME NEW r \in Requests PROVE CallOK(r)'
  <2>1. CallOK(r) /\ now' = now + 1 /\ now \in Int /\ since[r] \in Int
    BY DEF Inv, Types, Tick, C!Tick
  <2>2. Phase(r)' /\ Results(r)'
    BY <2>1 DEF Tick, C!Tick, CallOK, Phase, Results
  <2>3. since[r] <= now'
    BY <2>1 DEF CallOK, Timing
  <2>4. pc[r] # "idle" => now' - since[r] <= Limit(pc[r])
    BY <2>1, Durations DEF Tick, C!Tick, Limit
  <2>5. Timing(r)'
    <3>1. item[r] # NoItem => item[r].entry.createdAt <= now'
      BY <2>1 DEF Inv, Types, Item, CacheEntry, CallOK, Timing
    <3>2. QED
      BY <2>1, <2>3, <2>4, <3>1 DEF Tick, CallOK, Timing
  <2>6. QED
    BY <2>2, <2>5 DEF CallOK
<1>3. CacheOK'
  <2>1. \A s \in Symbols : cache[s] # None => cache[s].createdAt \in Int
    BY DEF Inv, Types, CacheEntry
  <2>2. QED
    BY <2>1 DEF Inv, Types, Tick, C!Tick, CacheOK
<1>4. QED
  BY <1>1, <1>2, <1>3 DEF Inv

LEMMA LoseKeeps ==
  ASSUME Inv, NEW K \in SUBSET Symbols, Lose(K)
  PROVE  Inv'
<1>1. Types' /\ CacheOK'
  BY ForgetKeeps DEF Inv, Types, Lose
<1>2. ASSUME NEW r \in Requests PROVE CallOK(r)'
  BY Unmoved DEF Inv, Lose
<1>3. QED
  BY <1>1, <1>2 DEF Inv

-----------------------------------------------------------------------------

LEMMA InvInit == Init => Inv
<1> SUFFICES ASSUME Init PROVE Inv
  OBVIOUS
<1>1. Types
  BY ServiceAssumption DEF Init, C!Init, Types, NoResults
<1>2. CacheOK
  BY DEF Init, C!Init, CacheOK
<1>3. ASSUME NEW r \in Requests PROVE CallOK(r)
  <2>1. /\ pc[r] = "idle" /\ since[r] = 0 /\ want[r] = {} /\ todo[r] = {} /\ needed[r] = {}
        /\ prices[r] = None /\ item[r] = NoItem /\ \A p \in Pairings : results[r][p] = None
        /\ now = 0
    BY DEF Init, C!Init, NoResults
  <2>2. QED
    BY <2>1, FS_EmptySet DEF CallOK, Phase, Results, Timing
<1>4. QED
  BY <1>1, <1>2, <1>3 DEF Inv

LEMMA InvStep ==
  ASSUME Inv, [Next]_vars
  PROVE  Inv'
<1>1. ASSUME NEW r \in Requests, NEW userPairs \in SUBSET UserPairs, GetLTP(r, userPairs)
      PROVE  Inv'
  BY <1>1, GetLTPKeeps
<1>2. ASSUME NEW r \in Requests, RequestStep(r) PROVE Inv'
  <2>1. CASE fetchFails(r) \/ pairNotFound(r) \/ respond(r)
    BY <2>1, ReturnKeeps DEF fetchFails, pairNotFound, respond
  <2>2. QED
    BY <1>2, <2>1, CacheGetKeeps, CheckHitKeeps, CheckExpiredKeeps, AskKrakenKeeps,
       FetchSucceedsKeeps, StampKeeps, StoreKeeps DEF RequestStep
<1>3. ASSUME NEW r \in Requests, NEW known \in SUBSET NeededSymbols(r), krakenAnswers(r, known)
      PROVE  Inv'
  BY <1>3, KrakenAnswersKeeps
<1>4. CASE UNCHANGED vars
  <2>1. ASSUME NEW r \in Requests PROVE CallOK(r)'
    BY <1>4, Unmoved DEF Inv, vars
  <2>2. QED
    BY <1>4, <2>1 DEF Inv, Types, CacheOK, vars
<1>5. QED
  BY <1>1, <1>2, <1>3, <1>4, LoseKeeps, TickKeeps DEF Next

LEMMA InvHolds == Spec => []Inv
<1>1. Inv /\ [Next]_vars => Inv'
  BY InvStep
<1>2. QED
  BY <1>1, InvInit, PTL DEF Spec

\* The variables of every call have the shape of its phase, whatever the other calls
\* do to the cache meanwhile.
THEOREM TypeCorrect == Spec => []TypeOK
<1>1. ASSUME Inv PROVE TypeOK
  <2>1. ASSUME NEW r \in Requests
        PROVE  /\ todo[r] \cup needed[r] \subseteq want[r]
               /\ pc[r] \in {"check", "storing"} <=> item[r] # NoItem
               /\ item[r] # NoItem => /\ item[r].pair \in todo[r]
                                      /\ item[r].entry \in CacheEntry
                                      /\ item[r].entry.createdAt <= now
    BY <1>1 DEF Inv, Types, CallOK, Phase, Timing, Item
  <2>2. ASSUME NEW r \in Requests
        PROVE  {p \in Pairings : results[r][p] # None} =
                 IF pc[r] \in {"store", "storing"} THEN want[r] \ todo[r]
                 ELSE want[r] \ (todo[r] \cup needed[r])
    <3>1. want[r] \subseteq Pairings /\ Results(r)
      BY <1>1 DEF Inv, Types, CallOK
    <3>2. QED
      BY <3>1 DEF Results
  <2>3. QED
    BY <1>1, <2>1, <2>2 DEF Inv, Types, TypeOK
<1>2. QED
  BY <1>1, InvHolds, PTL

\* No cached price outlives its ttl by more than the time it took to fetch and store
\* it, and every symbol has its own price.
THEOREM CacheFreshCorrect == Spec => []CacheFresh
<1>1. Inv => CacheFresh
  BY DEF Inv, CacheOK, Fresh, CacheFresh
<1>2. QED
  BY <1>1, InvHolds, PTL

\* Every response is complete and has each pair's own price.
THEOREM ResponseCorrect == Spec => ResponseComplete
<1> DEFINE Complete(r) ==
             Busy(r) /\ respond(r) =>
               \A p \in Pairings :
                 IF p \in want[r]
                 THEN results[r][p] # None /\ results[r][p].sym = ToKrakenSymbol(p)
                 ELSE results[r][p] = None
<1>1. ASSUME Inv, NEW r \in Requests PROVE Complete(r)
  <2>1. CallOK(r)
    BY <1>1 DEF Inv
  <2>2. QED
    BY <2>1 DEF respond, CallOK, Results
<1>2. Inv /\ [Next]_vars => [\A r \in Requests : Complete(r)]_vars
  BY <1>1
<1>3. QED
  BY <1>2, InvHolds, PTL DEF Spec, ResponseComplete

\* No price in a response is older than MaxAge.
THEOREM ResponseAgeBounded == Spec => ResponseFresh
<1> DEFINE Young(r) ==
             Busy(r) /\ respond(r) =>
               \A p \in want[r] : results[r][p] # None => Age(results[r][p]) <= MaxAge
<1>1. ASSUME Inv, NEW r \in Requests, Busy(r), respond(r), NEW p \in want[r], results[r][p] # None
      PROVE  Age(results[r][p]) <= MaxAge
  <2>1. CallOK(r) /\ p \in Pairings /\ pc[r] \in {"lookup", "store"}
    BY <1>1 DEF Inv, Types, respond
  <2>2. results[r][p].at \in Int /\ now \in Int /\ since[r] \in Int
    BY <1>1, <2>1 DEF Inv, Types, Price
  <2>3. now - since[r] <= Lag
    BY <2>1 DEF CallOK, Timing, Limit
  <2>4. since[r] - results[r][p].at <= HTTPTimeout + Lag + TTL + Lag + FetchLimit
    <3>1. since[r] - results[r][p].at <= AgeAtStart(pc[r])
      BY <1>1, <2>1 DEF CallOK, Results
    <3>2. QED
      BY <2>1, <2>2, <3>1, Durations DEF AgeAtStart
  <2>5. QED
    BY <2>2, <2>3, <2>4, Durations DEF Age, MaxAge
<1>2. Inv => \A r \in Requests : Young(r)
  BY <1>1
<1>3. Inv /\ [Next]_vars => [\A r \in Requests : Young(r)]_vars
  BY <1>2
<1>4. QED
  BY <1>3, InvHolds, PTL DEF Spec, ResponseFresh

-----------------------------------------------------------------------------

\* What is left of a call in its three kinds of phase.
Looking(T, N, h) ==
  ({"get"} \X (T \ h)) \cup ({"check"} \X T) \cup ({"stamp", "store"} \X (T \cup N))
    \cup ({"ask", "fetch", "return"} \X {Invalid})
Fetching(N) == ({"stamp", "store"} \X N) \cup ({"fetch", "return"} \X {Invalid})
Storing(T, h) ==
  ({"stamp"} \X (T \ h)) \cup ({"store"} \X T) \cup ({"return"} \X {Invalid})

LEMMA LeftIs ==
  ASSUME NEW r
  PROVE  /\ pc[r] = "idle" => Left(r) = {}
         /\ pc[r] = "lookup" => Left(r) = Looking(todo[r], needed[r], {})
         /\ pc[r] = "check" => Left(r) = Looking(todo[r], needed[r], {item[r].pair})
         /\ pc[r] = "fetch" => Left(r) = Fetching(needed[r])
         /\ pc[r] = "store" => Left(r) = Storing(todo[r], {})
         /\ pc[r] = "storing" => Left(r) = Storing(todo[r], {item[r].pair})
  BY DEF Left, InHand, Looking, Fetching, Storing

LEMMA LeftIsNext ==
  ASSUME NEW r
  PROVE  /\ pc'[r] = "idle" => Left(r)' = {}
         /\ pc'[r] = "lookup" => Left(r)' = Looking(todo'[r], needed'[r], {})
         /\ pc'[r] = "check" => Left(r)' = Looking(todo'[r], needed'[r], {item'[r].pair})
         /\ pc'[r] = "fetch" => Left(r)' = Fetching(needed'[r])
         /\ pc'[r] = "store" => Left(r)' = Storing(todo'[r], {})
         /\ pc'[r] = "storing" => Left(r)' = Storing(todo'[r], {item'[r].pair})
  BY DEF Left, InHand, Looking, Fetching, Storing

LEMMA LeftHasShape ==
  ASSUME NEW r, pc[r] \in {"lookup", "check", "fetch", "store", "storing"}
  PROVE  \E h : Left(r) \in {Looking(todo[r], needed[r], h), Fetching(needed[r]), Storing(todo[r], h)}
<1>1. CASE pc[r] = "lookup"
  <2>1. Left(r) = Looking(todo[r], needed[r], {})
    BY <1>1, LeftIs
  <2>2. QED
    BY <2>1
<1>2. CASE pc[r] = "check"
  <2>1. Left(r) = Looking(todo[r], needed[r], {item[r].pair})
    BY <1>2, LeftIs
  <2>2. QED
    BY <2>1
<1>3. CASE pc[r] = "fetch"
  BY <1>3, LeftIs
<1>4. CASE pc[r] = "store"
  <2>1. Left(r) = Storing(todo[r], {})
    BY <1>4, LeftIs
  <2>2. QED
    BY <2>1
<1>5. CASE pc[r] = "storing"
  <2>1. Left(r) = Storing(todo[r], {item[r].pair})
    BY <1>5, LeftIs
  <2>2. QED
    BY <2>1
<1>6. QED
  BY <1>1, <1>2, <1>3, <1>4, <1>5

\* B is what is left of A after a step.
Less(B, A) == B \subseteq A /\ B # A

\* Each kind of step leaves less.
LEMMA GetLess ==
  ASSUME NEW T, NEW N, NEW p \in T
  PROVE  /\ Less(Looking(T \ {p}, N \cup {p}, {}), Looking(T, N, {}))
         /\ Less(Looking(T, N, {p}), Looking(T, N, {}))
<1>1. <<"get", p>> \in Looking(T, N, {})
  BY DEF Looking
<1>2. <<"get", p>> \notin Looking(T \ {p}, N \cup {p}, {}) /\ <<"get", p>> \notin Looking(T, N, {p})
  BY DEF Looking
<1>3. Looking(T \ {p}, N \cup {p}, {}) \subseteq Looking(T, N, {})
  BY DEF Looking
<1>4. Looking(T, N, {p}) \subseteq Looking(T, N, {})
  BY DEF Looking
<1>5. QED
  BY <1>1, <1>2, <1>3, <1>4 DEF Less

LEMMA CheckLess ==
  ASSUME NEW T, NEW N, NEW p \in T
  PROVE  /\ Less(Looking(T \ {p}, N, {}), Looking(T, N, {p}))
         /\ Less(Looking(T \ {p}, N \cup {p}, {}), Looking(T, N, {p}))
<1>1. <<"check", p>> \in Looking(T, N, {p})
  BY DEF Looking
<1>2. /\ <<"check", p>> \notin Looking(T \ {p}, N, {})
      /\ <<"check", p>> \notin Looking(T \ {p}, N \cup {p}, {})
  BY DEF Looking
<1>3. Looking(T \ {p}, N, {}) \subseteq Looking(T, N, {p})
  BY DEF Looking
<1>4. Looking(T \ {p}, N \cup {p}, {}) \subseteq Looking(T, N, {p})
  BY DEF Looking
<1>5. QED
  BY <1>1, <1>2, <1>3, <1>4 DEF Less

LEMMA FetchLess ==
  ASSUME NEW N
  PROVE  Less(Fetching(N), Looking({}, N, {})) /\ Less(Storing(N, {}), Fetching(N))
<1>1. <<"ask", Invalid>> \in Looking({}, N, {}) /\ <<"ask", Invalid>> \notin Fetching(N)
  BY DEF Looking, Fetching
<1>2. <<"fetch", Invalid>> \in Fetching(N) /\ <<"fetch", Invalid>> \notin Storing(N, {})
  BY DEF Fetching, Storing
<1>3. Fetching(N) \subseteq Looking({}, N, {})
  BY DEF Looking, Fetching
<1>4. Storing(N, {}) \subseteq Fetching(N)
  BY DEF Fetching, Storing
<1>5. QED
  BY <1>1, <1>2, <1>3, <1>4 DEF Less

LEMMA StoreLess ==
  ASSUME NEW T, NEW p \in T
  PROVE  /\ Less(Storing(T, {p}), Storing(T, {}))
         /\ Less(Storing(T \ {p}, {}), Storing(T, {p}))
<1>1. <<"stamp", p>> \in Storing(T, {}) /\ <<"stamp", p>> \notin Storing(T, {p})
  BY DEF Storing
<1>2. <<"store", p>> \in Storing(T, {p}) /\ <<"store", p>> \notin Storing(T \ {p}, {})
  BY DEF Storing
<1>3. Storing(T, {p}) \subseteq Storing(T, {})
  BY DEF Storing
<1>4. Storing(T \ {p}, {}) \subseteq Storing(T, {p})
  BY DEF Storing
<1>5. QED
  BY <1>1, <1>2, <1>3, <1>4 DEF Less

\* A return leaves nothing of what was left.
LEMMA ReturnLess ==
  ASSUME NEW r \in Requests, Busy(r), Types, pc'[r] = "idle"
  PROVE  Less(Left(r)', Left(r))
<1>1. <<"return", Invalid>> \in Left(r)
  <2>1. \A T, N, h : /\ <<"return", Invalid>> \in Looking(T, N, h)
                     /\ <<"return", Invalid>> \in Fetching(N)
                     /\ <<"return", Invalid>> \in Storing(T, h)
    BY DEF Looking, Fetching, Storing
  <2>2. pc[r] \in {"lookup", "check", "fetch", "store", "storing"}
    BY DEF Types, Busy
  <2>3. \E T, N, h : Left(r) \in {Looking(T, N, h), Fetching(N), Storing(T, h)}
    BY <2>2, LeftHasShape
  <2>4. QED
    BY <2>1, <2>3
<1>2. QED
  BY <1>1, LeftIsNext DEF Less

\* Every step of a call leaves less of it.
LEMMA StepLess ==
  ASSUME Inv, NEW r \in Requests, RequestStep(r)
  PROVE  Less(Left(r)', Left(r))
<1>1. CallOK(r) /\ Types
  BY DEF Inv
<1>2. CASE cacheGet(r)
  <2>1. pc[r] = "lookup"
    BY <1>2 DEF cacheGet
  <2>2. PICK p \in todo[r] :
          \/ /\ needed'[r] = needed[r] \cup {p} /\ todo'[r] = todo[r] \ {p}
             /\ pc'[r] = "lookup"
          \/ /\ item'[r].pair = p /\ pc'[r] = "check"
             /\ needed'[r] = needed[r] /\ todo'[r] = todo[r]
    BY <1>1, <1>2 DEF cacheGet, Types
  <2>3. Left(r) = Looking(todo[r], needed[r], {})
    BY <2>1, LeftIs
  <2>4. \/ Left(r)' = Looking(todo[r] \ {p}, needed[r] \cup {p}, {})
        \/ Left(r)' = Looking(todo[r], needed[r], {p})
    BY <2>2, LeftIsNext
  <2>5. QED
    BY <2>3, <2>4, GetLess
<1>3. CASE checkHit(r) \/ checkExpired(r)
  <2>1. /\ pc[r] = "check" /\ pc'[r] = "lookup" /\ item[r].pair \in todo[r]
        /\ todo'[r] = todo[r] \ {item[r].pair}
        /\ needed'[r] = needed[r] \/ needed'[r] = needed[r] \cup {item[r].pair}
    BY <1>1, <1>3 DEF checkHit, checkExpired, Types, CallOK, Phase
  <2> DEFINE p == item[r].pair
  <2>2. Left(r) = Looking(todo[r], needed[r], {p})
    BY <2>1, LeftIs
  <2>3. \/ Left(r)' = Looking(todo[r] \ {p}, needed[r], {})
        \/ Left(r)' = Looking(todo[r] \ {p}, needed[r] \cup {p}, {})
    BY <2>1, LeftIsNext
  <2>4. p \in todo[r]
    BY <2>1
  <2> HIDE DEF p
  <2>5. QED
    BY <2>2, <2>3, <2>4, CheckLess
<1>4. CASE askKraken(r)
  <2>1. pc[r] = "lookup" /\ pc'[r] = "fetch" /\ todo[r] = {} /\ needed'[r] = needed[r]
    BY <1>1, <1>4 DEF askKraken, Types
  <2>2. QED
    BY <2>1, FetchLess, LeftIs, LeftIsNext
<1>5. CASE fetchSucceeds(r)
  <2>1. pc[r] = "fetch" /\ pc'[r] = "store" /\ todo'[r] = needed[r]
    BY <1>1, <1>5 DEF fetchSucceeds, Types
  <2>2. QED
    BY <2>1, FetchLess, LeftIs, LeftIsNext
<1>6. CASE stamp(r)
  <2>1. /\ pc[r] = "store" /\ pc'[r] = "storing" /\ todo'[r] = todo[r]
        /\ item'[r].pair \in todo[r]
    BY <1>1, <1>6 DEF stamp, Types
  <2>2. QED
    BY <2>1, StoreLess, LeftIs, LeftIsNext
<1>7. CASE store(r)
  <2>1. /\ pc[r] = "storing" /\ pc'[r] = "store" /\ todo'[r] = todo[r] \ {item[r].pair}
        /\ item[r].pair \in todo[r]
    BY <1>1, <1>7 DEF store, Types, CallOK, Phase
  <2> DEFINE p == item[r].pair
  <2>2. Left(r) = Storing(todo[r], {p})
    BY <2>1, LeftIs
  <2>3. Left(r)' = Storing(todo[r] \ {p}, {})
    BY <2>1, LeftIsNext
  <2>4. p \in todo[r]
    BY <2>1
  <2> HIDE DEF p
  <2>5. QED
    BY <2>2, <2>3, <2>4, StoreLess
<1>8. CASE fetchFails(r) \/ pairNotFound(r) \/ respond(r)
  <2>1. Busy(r) /\ pc'[r] = "idle"
    BY <1>1, <1>8 DEF fetchFails, pairNotFound, respond, Return, Types, Busy
  <2>2. QED
    BY <1>1, <2>1, ReturnLess
<1>9. QED
  BY <1>2, <1>3, <1>4, <1>5, <1>6, <1>7, <1>8 DEF RequestStep

\* A step of another call, of Kraken, of the cache or of the clock takes and adds
\* nothing.
LEMMA OthersAddNothing ==
  ASSUME Inv, [Next]_vars, NEW r \in Requests, Busy(r), ~RequestStep(r)
  PROVE  Left(r)' = Left(r)
<1>1. pc'[r] = pc[r] /\ todo'[r] = todo[r] /\ needed'[r] = needed[r] /\ item'[r] = item[r]
  <2>1. ASSUME NEW q \in Requests, NEW userPairs \in SUBSET UserPairs, GetLTP(q, userPairs)
        PROVE  <1>1!:
    BY <2>1 DEF Inv, Types, Busy, GetLTP
  <2>2. ASSUME NEW q \in Requests, q # r, RequestStep(q) PROVE <1>1!:
    <3>1. CASE cacheGet(q) \/ checkHit(q) \/ checkExpired(q)
      BY <2>2, <3>1 DEF Inv, Types, cacheGet, checkHit, checkExpired
    <3>2. CASE askKraken(q) \/ fetchSucceeds(q) \/ stamp(q) \/ store(q)
      BY <2>2, <3>2 DEF Inv, Types, askKraken, fetchSucceeds, stamp, store
    <3>3. CASE fetchFails(q) \/ pairNotFound(q) \/ respond(q)
      BY <2>2, <3>3 DEF Inv, Types, fetchFails, pairNotFound, respond, Return
    <3>4. QED
      BY <2>2, <3>1, <3>2, <3>3 DEF RequestStep
  <2>3. ASSUME NEW q \in Requests, NEW known, krakenAnswers(q, known) PROVE <1>1!:
    BY <2>3 DEF krakenAnswers
  <2>4. CASE (\E K \in SUBSET Symbols : Lose(K)) \/ Tick \/ UNCHANGED vars
    BY <2>4 DEF Lose, Tick, vars
  <2>5. QED
    BY <2>1, <2>2, <2>3, <2>4 DEF Next
<1>2. QED
  BY <1>1 DEF Left, InHand

\* What is left is finite, for the pairs of a call are.
LEMMA LeftIsFinite ==
  ASSUME Inv, NEW r \in Requests
  PROVE  IsFiniteSet(Left(r))
<1> DEFINE names == {"get", "check", "stamp", "store", "ask", "fetch", "return"}
           all == names \X (want[r] \cup {Invalid})
<1>1. IsFiniteSet(all)
  <2>1. IsFiniteSet(names)
    <3>1. \A x : IsFiniteSet({x})
      BY FS_Singleton
    <3>2. IsFiniteSet({"get"} \cup {"check"} \cup {"stamp"})
      BY <3>1, FS_Union
    <3>3. IsFiniteSet({"store"} \cup {"ask"} \cup {"fetch"})
      BY <3>1, FS_Union
    <3>4. IsFiniteSet({"get", "check", "stamp"} \cup {"store", "ask", "fetch"})
      <4>1. /\ {"get"} \cup {"check"} \cup {"stamp"} = {"get", "check", "stamp"}
            /\ {"store"} \cup {"ask"} \cup {"fetch"} = {"store", "ask", "fetch"}
        OBVIOUS
      <4>2. QED
        BY <3>2, <3>3, <4>1, FS_Union
    <3>5. IsFiniteSet({"get", "check", "stamp"} \cup {"store", "ask", "fetch"} \cup {"return"})
      BY <3>4, FS_AddElement
    <3>6. names = {"get", "check", "stamp"} \cup {"store", "ask", "fetch"} \cup {"return"}
      OBVIOUS
    <3>7. QED
      BY <3>5, <3>6
  <2>2. IsFiniteSet(want[r] \cup {Invalid})
    BY FS_AddElement DEF Inv, CallOK, Phase
  <2>3. QED
    BY <2>1, <2>2, FS_Product
<1>2. Left(r) \subseteq all
  <2>1. ASSUME NEW T \in SUBSET want[r], NEW N \in SUBSET want[r], NEW h
        PROVE  /\ Looking(T, N, h) \subseteq all
               /\ Fetching(N) \subseteq all
               /\ Storing(T, h) \subseteq all
    <3>1. Looking(T, N, h) \subseteq all
      BY DEF Looking
    <3>2. Fetching(N) \subseteq all
      BY DEF Fetching
    <3>3. Storing(T, h) \subseteq all
      BY DEF Storing
    <3>4. QED
      BY <3>1, <3>2, <3>3
  <2> HIDE DEF all
  <2>2. todo[r] \in SUBSET want[r] /\ needed[r] \in SUBSET want[r]
    BY DEF Inv, CallOK, Phase
  <2>3. pc[r] \in {"idle", "lookup", "check", "fetch", "store", "storing"}
    BY DEF Inv, Types
  <2>4. CASE pc[r] = "idle"
    BY <2>4, LeftIs
  <2>5. CASE pc[r] # "idle"
    <3>1. PICK h : Left(r) \in {Looking(todo[r], needed[r], h), Fetching(needed[r]),
                                Storing(todo[r], h)}
      BY <2>3, <2>5, LeftHasShape
    <3>2. QED
      BY <2>1, <2>2, <3>1
  <2>6. QED
    BY <2>4, <2>5
<1> HIDE DEF all
<1>3. QED
  BY <1>1, <1>2, FS_Subset

\* A GetLTP has finitely many steps to take when it begins and every step it takes
\* leaves fewer, for any number of requests, pairs and cached entries.
THEOREM StepsRunOutCorrect == Spec => StepsRunOut
<1> DEFINE RunsOut(r) == Busy(r) => /\ IsFiniteSet(Left(r))
                                    /\ Left(r)' \subseteq Left(r)
                                    /\ RequestStep(r) => Left(r)' # Left(r)
<1>1. ASSUME Inv, [Next]_vars, NEW r \in Requests PROVE RunsOut(r)
  BY <1>1, StepLess, OthersAddNothing, LeftIsFinite DEF Less
<1>2. Inv /\ [Next]_vars => [\A r \in Requests : RunsOut(r)]_vars
  BY <1>1
<1>3. QED
  BY <1>2, InvHolds, PTL DEF Spec, StepsRunOut

=============================================================================
