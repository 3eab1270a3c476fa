----------------------------- MODULE LtpService -----------------------------
(***************************************************************************)
(* GetLTP (internal/ltp/service.go) called by many request goroutines over *)
(* one in-memory cache (through LegacyCache) and the Kraken API.           *)
(*                                                                         *)
(* A price is the symbol it was asked for and the time Kraken sampled it,  *)
(* so its age can be read off.  The cache is any one that does what        *)
(* LossyCache promises, as MemoryCache does: a Get reads an entry and      *)
(* tests it later, a Set stamps an entry and stores it later, and entries  *)
(* may disappear at any time (Lose: evictions for other users of the cache *)
(* and the removal that races with a Set).                                 *)
(***************************************************************************)
EXTENDS Integers, FiniteSets, Pairs

CONSTANTS
  Requests,
  UserPairs,    \* what users may type, as pieces
  None,
  CacheSize,    \* MaxSize of the cache
  TTL,          \* LegacyCache.Set: 60 seconds
  HTTPTimeout,  \* http.Client.Timeout of one attempt
  FetchLimit,   \* longest GetTickerPrices with all its attempts
  Lag,          \* longest run through the lookups or the stores of a request
  MaxTime       \* bound of the clock

Pairings == {NormalizeUserPair(u) : u \in UserPairs} \ {Invalid}
Symbols == {ToKrakenSymbol(p) : p \in Pairings}
Price == [sym : Symbols, at : Int]
CacheEntry == [value : Price, createdAt : Int, expiresAt : Int]

ASSUME ServiceAssumption ==
  /\ {CacheSize, TTL, HTTPTimeout, FetchLimit} \subseteq Nat \ {0}
  /\ {Lag, MaxTime} \subseteq Nat
  /\ None \notin CacheEntry \cup Price

VARIABLES
  now,
  cache,      \* symbol -> CacheEntry or None
  pc,         \* idle, lookup, check, fetch, store, storing
  since,      \* when the request began its lookups, its fetch or its stores
  want,       \* the normalized pairs of the request
  todo,       \* those still to look up or to store
  needed,     \* those the cache did not have
  results,    \* pair -> Price or None
  prices,     \* what Kraken answered: symbol -> Price or None; None: no answer
  item        \* the pair and the entry between two steps of one cache call

vars == <<now, cache, pc, since, want, todo, needed, results, prices, item>>

C == INSTANCE LossyCache WITH Keys <- Symbols, Values <- Price, MaxSize <- CacheSize,
                              store <- cache

-----------------------------------------------------------------------------

NoResults == [p \in Pairings |-> None]
NoItem == [pair |-> None, entry |-> None]

Init ==
  /\ C!Init
  /\ pc = [r \in Requests |-> "idle"]
  /\ since = [r \in Requests |-> 0]
  /\ want = [r \in Requests |-> {}]
  /\ todo = [r \in Requests |-> {}]
  /\ needed = [r \in Requests |-> {}]
  /\ results = [r \in Requests |-> NoResults]
  /\ prices = [r \in Requests |-> None]
  /\ item = [r \in Requests |-> NoItem]

\* The call returns and its variables are gone.
Return(r) ==
  /\ pc' = [pc EXCEPT ![r] = "idle"]
  /\ since' = [since EXCEPT ![r] = 0]
  /\ want' = [want EXCEPT ![r] = {}]
  /\ todo' = [todo EXCEPT ![r] = {}]
  /\ needed' = [needed EXCEPT ![r] = {}]
  /\ results' = [results EXCEPT ![r] = NoResults]
  /\ prices' = [prices EXCEPT ![r] = None]
  /\ item' = [item EXCEPT ![r] = NoItem]

\* GetLTP with at least one pair, all of them well formed; duplicates collapse.
\* With none, or with an invalid one, it returns a 400 and touches nothing.
GetLTP(r, userPairs) ==
  /\ pc[r] = "idle"
  /\ userPairs # {} /\ IsFiniteSet(userPairs)
  /\ LET normalized == {NormalizeUserPair(u) : u \in userPairs}
     IN  /\ Invalid \notin normalized
         /\ want' = [want EXCEPT ![r] = normalized]
         /\ todo' = [todo EXCEPT ![r] = normalized]
  /\ pc' = [pc EXCEPT ![r] = "lookup"]
  /\ since' = [since EXCEPT ![r] = now]
  /\ UNCHANGED <<now, cache, needed, results, prices, item>>

\* cache.Get, first half: the entry of the next pair, or a miss.
cacheGet(r) ==
  /\ pc[r] = "lookup"
  /\ \E p \in todo[r] :
       LET entry == cache[ToKrakenSymbol(p)]
       IN  IF entry = None
           THEN /\ needed' = [needed EXCEPT ![r] = @ \cup {p}]
                /\ todo' = [todo EXCEPT ![r] = @ \ {p}]
                /\ UNCHANGED <<pc, item>>
           ELSE /\ item' = [item EXCEPT ![r] = [pair |-> p, entry |-> entry]]
                /\ pc' = [pc EXCEPT ![r] = "check"]
                /\ UNCHANGED <<needed, todo>>
  /\ UNCHANGED <<now, cache, since, want, results, prices>>

\* Mutant: an expired entry counts as a hit.
checkNever(r) ==
  /\ pc[r] = "check"
  /\ results' = [results EXCEPT ![r][item[r].pair] = item[r].entry.value]
  /\ todo' = [todo EXCEPT ![r] = @ \ {item[r].pair}]
  /\ item' = [item EXCEPT ![r] = NoItem]
  /\ pc' = [pc EXCEPT ![r] = "lookup"]
  /\ UNCHANGED <<now, cache, since, want, needed, prices>>

\* Mutant: the loop does not continue after a hit.
checkFallsThrough(r) ==
  /\ pc[r] = "check"
  /\ now <= item[r].entry.expiresAt
  /\ results' = [results EXCEPT ![r][item[r].pair] = item[r].entry.value]
  /\ needed' = [needed EXCEPT ![r] = @ \cup {item[r].pair}]
  /\ todo' = [todo EXCEPT ![r] = @ \ {item[r].pair}]
  /\ item' = [item EXCEPT ![r] = NoItem]
  /\ pc' = [pc EXCEPT ![r] = "lookup"]
  /\ UNCHANGED <<now, cache, since, want, prices>>

\* cache.Get, second half: the entry is alive.
checkHit(r) ==
  /\ pc[r] = "check"
  /\ now <= item[r].entry.expiresAt
  /\ results' = [results EXCEPT ![r][item[r].pair] = item[r].entry.value]
  /\ todo' = [todo EXCEPT ![r] = @ \ {item[r].pair}]
  /\ item' = [item EXCEPT ![r] = NoItem]
  /\ pc' = [pc EXCEPT ![r] = "lookup"]
  /\ UNCHANGED <<now, cache, since, want, needed, prices>>

\* Mutant: the pair is looked up again.
checkAgain(r) ==
  /\ pc[r] = "check"
  /\ now > item[r].entry.expiresAt
  /\ C!Forget({ToKrakenSymbol(item[r].pair)})
  /\ item' = [item EXCEPT ![r] = NoItem]
  /\ pc' = [pc EXCEPT ![r] = "lookup"]
  /\ UNCHANGED <<now, since, want, todo, needed, results, prices>>

\* cache.Get, second half: it has expired and the key is removed.
checkExpired(r) ==
  /\ pc[r] = "check"
  /\ now > item[r].entry.expiresAt
  /\ C!Forget({ToKrakenSymbol(item[r].pair)})
  /\ needed' = [needed EXCEPT ![r] = @ \cup {item[r].pair}]
  /\ todo' = [todo EXCEPT ![r] = @ \ {item[r].pair}]
  /\ item' = [item EXCEPT ![r] = NoItem]
  /\ pc' = [pc EXCEPT ![r] = "lookup"]
  /\ UNCHANGED <<now, since, want, results, prices>>

\* Every pair was looked up and some were missing: ask Kraken for their symbols.
askKraken(r) ==
  /\ pc[r] = "lookup"
  /\ todo[r] = {}
  /\ needed[r] # {}
  /\ pc' = [pc EXCEPT ![r] = "fetch"]
  /\ since' = [since EXCEPT ![r] = now]
  /\ UNCHANGED <<now, cache, want, todo, needed, results, prices, item>>

NeededSymbols(r) == {ToKrakenSymbol(p) : p \in needed[r]}

\* Kraken answers an attempt with the prices of some of the symbols, as of now.
krakenAnswers(r, known) ==
  /\ pc[r] = "fetch"
  /\ prices[r] = None
  /\ prices' = [prices EXCEPT ![r] =
                  [s \in Symbols |-> IF s \in known THEN [sym |-> s, at |-> now] ELSE None]]
  /\ UNCHANGED <<now, cache, pc, since, want, todo, needed, results, item>>

\* Mutant: the service asks again, for ever, when Kraken fails.
fetchRetries(r) ==
  /\ pc[r] = "fetch"
  /\ prices' = [prices EXCEPT ![r] = None]
  /\ UNCHANGED <<now, cache, pc, since, want, todo, needed, results, item>>

\* GetTickerPrices returns an error, a timeout or a cancellation among them:
\* everything found so far is thrown away.
fetchFails(r) ==
  /\ pc[r] = "fetch"
  /\ Return(r)
  /\ UNCHANGED <<now, cache>>

\* GetTickerPrices returns an answer it read within the timeout of the attempt.
fetchSucceeds(r) ==
  /\ pc[r] = "fetch"
  /\ prices[r] # None
  /\ \A s \in Symbols : prices[r][s] # None => now - prices[r][s].at <= HTTPTimeout
  /\ pc' = [pc EXCEPT ![r] = "store"]
  /\ since' = [since EXCEPT ![r] = now]
  /\ todo' = [todo EXCEPT ![r] = needed[r]]
  /\ UNCHANGED <<now, cache, want, needed, results, prices, item>>

\* Mutant: the entry is kept for twice the ttl.
stampLong(r) ==
  /\ pc[r] = "store"
  /\ \E p \in todo[r] :
       LET price == prices[r][ToKrakenSymbol(p)]
       IN  /\ price # None
           /\ item' = [item EXCEPT ![r] =
                 [pair |-> p,
                  entry |-> [value |-> price, createdAt |-> now, expiresAt |-> now + 2 * TTL]]]
  /\ pc' = [pc EXCEPT ![r] = "storing"]
  /\ UNCHANGED <<now, cache, since, want, todo, needed, results, prices>>

\* cache.Set, first half: the price of the next pair gets its expiration.
stamp(r) ==
  /\ pc[r] = "store"
  /\ \E p \in todo[r] :
       LET price == prices[r][ToKrakenSymbol(p)]
       IN  /\ price # None
           /\ item' = [item EXCEPT ![r] =
                 [pair |-> p,
                  entry |-> [value |-> price, createdAt |-> now, expiresAt |-> now + TTL]]]
  /\ pc' = [pc EXCEPT ![r] = "storing"]
  /\ UNCHANGED <<now, cache, since, want, todo, needed, results, prices>>

\* cache.Set, second half, and the result.
store(r) ==
  /\ pc[r] = "storing"
  /\ C!Put(ToKrakenSymbol(item[r].pair), item[r].entry)
  /\ results' = [results EXCEPT ![r][item[r].pair] = item[r].entry.value]
  /\ todo' = [todo EXCEPT ![r] = @ \ {item[r].pair}]
  /\ item' = [item EXCEPT ![r] = NoItem]
  /\ pc' = [pc EXCEPT ![r] = "store"]
  /\ UNCHANGED <<now, since, want, needed, prices>>

\* Kraken left a symbol out: a 400, though the pairs before it are cached.
pairNotFound(r) ==
  /\ pc[r] = "store"
  /\ \E p \in todo[r] : prices[r][ToKrakenSymbol(p)] = None
  /\ Return(r)
  /\ UNCHANGED <<now, cache>>

\* Mutant: the response is formed as soon as the cache has been asked.
respondEarly(r) ==
  /\ \/ pc[r] = "lookup"
     \/ pc[r] = "store" /\ todo[r] = {}
  /\ Return(r)
  /\ UNCHANGED <<now, cache>>

\* The list of quotes is returned; its order, by name, is left out.
respond(r) ==
  /\ \/ pc[r] = "lookup" /\ todo[r] = {} /\ needed[r] = {}
     \/ pc[r] = "store" /\ todo[r] = {}
  /\ Return(r)
  /\ UNCHANGED <<now, cache>>

\* The cache drops entries.
Lose(K) ==
  /\ C!Forget(K)
  /\ UNCHANGED <<now, pc, since, want, todo, needed, results, prices, item>>

Limit(at) == IF at = "fetch" THEN FetchLimit ELSE Lag

\* Time passes; no phase of a request outlasts its limit.
Tick ==
  /\ now < MaxTime
  /\ \A r \in Requests : pc[r] # "idle" => now - since[r] < Limit(pc[r])
  /\ C!Tick
  /\ UNCHANGED <<pc, since, want, todo, needed, results, prices, item>>

RequestStep(r) ==
  \/ cacheGet(r)
  \/ checkHit(r)
  \/ checkExpired(r)
  \/ askKraken(r)
  \/ fetchFails(r)
  \/ fetchSucceeds(r)
  \/ stamp(r)
  \/ store(r)
  \/ pairNotFound(r)
  \/ respond(r)

Next ==
  \/ \E r \in Requests, userPairs \in SUBSET UserPairs : GetLTP(r, userPairs)
  \/ \E r \in Requests : RequestStep(r)
  \/ \E r \in Requests : \E known \in SUBSET NeededSymbols(r) : krakenAnswers(r, known)
  \/ \E K \in SUBSET Symbols : Lose(K)
  \/ Tick

Spec == Init /\ [][Next]_vars

\* A goroutine that can run does run; the HTTP client's timeout ends a fetch.
FairSpec == Spec /\ \A r \in Requests : WF_vars(RequestStep(r))

-----------------------------------------------------------------------------

Busy(r) == pc[r] # "idle"

\* Every variable of a call has the shape GetLTP gives it in that phase: results
\* are kept only for wanted pairs, and a pair is being looked up, was missing, or
\* has its price.  An entry a call has in hand is one that Set may store.
TypeOK ==
  /\ now \in 0 .. MaxTime
  /\ cache \in [Symbols -> CacheEntry \cup {None}]
  /\ pc \in [Requests -> {"idle", "lookup", "check", "fetch", "store", "storing"}]
  /\ since \in [Requests -> 0 .. MaxTime]
  /\ \A f \in {want, todo, needed} : f \in [Requests -> SUBSET Pairings]
  /\ results \in [Requests -> [Pairings -> Price \cup {None}]]
  /\ prices \in [Requests -> [Symbols -> Price \cup {None}] \cup {None}]
  /\ \A r \in Requests :
       /\ todo[r] \cup needed[r] \subseteq want[r]
       /\ pc[r] \in {"check", "storing"} <=> item[r] # NoItem
       /\ item[r] # NoItem => /\ item[r].pair \in todo[r]
                              /\ item[r].entry \in CacheEntry /\ item[r].entry.createdAt <= now
       /\ {p \in Pairings : results[r][p] # None} =
            IF pc[r] \in {"store", "storing"} THEN want[r] \ todo[r]
            ELSE want[r] \ (todo[r] \cup needed[r])

\* What Set stored under a symbol is the price Kraken gave for that symbol, and it
\* is dead by the time the price is one ttl, one HTTP timeout and one pass of the
\* store loop old, however the fetches and stores of the requests interleave.
CacheFresh ==
  \A s \in Symbols : cache[s] # None =>
    /\ cache[s].value.sym = s
    /\ cache[s].expiresAt <= cache[s].value.at + HTTPTimeout + Lag + TTL

\* A response of GetLTP has the price of its own symbol for every pair asked for,
\* and no other pair, whichever of them came from the cache and from Kraken: it is
\* what docs/openapi.yaml:32 calls "complete data".  PartialSuccess is about the rest.
ResponseComplete ==
  [][\A r \in Requests : Busy(r) /\ respond(r) =>
       \A p \in Pairings :
         IF p \in want[r] THEN results[r][p] # None /\ results[r][p].sym = ToKrakenSymbol(p)
         ELSE results[r][p] = None]_vars

\* The age of the oldest price GetLTP can return: a cached price may be at the end
\* of its life when it is looked up, and then waits for the fetch of the others.
MaxAge == HTTPTimeout + Lag + TTL + Lag + FetchLimit + Lag

Age(price) == now - price.at

\* No price in a response is older than MaxAge.  WithinTheMinute states what the
\* README requires, which is less.
ResponseFresh ==
  [][\A r \in Requests : Busy(r) /\ respond(r) =>
       \A p \in want[r] : results[r][p] # None => Age(results[r][p]) <= MaxAge]_vars

\* docs/openapi.yaml:38: "Partial success when some requested pairs cannot be priced."
\* A call that ends because a pair cannot be priced has no price for any of its pairs;
\* otherwise the others would have to be answered.
PartialSuccess ==
  [][\A r \in Requests : pairNotFound(r) =>
       \A p \in want[r] : results[r][p] = None /\ prices[r][ToKrakenSymbol(p)] = None]_vars

\* README.md:37: "You shall provide time accuracy of the data up to the last minute."
\* No price in a response is older than the minute LegacyCache keeps it.
WithinTheMinute ==
  [][\A r \in Requests : Busy(r) /\ respond(r) =>
       \A p \in want[r] : results[r][p] # None => Age(results[r][p]) <= TTL]_vars

\* The pair whose cache call is half done.
InHand(r) == IF pc[r] \in {"check", "storing"} THEN {item[r].pair} ELSE {}

\* What GetLTP may still have to do before it returns.
Left(r) ==
  LET once(names) == names \X {Invalid}
  IN  CASE pc[r] = "idle" -> {}
        [] pc[r] \in {"lookup", "check"} ->
             ({"get"} \X (todo[r] \ InHand(r))) \cup ({"check"} \X todo[r])
               \cup ({"stamp", "store"} \X (todo[r] \cup needed[r]))
               \cup once({"ask", "fetch", "return"})
        [] pc[r] = "fetch" -> ({"stamp", "store"} \X needed[r]) \cup once({"fetch", "return"})
        [] pc[r] \in {"store", "storing"} ->
             ({"stamp"} \X (todo[r] \ InHand(r))) \cup ({"store"} \X todo[r])
               \cup once({"return"})

\* Every step of a GetLTP leaves it less to do, and nothing that other requests,
\* Kraken or the cache do gives it more: an entry that expires or is lost in the
\* middle of its calls does not send it round again.
StepsRunOut ==
  [][\A r \in Requests : Busy(r) => /\ IsFiniteSet(Left(r))
                                    /\ Left(r)' \subseteq Left(r)
                                    /\ RequestStep(r) => Left(r)' # Left(r)]_vars

\* Every GetLTP returns, with a response or an error, though Kraken may never answer
\* and the cache may drop any entry at any time.
EveryRequestReturns == \A r \in Requests : Busy(r) ~> ~Busy(r)

=============================================================================
