---------------------------- MODULE RateLimiter ----------------------------
(***************************************************************************)
(* The request limiter of internal/ratelimit: one global token bucket and  *)
(* one bucket per client IP, used by many request goroutines at once,      *)
(* beside the goroutine that removes the entries of idle IPs and the       *)
(* metrics updater that reads GetStats.                                    *)
(*                                                                         *)
(* The two locks are modelled by the grain of the actions.  A step that    *)
(* holds a bucket's own mutex is one action.  rl.mu is held across the two *)
(* clock readings of allowIP, so allowIP is two actions (lookupIP, takeIP) *)
(* and the mutex is held exactly while some request is at "bucket".        *)
(* Between the global bucket and rl.mu no lock is held, and none between   *)
(* the cleanup goroutine's receipt of a tick and rl.mu in cleanup().       *)
(***************************************************************************)
EXTENDS Integers, FiniteSets

CONSTANTS
  IPs,                \* client addresses, as ExtractIP returns them
  Requests,           \* request goroutines that can be inside Allow at once
  NoEntry,            \* ipBuckets has no entry for the address
  PerIPCapacity, PerIPRefillRate,
  GlobalCapacity, GlobalRefillRate,
  IPCleanupInterval, IPIdleTimeout,
  Second,             \* clock ticks in a second
  MaxHold,            \* most ticks between the two clock readings of allowIP
  MaxTime             \* bound of the clock

Bucket == [tokens : Int, lastRefill : Int]
IPEntry == [bucket : Bucket, lastSeen : Int]

\* The configurations NewRateLimiter can run: refill rates divide time.Second,
\* so zero is a panic, and an empty global bucket would refuse everything.
ASSUME ConfigAssumption ==
  /\ {PerIPCapacity, PerIPRefillRate, GlobalCapacity, GlobalRefillRate} \subseteq Nat \ {0}
  /\ {Second, IPCleanupInterval} \subseteq Nat \ {0}
  /\ {IPIdleTimeout, MaxHold, MaxTime} \subseteq Nat
  /\ IsFiniteSet(Requests)
  /\ NoEntry \notin IPEntry

\* The idle timeout outlasts the refill of an empty per-IP bucket, as it does in
\* DefaultConfig: 10 tokens/s for 10 minutes against a capacity of 100.
ASSUME IdleAssumption ==
  PerIPRefillRate * (IPIdleTimeout - MaxHold) >= PerIPCapacity * Second

VARIABLES
  now,                \* the monotonic clock, in ticks
  globalBucket,
  ipBuckets,          \* address -> IPEntry or NoEntry
  pc,                 \* where each request goroutine is
  ip,                 \* the address it asks for
  cleaner,            \* cleanupRoutine: select, cleaning (inside cleanup()), returned
  stopped,            \* stopCleanup is closed
  nextCleanup,        \* when the cleanup ticker fires next
  window              \* auxiliary: what was admitted since some moment

vars == <<now, globalBucket, ipBuckets, pc, ip, cleaner, stopped, nextCleanup, window>>

-----------------------------------------------------------------------------
\* Token buckets.

NewTokenBucket(capacity) == [tokens |-> capacity, lastRefill |-> now]

\* int64(elapsed.Seconds() * float64(rate)): the whole tokens earned.  When the
\* product is a whole number, float64 may land just below it (0.29 * 100).
tokensToAdd(elapsed, rate) ==
  LET whole == (elapsed * rate) \div Second
  IN  {n \in {whole - 1, whole} : n >= 0 /\ (n < whole => whole * Second = elapsed * rate)}

\* Mutant: the cap forgotten.
CappedAtNever(n, capacity) == n

CappedAt(n, capacity) == IF n > capacity THEN capacity ELSE n

\* Mutant: the clock mark moves although no whole token was earned.
CreditStamps(b, n, capacity) ==
  [tokens |-> CappedAt(b.tokens + n, capacity), lastRefill |-> now]

\* The bucket after adding n tokens; the clock mark moves only if n > 0, and
\* then drops the fraction of a token earned beyond n.
Credit(b, n, capacity) ==
  IF n > 0
  THEN [tokens |-> CappedAt(b.tokens + n, capacity), lastRefill |-> now]
  ELSE b

refill(b, capacity, rate) ==
  {Credit(b, n, capacity) : n \in tokensToAdd(now - b.lastRefill, rate)}

Take(b) == [b EXCEPT !.tokens = @ - 1]

-----------------------------------------------------------------------------

Inflight == {r \in Requests : pc[r] # "idle"}
\* Mutants: rl.mu not taken; rl.mu taken by Allow and again by allowIP.
LockIgnored == TRUE
LockTakenTwice == \A r \in Requests : pc[r] \notin {"lookup", "bucket"}
LockFree == \A r \in Requests : pc[r] # "bucket"

NewWindow(at, held, tokens) ==
  [at |-> at, inflight |-> held, supply |-> tokens + held,
   admitted |-> 0, perIP |-> [i \in IPs |-> 0]]

CountAdmission(i) ==
  [at |-> window.at, inflight |-> window.inflight, supply |-> window.supply,
   admitted |-> window.admitted + 1,
   perIP |-> [window.perIP EXCEPT ![i] = @ + 1]]

Init ==
  /\ now = 0
  /\ globalBucket = NewTokenBucket(GlobalCapacity)
  /\ ipBuckets = [i \in IPs |-> NoEntry]
  /\ pc = [r \in Requests |-> "idle"]
  /\ ip \in [Requests -> IPs]
  /\ cleaner = "select"
  /\ stopped = FALSE
  /\ nextCleanup = IPCleanupInterval
  /\ window = NewWindow(0, 0, GlobalCapacity)

\* Mutant: the global bucket is asked but no token is taken.
allowUntaken(r, i) ==
  /\ pc[r] = "idle"
  /\ \E b \in refill(globalBucket, GlobalCapacity, GlobalRefillRate) :
       /\ b.tokens >= 1
       /\ globalBucket' = b
  /\ pc' = [pc EXCEPT ![r] = "lookup"]
  /\ ip' = [ip EXCEPT ![r] = i]
  /\ UNCHANGED <<now, ipBuckets, cleaner, stopped, nextCleanup, window>>

\* Allow, first half: the global bucket is asked first.
allowGlobal(r, i) ==
  /\ pc[r] = "idle"
  /\ \E b \in refill(globalBucket, GlobalCapacity, GlobalRefillRate) :
       /\ b.tokens >= 1
       /\ globalBucket' = Take(b)
  /\ pc' = [pc EXCEPT ![r] = "lookup"]
  /\ ip' = [ip EXCEPT ![r] = i]
  /\ UNCHANGED <<now, ipBuckets, cleaner, stopped, nextCleanup, window>>

\* Allow refuses at once when the global bucket is empty.
rejectGlobal(r) ==
  /\ pc[r] = "idle"
  /\ \E b \in refill(globalBucket, GlobalCapacity, GlobalRefillRate) :
       /\ b.tokens < 1
       /\ globalBucket' = b
  /\ UNCHANGED <<now, ipBuckets, pc, ip, cleaner, stopped, nextCleanup, window>>

\* Mutant: lastSeen is set when the entry is created and never again.
lookupUnstamped(r) ==
  /\ pc[r] = "lookup"
  /\ LockFree
  /\ ipBuckets' = [ipBuckets EXCEPT ![ip[r]] =
                    IF @ = NoEntry
                    THEN [bucket |-> NewTokenBucket(PerIPCapacity), lastSeen |-> now]
                    ELSE @]
  /\ pc' = [pc EXCEPT ![r] = "bucket"]
  /\ UNCHANGED <<now, globalBucket, ip, cleaner, stopped, nextCleanup, window>>

\* allowIP up to the bucket: lock rl.mu, find or create the entry, stamp it.
lookupIP(r) ==
  /\ pc[r] = "lookup"
  /\ LockFree
  /\ LET entry == IF ipBuckets[ip[r]] = NoEntry
                  THEN [bucket |-> NewTokenBucket(PerIPCapacity), lastSeen |-> now]
                  ELSE ipBuckets[ip[r]]
     IN  ipBuckets' = [ipBuckets EXCEPT ![ip[r]] = [entry EXCEPT !.lastSeen = now]]
  /\ pc' = [pc EXCEPT ![r] = "bucket"]
  /\ UNCHANGED <<now, globalBucket, ip, cleaner, stopped, nextCleanup, window>>

\* entry.bucket.Allow() succeeds, rl.mu is released and the request admitted.
takeIP(r) ==
  /\ pc[r] = "bucket"
  /\ \E b \in refill(ipBuckets[ip[r]].bucket, PerIPCapacity, PerIPRefillRate) :
       /\ b.tokens >= 1
       /\ ipBuckets' = [ipBuckets EXCEPT ![ip[r]].bucket = Take(b)]
  /\ pc' = [pc EXCEPT ![r] = "idle"]
  /\ window' = CountAdmission(ip[r])
  /\ UNCHANGED <<now, globalBucket, ip, cleaner, stopped, nextCleanup>>

\* entry.bucket.Allow() fails; rl.mu is released before the refund.
refuseIP(r) ==
  /\ pc[r] = "bucket"
  /\ \E b \in refill(ipBuckets[ip[r]].bucket, PerIPCapacity, PerIPRefillRate) :
       /\ b.tokens < 1
       /\ ipBuckets' = [ipBuckets EXCEPT ![ip[r]].bucket = b]
  /\ pc' = [pc EXCEPT ![r] = "refund"]
  /\ UNCHANGED <<now, globalBucket, ip, cleaner, stopped, nextCleanup, window>>

\* Mutant: the refund forgotten.
keepGlobalToken(r) ==
  /\ pc[r] = "refund"
  /\ pc' = [pc EXCEPT ![r] = "idle"]
  /\ UNCHANGED <<now, globalBucket, ipBuckets, ip, cleaner, stopped, nextCleanup, window>>

\* The refused request gives its global token back, unless the bucket is full.
returnGlobalToken(r) ==
  /\ pc[r] = "refund"
  /\ globalBucket' = IF globalBucket.tokens < GlobalCapacity
                     THEN [globalBucket EXCEPT !.tokens = @ + 1]
                     ELSE globalBucket
  /\ pc' = [pc EXCEPT ![r] = "idle"]
  /\ UNCHANGED <<now, ipBuckets, ip, cleaner, stopped, nextCleanup, window>>

Idle(entry) == entry.lastSeen < now - IPIdleTimeout

\* cleanupRoutine receives a tick.  The ticker buffers one and drops the others,
\* and after Stop a tick that is ready may still win the select.
receiveTick ==
  /\ cleaner = "select"
  /\ now >= nextCleanup
  /\ cleaner' = "cleaning"
  /\ nextCleanup' = (now \div IPCleanupInterval + 1) * IPCleanupInterval
  /\ UNCHANGED <<now, globalBucket, ipBuckets, pc, ip, stopped, window>>

\* cleanup() gets rl.mu, reads the clock and drops the entries not seen since the
\* cutoff.
cleanup ==
  /\ cleaner = "cleaning"
  /\ LockFree
  /\ ipBuckets' = [i \in IPs |-> IF ipBuckets[i] # NoEntry /\ Idle(ipBuckets[i])
                                 THEN NoEntry ELSE ipBuckets[i]]
  /\ cleaner' = "select"
  /\ UNCHANGED <<now, globalBucket, pc, ip, stopped, nextCleanup, window>>

\* close(stopCleanup); Server.Shutdown calls it once.
Stop ==
  /\ ~stopped
  /\ stopped' = TRUE
  /\ UNCHANGED <<now, globalBucket, ipBuckets, pc, ip, cleaner, nextCleanup, window>>

\* cleanupRoutine receives from the closed channel and returns.
cleanupReturns ==
  /\ cleaner = "select"
  /\ stopped
  /\ cleaner' = "returned"
  /\ UNCHANGED <<now, globalBucket, ipBuckets, pc, ip, stopped, nextCleanup, window>>

\* The metrics updater reads the statistics under rl.mu; Tokens() refills.
GetStats ==
  /\ LockFree
  /\ globalBucket' \in refill(globalBucket, GlobalCapacity, GlobalRefillRate)
  /\ UNCHANGED <<now, ipBuckets, pc, ip, cleaner, stopped, nextCleanup, window>>

\* Time passes; a goroutine inside allowIP is not stalled for MaxHold ticks.
Tick ==
  /\ now < MaxTime
  /\ \A r \in Requests :
       pc[r] = "bucket" => now - ipBuckets[ip[r]].lastSeen < MaxHold
  /\ now' = now + 1
  /\ UNCHANGED <<globalBucket, ipBuckets, pc, ip, cleaner, stopped, nextCleanup, window>>

\* Auxiliary: start measuring afresh, at any moment.
OpenWindow ==
  /\ window' = NewWindow(now, Cardinality(Inflight), globalBucket.tokens)
  /\ UNCHANGED <<now, globalBucket, ipBuckets, pc, ip, cleaner, stopped, nextCleanup>>

RequestStep(r) ==
  \/ \E i \in IPs : allowGlobal(r, i)
  \/ rejectGlobal(r)
  \/ lookupIP(r)
  \/ takeIP(r)
  \/ refuseIP(r)
  \/ returnGlobalToken(r)

Next ==
  \/ \E r \in Requests : RequestStep(r)
  \/ receiveTick
  \/ cleanup
  \/ Stop
  \/ cleanupReturns
  \/ GetStats
  \/ Tick
  \/ OpenWindow

Spec == Init /\ [][Next]_vars

\* The scheduler runs every ready goroutine, so a request inside Allow goes on;
\* sync.Mutex hands over to a waiter it has starved for a millisecond, so one
\* that waits for rl.mu gets it (strong fairness); and select draws at random
\* among the channels that are ready, so a closed stopCleanup is drawn in the end.
Fairness ==
  /\ \A r \in Requests :
       /\ SF_vars(lookupIP(r))
       /\ WF_vars(takeIP(r) \/ refuseIP(r))
       /\ WF_vars(returnGlobalToken(r))
  /\ SF_vars(cleanup)
  /\ SF_vars(cleanupReturns)

FairSpec == Spec /\ Fairness

-----------------------------------------------------------------------------
\* Safety.

\* Every variable has its type; no bucket holds more than its capacity or less
\* than nothing, whatever refills, takes and refunds interleave.
TypeOK ==
  /\ now \in 0 .. MaxTime
  /\ globalBucket \in [tokens : 0 .. GlobalCapacity, lastRefill : 0 .. now]
  /\ ipBuckets \in
       [IPs -> {NoEntry} \cup
         [bucket : [tokens : 0 .. PerIPCapacity, lastRefill : 0 .. now],
          lastSeen : 0 .. now]]
  /\ pc \in [Requests -> {"idle", "lookup", "bucket", "refund"}]
  /\ ip \in [Requests -> IPs]
  /\ cleaner \in {"select", "cleaning", "returned"}
  /\ stopped \in BOOLEAN
  /\ nextCleanup \in Nat \ {0}
  /\ window \in [at : 0 .. now, inflight : Nat, supply : Nat,
                 admitted : Nat, perIP : [IPs -> Nat]]

\* allowIP runs under rl.mu: one request at a time, and the entry it stamped
\* is still in the map when it takes its token, cleanup notwithstanding.
MutexHeld ==
  \A r \in Requests : pc[r] = "bucket" =>
    /\ ipBuckets[ip[r]] # NoEntry
    /\ \A q \in Requests \ {r} : pc[q] # "bucket"

\* Admissions from any moment on never exceed a full global bucket, the refill
\* since then, one fraction of a token, and the tokens requests already held:
\* refunds of the refused cannot be turned into extra admissions.
GlobalWindowBound ==
  window.admitted * Second
    <= (GlobalCapacity + 1 + window.inflight) * Second
       + GlobalRefillRate * (now - window.at)

\* The same for each address, though cleanup forgets its bucket and the next
\* request starts a full one: the bucket would have been full by then anyway.
PerIPWindowBound ==
  \A i \in IPs :
    window.perIP[i] * Second
      <= (PerIPCapacity + 1) * Second + PerIPRefillRate * (now - window.at)

\* A request refused for its address costs the others nothing: what the global
\* bucket and the requests held when the window opened (at most a full bucket)
\* is still there, except for what was admitted.
NoQuotaLeak ==
  globalBucket.tokens + Cardinality(Inflight) + window.admitted
    >= CappedAt(window.supply, GlobalCapacity)

\* Nobody is starved by a refill that rounds down, however often the others and
\* the metrics poll the bucket: Allow refuses only when the tokens held and
\* admitted since any moment reach the supply of that moment and half of what
\* was earned since (for an address, just that half), up to a full bucket and
\* within half a token.
RefusedOnlyWhenSpent ==
  /\ \A b \in refill(globalBucket, GlobalCapacity, GlobalRefillRate) :
       b.tokens < 1 =>
         (2 * (Cardinality(Inflight) + window.admitted) + 1) * Second
           >= CappedAt(2 * Second * window.supply
                         + GlobalRefillRate * (now - window.at),
                       2 * Second * GlobalCapacity)
  /\ \A i \in IPs : ipBuckets[i] # NoEntry =>
       \A b \in refill(ipBuckets[i].bucket, PerIPCapacity, PerIPRefillRate) :
         b.tokens < 1 =>
           (2 * window.perIP[i] + 1) * Second
             >= CappedAt(PerIPRefillRate * (now - window.at),
                         2 * Second * PerIPCapacity)

\* Liveness.

\* A request that entered Allow is answered, however the others and the
\* cleanup compete for rl.mu.
AllowAnswers == \A r \in Requests : pc[r] # "idle" ~> pc[r] = "idle"

\* After Stop the cleanup goroutine returns; it is not leaked, though it may be
\* waiting for rl.mu inside cleanup() and has to come back to its select first.
CleanupStops == stopped ~> cleaner = "returned"

=============================================================================
