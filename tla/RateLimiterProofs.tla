-------------------------- MODULE RateLimiterProofs --------------------------
(***************************************************************************)
(* The limiter's guarantees for every number of addresses, requests and    *)
(* ticks, every capacity and every rate.                                   *)
(***************************************************************************)
EXTENDS RateLimiter, TLAPS, FiniteSetTheorems

-----------------------------------------------------------------------------
\* Arithmetic of the buckets.

\* Multiplication by a natural number is monotonic.
LEMMA MulMono ==
  ASSUME NEW a \in Int, NEW b \in Int, NEW c \in Nat, a <= b
  PROVE  a * c <= b * c
<1>1. PICK d \in Nat : b = a + d
  <2>1. b - a \in Nat /\ b = a + (b - a)
    OBVIOUS
  <2>2. QED
    BY <2>1
<1>2. d * c \in Nat
  OBVIOUS
<1>3. b * c = a * c + d * c
  BY <1>1
<1>4. QED
  BY <1>2, <1>3

\* Multiplication one step further.
LEMMA MulStep ==
  ASSUME NEW a \in Int, NEW c \in Int
  PROVE  /\ a * c \in Int
         /\ (a + 1) * c = a * c + c /\ (a - 1) * c = a * c - c
         /\ c * (a + 1) = c * a + c
OBVIOUS

\* Whole division rounds down.
LEMMA DivBounds ==
  ASSUME NEW x \in Nat, NEW d \in Nat \ {0}
  PROVE  /\ x \div d \in Nat
         /\ (x \div d) * d <= x
         /\ x < (x \div d) * d + d
OBVIOUS

\* tokensToAdd never pays for more time than has passed, and pays nothing only
\* for at most the time of one token.
LEMMA TokensToAdd ==
  ASSUME NEW el \in Nat, NEW rate \in Nat, NEW n \in tokensToAdd(el, rate)
  PROVE  /\ n \in Nat
         /\ n * Second <= el * rate
         /\ n = 0 => el * rate <= Second
<1> DEFINE w == (el * rate) \div Second
<1>1. Second \in Nat \ {0}
  BY ConfigAssumption
<1>2. el * rate \in Nat
  OBVIOUS
<1>3. /\ w \in Nat
      /\ w * Second <= el * rate
      /\ el * rate < w * Second + Second
  BY <1>1, <1>2, DivBounds
<1>4. n \in {w - 1, w} /\ n >= 0 /\ (n < w => w * Second = el * rate)
  BY DEF tokensToAdd
<1> HIDE DEF w
<1>5. CASE n = w
  BY <1>1, <1>2, <1>3, <1>5
<1>6. CASE n = w - 1
  <2>1. w * Second = el * rate
    BY <1>3, <1>4, <1>6
  <2>2. n * Second = w * Second - Second
    BY <1>1, <1>3, <1>6
  <2>3. n = 0 => w = 1
    BY <1>3, <1>6
  <2>4. QED
    BY <1>1, <1>2, <1>3, <1>4, <1>6, <2>1, <2>2, <2>3
<1>7. QED
  BY <1>4, <1>5, <1>6

\* What a window may still admit covers a bucket when it covers a full bucket and
\* a fraction, or the bucket's tokens and the time it has not been paid for.
Covers(room, b, capacity, rate) ==
  \/ room >= (capacity + 1) * Second
  \/ room >= b.tokens * Second + rate * (now - b.lastRefill)

\* A refill keeps a bucket well formed and covered; afterwards the tokens and
\* the unpaid time are covered for certain.
LEMMA RefillCovered ==
  ASSUME NEW capacity \in Nat, NEW rate \in Nat, now \in Nat,
         NEW b \in [tokens : 0 .. capacity, lastRefill : 0 .. now],
         NEW c \in refill(b, capacity, rate)
  PROVE  /\ c \in [tokens : 0 .. capacity, lastRefill : 0 .. now]
         /\ c.tokens >= b.tokens
         /\ c.lastRefill \in {b.lastRefill, now}
         /\ \A room \in Int : Covers(room, b, capacity, rate) =>
              room >= c.tokens * Second + rate * (now - c.lastRefill)
<1> DEFINE el == now - b.lastRefill
<1>1. Second \in Nat \ {0}
  BY ConfigAssumption
<1>2. el \in Nat
  OBVIOUS
<1>3. PICK n \in tokensToAdd(el, rate) : c = Credit(b, n, capacity)
  BY DEF refill
<1>4. /\ n \in Nat
      /\ n * Second <= el * rate
      /\ n = 0 => el * rate <= Second
  BY <1>2, <1>3, TokensToAdd
<1>5. CASE n = 0
  <2>1. c = b
    BY <1>3, <1>5 DEF Credit
  <2>2. ASSUME NEW room \in Int, room >= (capacity + 1) * Second
        PROVE  room >= c.tokens * Second + rate * (now - c.lastRefill)
    <3>1. c.tokens * Second <= capacity * Second
      BY <1>1, <2>1, MulMono
    <3>2. (capacity + 1) * Second = capacity * Second + Second
      BY <1>1
    <3>3. rate * (now - c.lastRefill) <= Second
      BY <1>4, <1>5, <2>1
    <3>4. QED
      BY <1>1, <2>1, <2>2, <3>1, <3>2, <3>3
  <2>3. QED
    BY <2>1, <2>2 DEF Covers
<1>6. CASE n # 0
  <2>1. /\ c = [tokens |-> CappedAt(b.tokens + n, capacity), lastRefill |-> now]
        /\ c.tokens = CappedAt(b.tokens + n, capacity)
        /\ c.lastRefill = now
    BY <1>3, <1>4, <1>6 DEF Credit
  <2>2. /\ c.tokens \in 0 .. capacity
        /\ c.tokens <= b.tokens + n
        /\ c.tokens >= b.tokens
    BY <1>4, <2>1 DEF CappedAt
  <2>3. c \in [tokens : 0 .. capacity, lastRefill : 0 .. now]
    BY <2>1, <2>2
  <2>4. rate * (now - c.lastRefill) = 0
    BY <2>1
  <2>5. ASSUME NEW room \in Int, room >= (capacity + 1) * Second
        PROVE  room >= c.tokens * Second
    <3>1. c.tokens * Second <= (capacity + 1) * Second
      BY <1>1, <2>2, MulMono
    <3>2. QED
      BY <1>1, <2>2, <2>5, <3>1
  <2>6. ASSUME NEW room \in Int, room >= b.tokens * Second + rate * el
        PROVE  room >= c.tokens * Second
    <3>1. c.tokens * Second <= (b.tokens + n) * Second
      BY <1>1, <1>4, <2>2, MulMono
    <3>2. (b.tokens + n) * Second = b.tokens * Second + n * Second
      BY <1>1, <1>4
    <3>3. rate * el = el * rate
      BY <1>2
    <3>4. QED
      BY <1>1, <1>2, <1>4, <2>2, <2>6, <3>1, <3>2, <3>3
  <2>7. QED
    BY <1>1, <2>1, <2>2, <2>3, <2>4, <2>5, <2>6 DEF Covers
<1>7. QED
  BY <1>5, <1>6

\* Taking one token costs one second's worth of the room.
LEMMA TakeCovered ==
  ASSUME NEW capacity \in Nat, NEW rate \in Nat, now \in Nat,
         NEW b \in [tokens : 0 .. capacity, lastRefill : 0 .. now],
         b.tokens >= 1, NEW room \in Int,
         room >= b.tokens * Second + rate * (now - b.lastRefill)
  PROVE  /\ Take(b) \in [tokens : 0 .. capacity, lastRefill : 0 .. now]
         /\ Take(b).tokens = b.tokens - 1
         /\ Take(b).lastRefill = b.lastRefill
         /\ room - Second
              >= Take(b).tokens * Second + rate * (now - Take(b).lastRefill)
<1>1. Second \in Nat \ {0}
  BY ConfigAssumption
<1>2. /\ Take(b) \in [tokens : 0 .. capacity, lastRefill : 0 .. now]
      /\ Take(b).tokens = b.tokens - 1
      /\ Take(b).lastRefill = b.lastRefill
  BY DEF Take
<1>3. (b.tokens - 1) * Second = b.tokens * Second - Second
  BY <1>1
<1>4. QED
  BY <1>1, <1>2, <1>3

-----------------------------------------------------------------------------
\* The number of requests that hold a global token.

Held == Cardinality(Inflight)

\* The tokens held by requests inside Allow are finitely many.
LEMMA HeldNat == Held \in Nat /\ IsFiniteSet(Inflight)
BY ConfigAssumption, FS_Subset, FS_CardinalityType DEF Held, Inflight

\* A request that enters Allow, one that leaves it, one that stays inside.
LEMMA HeldChange ==
  ASSUME NEW r \in Requests, NEW to \in {"idle", "lookup", "bucket", "refund"},
         pc \in [Requests -> {"idle", "lookup", "bucket", "refund"}],
         pc' = [pc EXCEPT ![r] = to]
  PROVE  /\ Held' \in Nat
         /\ pc[r] = "idle" /\ to # "idle" => Held' = Held + 1
         /\ pc[r] # "idle" /\ to = "idle" => Held' = Held - 1
         /\ pc[r] # "idle" /\ to # "idle" => Held' = Held
<1>1. IsFiniteSet(Inflight)
  BY HeldNat
<1>2. pc[r] = "idle" /\ to # "idle" => Inflight' = Inflight \cup {r} /\ r \notin Inflight
  BY DEF Inflight
<1>3. pc[r] # "idle" /\ to = "idle" => Inflight' = Inflight \ {r} /\ r \in Inflight
  BY DEF Inflight
<1>4. pc[r] # "idle" /\ to # "idle" => Inflight' = Inflight
  BY DEF Inflight
<1>5. Held' \in Nat
  <2>1. Inflight' \subseteq Requests
    BY DEF Inflight
  <2>2. QED
    BY <2>1, ConfigAssumption, FS_Subset, FS_CardinalityType DEF Held
<1>6. QED
  BY <1>1, <1>2, <1>3, <1>4, <1>5, FS_AddElement, FS_RemoveElement DEF Held

-----------------------------------------------------------------------------
\* Types and the mutex.

\* NewRateLimiter starts well typed and with rl.mu free.
LEMMA TypeInit == Init => TypeOK /\ MutexHeld
<1> SUFFICES ASSUME Init PROVE TypeOK /\ MutexHeld
  OBVIOUS
<1>1. now \in 0 .. MaxTime /\ now = 0 /\ nextCleanup \in Nat \ {0}
  BY ConfigAssumption DEF Init
<1>2. globalBucket \in [tokens : 0 .. GlobalCapacity, lastRefill : 0 .. now]
  BY <1>1, ConfigAssumption DEF Init, NewTokenBucket
<1>3. window \in [at : 0 .. now, inflight : Nat, supply : Nat,
                  admitted : Nat, perIP : [IPs -> Nat]]
  BY <1>1, ConfigAssumption DEF Init, NewWindow
<1>4. QED
  BY <1>1, <1>2, <1>3 DEF Init, TypeOK, MutexHeld

\* The entry types grow with the clock; a step that leaves it alone keeps them.
LEMMA TypeStep == TypeOK /\ MutexHeld /\ [Next]_vars => TypeOK' /\ MutexHeld'
<1> SUFFICES ASSUME TypeOK, MutexHeld, [Next]_vars PROVE TypeOK' /\ MutexHeld'
  OBVIOUS
<1> USE ConfigAssumption
<1> DEFINE Entries == [bucket : [tokens : 0 .. PerIPCapacity, lastRefill : 0 .. now],
                       lastSeen : 0 .. now]
<1>0. now \in Nat /\ NoEntry \notin Entries
  BY DEF TypeOK, IPEntry, Bucket
<1>1. ASSUME NEW r \in Requests, NEW i \in IPs, allowGlobal(r, i)
      PROVE  TypeOK' /\ MutexHeld'
  <2>1. PICK b \in refill(globalBucket, GlobalCapacity, GlobalRefillRate) :
          b.tokens >= 1 /\ globalBucket' = Take(b)
    BY <1>1 DEF allowGlobal
  <2>2. b \in [tokens : 0 .. GlobalCapacity, lastRefill : 0 .. now]
    BY <1>0, RefillCovered DEF TypeOK
  <2>3. globalBucket' \in [tokens : 0 .. GlobalCapacity, lastRefill : 0 .. now]
    BY <2>1, <2>2 DEF Take
  <2>4. QED
    BY <1>1, <2>3 DEF allowGlobal, TypeOK, MutexHeld
<1>2. ASSUME NEW r \in Requests, rejectGlobal(r)
      PROVE  TypeOK' /\ MutexHeld'
  <2>1. globalBucket' \in [tokens : 0 .. GlobalCapacity, lastRefill : 0 .. now]
    BY <1>0, <1>2, RefillCovered DEF TypeOK, rejectGlobal
  <2>2. QED
    BY <1>2, <2>1 DEF rejectGlobal, TypeOK, MutexHeld
<1>3. ASSUME NEW r \in Requests, lookupIP(r)
      PROVE  TypeOK' /\ MutexHeld'
  <2>1. PICK e \in Entries : ipBuckets' = [ipBuckets EXCEPT ![ip[r]] = e]
    <3> DEFINE entry == IF ipBuckets[ip[r]] = NoEntry
                        THEN [bucket |-> NewTokenBucket(PerIPCapacity), lastSeen |-> now]
                        ELSE ipBuckets[ip[r]]
    <3>1. entry \in Entries
      BY <1>0 DEF TypeOK, NewTokenBucket
    <3>2. [entry EXCEPT !.lastSeen = now] \in Entries
      BY <1>0, <3>1
    <3>3. ipBuckets' = [ipBuckets EXCEPT ![ip[r]] = [entry EXCEPT !.lastSeen = now]]
      BY <1>3 DEF lookupIP
    <3>4. QED
      BY <3>2, <3>3
  <2>2. ipBuckets' \in [IPs -> {NoEntry} \cup Entries] /\ ipBuckets'[ip[r]] # NoEntry
    BY <1>0, <2>1 DEF TypeOK
  <2>3. QED
    BY <1>3, <2>2 DEF lookupIP, LockFree, TypeOK, MutexHeld
<1>4. ASSUME NEW r \in Requests, takeIP(r) \/ refuseIP(r)
      PROVE  TypeOK' /\ MutexHeld'
  <2> DEFINE e == ipBuckets[ip[r]]
  <2>1. e \in Entries /\ pc[r] = "bucket"
    BY <1>4 DEF takeIP, refuseIP, TypeOK, MutexHeld
  <2>2. PICK c \in refill(e.bucket, PerIPCapacity, PerIPRefillRate) :
          \/ c.tokens >= 1 /\ ipBuckets' = [ipBuckets EXCEPT ![ip[r]].bucket = Take(c)]
          \/ ipBuckets' = [ipBuckets EXCEPT ![ip[r]].bucket = c]
    BY <1>4 DEF takeIP, refuseIP
  <2>3. c \in [tokens : 0 .. PerIPCapacity, lastRefill : 0 .. now]
    BY <1>0, <2>1, RefillCovered
  <2>4. PICK d \in [tokens : 0 .. PerIPCapacity, lastRefill : 0 .. now] :
          ipBuckets' = [ipBuckets EXCEPT ![ip[r]].bucket = d]
    <3>1. c.tokens >= 1 =>
            Take(c) \in [tokens : 0 .. PerIPCapacity, lastRefill : 0 .. now]
      BY <2>3 DEF Take
    <3>2. QED
      BY <2>2, <2>3, <3>1
  <2>5. [e EXCEPT !.bucket = d] \in Entries
    BY <2>1, <2>4
  <2>6. ipBuckets' = [ipBuckets EXCEPT ![ip[r]] = [e EXCEPT !.bucket = d]]
    BY <2>4
  <2>7. ipBuckets' \in [IPs -> {NoEntry} \cup Entries]
    BY <2>5, <2>6 DEF TypeOK
  <2>8. window' \in [at : 0 .. now, inflight : Nat, supply : Nat,
                     admitted : Nat, perIP : [IPs -> Nat]]
    <3>1. CASE refuseIP(r)
      BY <3>1 DEF refuseIP, TypeOK
    <3>2. CASE takeIP(r)
      <4>1. [window.perIP EXCEPT ![ip[r]] = @ + 1] \in [IPs -> Nat]
        BY DEF TypeOK
      <4>2. QED
        BY <3>2, <4>1 DEF takeIP, CountAdmission, TypeOK
    <3>3. QED
      BY <1>4, <3>1, <3>2
  <2>9. QED
    BY <1>4, <2>1, <2>7, <2>8 DEF takeIP, refuseIP, TypeOK, MutexHeld
<1>5. ASSUME NEW r \in Requests, returnGlobalToken(r)
      PROVE  TypeOK' /\ MutexHeld'
  BY <1>0, <1>5 DEF returnGlobalToken, TypeOK, MutexHeld
<1>6. CASE cleanup
  <2>1. ipBuckets' \in [IPs -> {NoEntry} \cup Entries]
    BY <1>6 DEF cleanup, TypeOK
  <2>2. QED
    BY <1>6, <2>1 DEF cleanup, LockFree, TypeOK, MutexHeld
<1>t. CASE receiveTick
  <2>1. nextCleanup' \in Nat \ {0}
    <3>1. nextCleanup' = (now \div IPCleanupInterval + 1) * IPCleanupInterval
      BY <1>t DEF receiveTick
    <3>2. now \div IPCleanupInterval \in Nat
      BY <1>0, DivBounds DEF TypeOK
    <3>3. QED
      BY <3>1, <3>2, ConfigAssumption
  <2>2. QED
    BY <1>t, <2>1 DEF receiveTick, TypeOK, MutexHeld
<1>7. CASE Stop \/ cleanupReturns
  BY <1>7 DEF Stop, cleanupReturns, TypeOK, MutexHeld
<1>8. CASE GetStats
  <2>1. globalBucket' \in [tokens : 0 .. GlobalCapacity, lastRefill : 0 .. now]
    BY <1>0, <1>8, RefillCovered DEF TypeOK, GetStats
  <2>2. QED
    BY <1>8, <2>1 DEF GetStats, TypeOK, MutexHeld
<1>9. CASE Tick
  <2>1. now' = now + 1 /\ now' \in 0 .. MaxTime /\ 0 .. now \subseteq 0 .. now'
    BY <1>0, <1>9 DEF Tick, TypeOK
  <2>2. ipBuckets' \in [IPs -> {NoEntry} \cup
          [bucket : [tokens : 0 .. PerIPCapacity, lastRefill : 0 .. now'],
           lastSeen : 0 .. now']]
    BY <1>9, <2>1 DEF Tick, TypeOK
  <2>3. QED
    BY <1>9, <2>1, <2>2 DEF Tick, TypeOK, MutexHeld
<1>10. CASE OpenWindow
  <2>1. Held \in Nat
    BY HeldNat
  <2>2. window' \in [at : 0 .. now, inflight : Nat, supply : Nat,
                     admitted : Nat, perIP : [IPs -> Nat]]
    BY <1>0, <1>10, <2>1 DEF OpenWindow, NewWindow, TypeOK, Held
  <2>3. QED
    BY <1>10, <2>2 DEF OpenWindow, TypeOK, MutexHeld
<1>11. CASE UNCHANGED vars
  BY <1>11 DEF vars, TypeOK, MutexHeld
<1>12. QED
  BY <1>1, <1>2, <1>3, <1>4, <1>5, <1>6, <1>t, <1>7, <1>8, <1>9, <1>10, <1>11
     DEF Next, RequestStep

\* The two are inductive only together.
LEMMA TypeAndMutex == Spec => [](TypeOK /\ MutexHeld)
BY TypeInit, TypeStep, PTL DEF Spec

\* No bucket goes below zero or above its capacity, by a refill or by a refund.
THEOREM TypeCorrect == Spec => []TypeOK
BY TypeAndMutex, PTL

\* At most one request is inside allowIP, and the entry it has looked up is still in
\* the map: cleanup and the other requests are kept out by rl.mu.
THEOREM MutexCorrect == Spec => []MutexHeld
BY TypeAndMutex, PTL

-----------------------------------------------------------------------------
\* The global bound.

\* What the window may still admit when every held token is spent.
GlobalRoom ==
  (GlobalCapacity + 1 + window.inflight) * Second
    + GlobalRefillRate * (now - window.at) - (window.admitted + Held) * Second

\* The inductive strengthening of GlobalWindowBound: the room covers the bucket.
GlobalCovered == Covers(GlobalRoom, globalBucket, GlobalCapacity, GlobalRefillRate)

\* One more token held, one less, or one turned into an admission.
LEMMA GlobalRoomChange ==
  ASSUME TypeOK
  PROVE  /\ GlobalRoom \in Int
         /\ UNCHANGED <<now, window>> /\ Held' = Held + 1 => GlobalRoom' = GlobalRoom - Second
         /\ UNCHANGED <<now, window>> /\ Held' = Held - 1 => GlobalRoom' = GlobalRoom + Second
         /\ UNCHANGED <<now, window>> /\ Held' = Held => GlobalRoom' = GlobalRoom
         /\ \A i \in IPs : now' = now /\ Held' = Held - 1 /\ window' = CountAdmission(i)
              => GlobalRoom' = GlobalRoom
         /\ UNCHANGED window /\ now' = now + 1 /\ Held' = Held
              => GlobalRoom' = GlobalRoom + GlobalRefillRate
<1> USE ConfigAssumption
<1>1. Held \in Nat
  BY HeldNat
<1>2. /\ window.inflight \in Nat /\ window.admitted \in Nat /\ window.at \in Nat
      /\ now \in Nat /\ Second \in Nat /\ GlobalCapacity \in Nat /\ GlobalRefillRate \in Nat
  BY DEF TypeOK
<1>3. /\ (window.admitted + (Held + 1)) * Second = (window.admitted + Held) * Second + Second
      /\ (window.admitted + (Held - 1)) * Second = (window.admitted + Held) * Second - Second
      /\ window.admitted + 1 + (Held - 1) = window.admitted + Held
      /\ GlobalRefillRate * (now + 1 - window.at)
           = GlobalRefillRate * (now - window.at) + GlobalRefillRate
  <2>1. /\ window.admitted + Held \in Int /\ now - window.at \in Int
        /\ window.admitted + (Held + 1) = (window.admitted + Held) + 1
        /\ window.admitted + (Held - 1) = (window.admitted + Held) - 1
        /\ now + 1 - window.at = (now - window.at) + 1
    BY <1>1, <1>2
  <2>2. QED
    BY <1>1, <1>2, <2>1, MulStep
<1>4. ASSUME NEW i \in IPs, window' = CountAdmission(i)
      PROVE  /\ window'.at = window.at /\ window'.inflight = window.inflight
             /\ window'.admitted = window.admitted + 1
  BY <1>4 DEF CountAdmission
<1> DEFINE Room(n, a, h) == (GlobalCapacity + 1 + window.inflight) * Second
                              + GlobalRefillRate * (n - window.at) - (a + h) * Second
<1>5. GlobalRoom = Room(now, window.admitted, Held)
  BY DEF GlobalRoom
<1>6. UNCHANGED window => GlobalRoom' = Room(now', window.admitted, Held')
  BY DEF GlobalRoom
<1>7. ASSUME NEW i \in IPs, window' = CountAdmission(i)
      PROVE  GlobalRoom' = Room(now', window.admitted + 1, Held')
  BY <1>4, <1>7 DEF GlobalRoom
<1>8. /\ Room(now, window.admitted, Held) \in Int
      /\ Room(now, window.admitted, Held + 1) = Room(now, window.admitted, Held) - Second
      /\ Room(now, window.admitted, Held - 1) = Room(now, window.admitted, Held) + Second
      /\ Room(now, window.admitted + 1, Held - 1) = Room(now, window.admitted, Held)
      /\ Room(now + 1, window.admitted, Held)
           = Room(now, window.admitted, Held) + GlobalRefillRate
  BY <1>1, <1>2, <1>3
<1> HIDE DEF Room
<1>9. QED
  BY <1>5, <1>6, <1>7, <1>8

\* At the start the whole bucket covers what the first window may admit.
LEMMA GlobalCoveredInit == Init => GlobalCovered
<1> SUFFICES ASSUME Init PROVE GlobalCovered
  OBVIOUS
<1> USE ConfigAssumption
<1>1. Inflight = {}
  BY DEF Init, Inflight
<1>2. Held = 0
  BY <1>1, FS_EmptySet DEF Held
<1>3. window.at = 0 /\ window.inflight = 0 /\ window.admitted = 0 /\ now = 0
  BY DEF Init, NewWindow
<1>4. GlobalRoom = (GlobalCapacity + 1) * Second
  BY <1>2, <1>3 DEF GlobalRoom
<1>5. QED
  BY <1>4 DEF GlobalCovered, Covers

\* No step of a request, the cleanup, the clock or the statistics uncovers the
\* global bucket.
LEMMA GlobalCoveredStep ==
  TypeOK /\ TypeOK' /\ GlobalCovered /\ [Next]_vars => GlobalCovered'
<1> SUFFICES ASSUME TypeOK, TypeOK', GlobalCovered, [Next]_vars PROVE GlobalCovered'
  OBVIOUS
<1> USE ConfigAssumption
<1>0. /\ now \in Nat /\ GlobalRoom \in Int
      /\ globalBucket \in [tokens : 0 .. GlobalCapacity, lastRefill : 0 .. now]
      /\ Second \in Nat /\ GlobalCapacity \in Nat /\ GlobalRefillRate \in Nat
      /\ pc \in [Requests -> {"idle", "lookup", "bucket", "refund"}]
  <2>1. GlobalRoom \in Int
    BY GlobalRoomChange
  <2>2. QED
    BY <2>1 DEF TypeOK
\* After a refill that leaves the room alone.
<1>r. ASSUME globalBucket' \in refill(globalBucket, GlobalCapacity, GlobalRefillRate),
             GlobalRoom' = GlobalRoom, now' = now
      PROVE  GlobalCovered'
  <2>1. GlobalRoom >= globalBucket'.tokens * Second
                        + GlobalRefillRate * (now - globalBucket'.lastRefill)
    BY <1>0, <1>r, RefillCovered DEF GlobalCovered
  <2>2. QED
    BY <1>r, <2>1 DEF GlobalCovered, Covers
\* After a step that leaves the bucket and the room alone.
<1>u. ASSUME globalBucket' = globalBucket, GlobalRoom' = GlobalRoom, now' = now
      PROVE  GlobalCovered'
  BY <1>u DEF GlobalCovered, Covers
<1>1. ASSUME NEW r \in Requests, NEW i \in IPs, allowGlobal(r, i)
      PROVE  GlobalCovered'
  <2>1. PICK b \in refill(globalBucket, GlobalCapacity, GlobalRefillRate) :
          b.tokens >= 1 /\ globalBucket' = Take(b)
    BY <1>1 DEF allowGlobal
  <2>2. /\ b \in [tokens : 0 .. GlobalCapacity, lastRefill : 0 .. now]
        /\ GlobalRoom >= b.tokens * Second + GlobalRefillRate * (now - b.lastRefill)
    BY <1>0, RefillCovered DEF GlobalCovered
  <2>3. GlobalRoom - Second >= Take(b).tokens * Second
                                 + GlobalRefillRate * (now - Take(b).lastRefill)
    BY <1>0, <2>1, <2>2, TakeCovered
  <2>4. Held' = Held + 1
    <3>1. pc[r] = "idle" /\ pc' = [pc EXCEPT ![r] = "lookup"]
      BY <1>1 DEF allowGlobal
    <3>2. QED
      BY <1>0, <3>1, HeldChange
  <2>5. GlobalRoom' = GlobalRoom - Second /\ now' = now
    BY <1>1, <2>4, GlobalRoomChange DEF allowGlobal
  <2>6. QED
    BY <2>1, <2>3, <2>5 DEF GlobalCovered, Covers
<1>2. ASSUME NEW r \in Requests, rejectGlobal(r)
      PROVE  GlobalCovered'
  <2>1. Held' = Held
    BY <1>2 DEF rejectGlobal, Held, Inflight
  <2>2. GlobalRoom' = GlobalRoom /\ now' = now
    BY <1>2, <2>1, GlobalRoomChange DEF rejectGlobal
  <2>3. globalBucket' \in refill(globalBucket, GlobalCapacity, GlobalRefillRate)
    BY <1>2 DEF rejectGlobal
  <2>4. QED
    BY <1>r, <2>2, <2>3
<1>3. ASSUME NEW r \in Requests, lookupIP(r) \/ refuseIP(r)
      PROVE  GlobalCovered'
  <2>1. Held' = Held
    BY <1>0, <1>3, HeldChange DEF lookupIP, refuseIP
  <2>2. QED
    BY <1>3, <1>u, <2>1, GlobalRoomChange DEF lookupIP, refuseIP
<1>4. ASSUME NEW r \in Requests, takeIP(r)
      PROVE  GlobalCovered'
  <2>1. Held' = Held - 1
    BY <1>0, <1>4, HeldChange DEF takeIP
  <2>2. ip[r] \in IPs /\ window' = CountAdmission(ip[r]) /\ now' = now
    BY <1>4 DEF takeIP, TypeOK
  <2>3. GlobalRoom' = GlobalRoom
    BY <2>1, <2>2, GlobalRoomChange
  <2>4. QED
    BY <1>4, <1>u, <2>3 DEF takeIP
<1>5. ASSUME NEW r \in Requests, returnGlobalToken(r)
      PROVE  GlobalCovered'
  <2>1. Held' = Held - 1
    BY <1>0, <1>5, HeldChange DEF returnGlobalToken
  <2>2. GlobalRoom' = GlobalRoom + Second /\ now' = now
    BY <1>5, <2>1, GlobalRoomChange DEF returnGlobalToken
  <2>3. /\ globalBucket'.tokens \in {globalBucket.tokens, globalBucket.tokens + 1}
        /\ globalBucket'.lastRefill = globalBucket.lastRefill
    BY <1>0, <1>5 DEF returnGlobalToken
  <2>4. (globalBucket.tokens + 1) * Second = globalBucket.tokens * Second + Second
    BY <1>0
  <2>5. globalBucket'.tokens * Second <= globalBucket.tokens * Second + Second
    BY <1>0, <2>3, <2>4
  <2>6. QED
    BY <1>0, <2>2, <2>3, <2>5 DEF GlobalCovered, Covers
<1>6. CASE cleanup \/ Stop \/ receiveTick \/ cleanupReturns
  <2>1. Held' = Held
    BY <1>6 DEF cleanup, Stop, receiveTick, cleanupReturns, Held, Inflight
  <2>2. QED
    BY <1>6, <1>u, <2>1, GlobalRoomChange DEF cleanup, Stop, receiveTick, cleanupReturns
<1>7. CASE GetStats
  <2>1. Held' = Held
    BY <1>7 DEF GetStats, Held, Inflight
  <2>2. QED
    BY <1>7, <1>r, <2>1, GlobalRoomChange DEF GetStats
<1>8. CASE Tick
  <2>1. Held' = Held
    BY <1>8 DEF Tick, Held, Inflight
  <2>2. GlobalRoom' = GlobalRoom + GlobalRefillRate /\ now' = now + 1
    BY <1>8, <2>1, GlobalRoomChange DEF Tick
  <2>3. GlobalRefillRate * (now + 1 - globalBucket.lastRefill)
          = GlobalRefillRate * (now - globalBucket.lastRefill) + GlobalRefillRate
    BY <1>0
  <2>4. QED
    BY <1>0, <1>8, <2>2, <2>3 DEF Tick, GlobalCovered, Covers
<1>9. CASE OpenWindow
  <2>1. Held \in Nat /\ Held' = Held
    BY <1>9, HeldNat DEF OpenWindow, Held, Inflight
  <2>2. /\ window'.at = now /\ window'.inflight = Held /\ window'.admitted = 0
        /\ now' = now
    BY <1>9 DEF OpenWindow, NewWindow, Held
  <2>3. (GlobalCapacity + 1 + Held) * Second - (0 + Held) * Second
          = (GlobalCapacity + 1) * Second
    BY <1>0, <2>1
  <2>4. GlobalRoom' = (GlobalCapacity + 1) * Second
    BY <1>0, <2>1, <2>2, <2>3 DEF GlobalRoom
  <2>5. QED
    BY <1>0, <2>4 DEF GlobalCovered, Covers
<1>10. CASE UNCHANGED vars
  <2>1. Held' = Held
    BY <1>10 DEF vars, Held, Inflight
  <2>2. QED
    BY <1>10, <1>u, <2>1, GlobalRoomChange DEF vars
<1>11. QED
  BY <1>1, <1>2, <1>3, <1>4, <1>5, <1>6, <1>7, <1>8, <1>9, <1>10
     DEF Next, RequestStep

\* A covered bucket has not admitted more than the window allows.
LEMMA GlobalCoveredBound == TypeOK /\ GlobalCovered => GlobalWindowBound
<1> SUFFICES ASSUME TypeOK, GlobalCovered PROVE GlobalWindowBound
  OBVIOUS
<1> USE ConfigAssumption
<1>1. /\ Held \in Nat /\ GlobalRoom \in Int
      /\ window.inflight \in Nat /\ window.admitted \in Nat /\ window.at \in Nat
      /\ now \in Nat /\ Second \in Nat /\ GlobalCapacity \in Nat /\ GlobalRefillRate \in Nat
      /\ globalBucket.tokens \in Nat /\ now - globalBucket.lastRefill \in Nat
  BY HeldNat, GlobalRoomChange DEF TypeOK
<1>2. /\ globalBucket.tokens * Second \in Nat
      /\ GlobalRefillRate * (now - globalBucket.lastRefill) \in Nat
      /\ (GlobalCapacity + 1) * Second \in Nat
      /\ Held * Second \in Nat
      /\ (window.admitted + Held) * Second = window.admitted * Second + Held * Second
  BY <1>1
<1>3. GlobalRoom >= 0
  BY <1>1, <1>2 DEF GlobalCovered, Covers
<1>4. QED
  BY <1>1, <1>2, <1>3 DEF GlobalRoom, GlobalWindowBound

\* GlobalWindowBound holds for every capacity, rate and number of requests.
THEOREM GlobalBound == Spec => []GlobalWindowBound
<1>1. Spec => [](TypeOK /\ MutexHeld)
  BY TypeAndMutex
<1>2. TypeOK /\ TypeOK' /\ GlobalCovered /\ [Next]_vars => GlobalCovered'
  BY GlobalCoveredStep
<1>3. QED
  BY <1>1, <1>2, GlobalCoveredInit, GlobalCoveredBound, PTL DEF Spec

-----------------------------------------------------------------------------
\* The bound of each address.

\* What the window may still admit from address i.
IPRoom(i) ==
  (PerIPCapacity + 1) * Second + PerIPRefillRate * (now - window.at)
    - window.perIP[i] * Second

\* An entry's refill mark is never ahead of its stamp by more than a hold of
\* rl.mu, and a request that holds rl.mu stamped its entry less than that ago.
StampInv ==
  /\ \A i \in IPs : ipBuckets[i] # NoEntry =>
       ipBuckets[i].bucket.lastRefill <= ipBuckets[i].lastSeen + MaxHold
  /\ \A r \in Requests : pc[r] = "bucket" =>
       now <= ipBuckets[ip[r]].lastSeen + MaxHold

\* The inductive strengthening of PerIPWindowBound: the room of an address covers
\* its bucket, and a full bucket when it has none.
IPCovered ==
  \A i \in IPs :
    /\ ipBuckets[i] = NoEntry => IPRoom(i) >= PerIPCapacity * Second
    /\ ipBuckets[i] # NoEntry =>
         Covers(IPRoom(i), ipBuckets[i].bucket, PerIPCapacity, PerIPRefillRate)

Entries == [bucket : [tokens : 0 .. PerIPCapacity, lastRefill : 0 .. now],
            lastSeen : 0 .. now]

\* The types the following lemmas need.
LEMMA EntryTypes ==
  ASSUME TypeOK
  PROVE  /\ now \in Nat /\ Second \in Nat \ {0} /\ MaxHold \in Nat
         /\ PerIPCapacity \in Nat /\ PerIPRefillRate \in Nat /\ IPIdleTimeout \in Nat
         /\ ipBuckets \in [IPs -> {NoEntry} \cup Entries] /\ NoEntry \notin Entries
         /\ window.at \in 0 .. now /\ window.perIP \in [IPs -> Nat]
         /\ \A i \in IPs : IPRoom(i) \in Int
<1>1. /\ now \in Nat /\ Second \in Nat \ {0} /\ MaxHold \in Nat
      /\ PerIPCapacity \in Nat /\ PerIPRefillRate \in Nat /\ IPIdleTimeout \in Nat
  BY ConfigAssumption DEF TypeOK
<1>2. ipBuckets \in [IPs -> {NoEntry} \cup Entries]
  BY DEF TypeOK, Entries
<1>3. NoEntry \notin Entries
  BY <1>1, ConfigAssumption DEF Entries, IPEntry, Bucket
<1>4. window.at \in 0 .. now /\ window.perIP \in [IPs -> Nat]
  BY DEF TypeOK
<1>5. \A i \in IPs : IPRoom(i) \in Int
  BY <1>1, <1>4 DEF IPRoom
<1>6. QED
  BY <1>1, <1>2, <1>3, <1>4, <1>5

\* The step replaces the bucket of r's entry by d, which was refilled and then
\* charged cost.
EntryBecomes(r, d, cost) ==
  LET e == ipBuckets[ip[r]] IN
  /\ d \in [tokens : 0 .. PerIPCapacity, lastRefill : 0 .. now]
  /\ d.lastRefill \in {e.bucket.lastRefill, now}
  /\ ipBuckets' = [ipBuckets EXCEPT ![ip[r]] = [bucket |-> d, lastSeen |-> e.lastSeen]]
  /\ \A room \in Int : Covers(room, e.bucket, PerIPCapacity, PerIPRefillRate) =>
       room - cost >= d.tokens * Second + PerIPRefillRate * (now - d.lastRefill)

\* takeIP charges one token, refuseIP none.
LEMMA EntryStep ==
  ASSUME TypeOK, MutexHeld, NEW r \in Requests
  PROVE  /\ pc[r] = "bucket" => ip[r] \in IPs /\ ipBuckets[ip[r]] \in Entries
         /\ takeIP(r) => \E d : EntryBecomes(r, d, Second)
         /\ refuseIP(r) => \E d : EntryBecomes(r, d, 0)
<1> DEFINE e == ipBuckets[ip[r]]
           B == [tokens : 0 .. PerIPCapacity, lastRefill : 0 .. now]
<1>0. /\ now \in Nat /\ Second \in Nat /\ PerIPCapacity \in Nat /\ PerIPRefillRate \in Nat
      /\ ipBuckets \in [IPs -> {NoEntry} \cup Entries]
  BY EntryTypes
<1>1. pc[r] = "bucket" => ip[r] \in IPs /\ e \in Entries
  BY <1>0 DEF TypeOK, MutexHeld
<1>2. ASSUME e \in Entries, NEW c \in refill(e.bucket, PerIPCapacity, PerIPRefillRate)
      PROVE  /\ c \in B /\ c.lastRefill \in {e.bucket.lastRefill, now}
             /\ \A room \in Int : Covers(room, e.bucket, PerIPCapacity, PerIPRefillRate) =>
                  room >= c.tokens * Second + PerIPRefillRate * (now - c.lastRefill)
  <2>1. e.bucket \in B
    BY <1>2 DEF Entries
  <2>2. QED
    BY <1>0, <2>1, RefillCovered
<1>3. ASSUME e \in Entries, NEW d, ipBuckets' = [ipBuckets EXCEPT ![ip[r]].bucket = d]
      PROVE  ipBuckets' = [ipBuckets EXCEPT ![ip[r]] = [bucket |-> d, lastSeen |-> e.lastSeen]]
  <2>1. [e EXCEPT !.bucket = d] = [bucket |-> d, lastSeen |-> e.lastSeen]
    BY <1>3 DEF Entries
  <2>2. QED
    BY <1>3, <2>1
<1>4. ASSUME takeIP(r)
      PROVE  \E d : EntryBecomes(r, d, Second)
  <2>1. PICK c \in refill(e.bucket, PerIPCapacity, PerIPRefillRate) :
          c.tokens >= 1 /\ ipBuckets' = [ipBuckets EXCEPT ![ip[r]].bucket = Take(c)]
    BY <1>4 DEF takeIP
  <2>2. e \in Entries
    BY <1>1, <1>4 DEF takeIP
  <2>3. ipBuckets' = [ipBuckets EXCEPT ![ip[r]] = [bucket |-> Take(c), lastSeen |-> e.lastSeen]]
    BY <1>3, <2>1, <2>2
  <2>4. c \in B
    BY <1>2, <2>2
  <2>5. Take(c) \in B /\ Take(c).lastRefill \in {e.bucket.lastRefill, now}
    <3>1. c.lastRefill \in {e.bucket.lastRefill, now}
      BY <1>2, <2>2
    <3>2. Take(c) \in B /\ Take(c).lastRefill = c.lastRefill
      BY <1>0, <2>1, <2>4 DEF Take
    <3>3. QED
      BY <3>1, <3>2
  <2>6. ASSUME NEW room \in Int, Covers(room, e.bucket, PerIPCapacity, PerIPRefillRate)
        PROVE  room - Second >= Take(c).tokens * Second
                                  + PerIPRefillRate * (now - Take(c).lastRefill)
    <3>1. room >= c.tokens * Second + PerIPRefillRate * (now - c.lastRefill)
      BY <1>2, <2>2, <2>6
    <3>2. QED
      BY <1>0, <2>1, <2>4, <3>1, TakeCovered
  <2>7. EntryBecomes(r, Take(c), Second)
    BY <2>3, <2>5, <2>6 DEF EntryBecomes
  <2>8. QED
    BY <2>7
<1>5. ASSUME refuseIP(r)
      PROVE  \E d : EntryBecomes(r, d, 0)
  <2>1. PICK c \in refill(e.bucket, PerIPCapacity, PerIPRefillRate) :
          ipBuckets' = [ipBuckets EXCEPT ![ip[r]].bucket = c]
    BY <1>5 DEF refuseIP
  <2>2. e \in Entries
    BY <1>1, <1>5 DEF refuseIP
  <2>3. ipBuckets' = [ipBuckets EXCEPT ![ip[r]] = [bucket |-> c, lastSeen |-> e.lastSeen]]
    BY <1>3, <2>1, <2>2
  <2>4. EntryBecomes(r, c, 0)
    BY <1>0, <1>2, <2>2, <2>3 DEF EntryBecomes
  <2>5. QED
    BY <2>4
<1>6. QED
  BY <1>1, <1>4, <1>5

\* There are no entries to be stamped at the start.
LEMMA StampInit == Init => StampInv
BY DEF Init, StampInv

\* Every step keeps the stamp of an entry within MaxHold of its bucket's refill.
LEMMA StampStep ==
  TypeOK /\ MutexHeld /\ StampInv /\ [Next]_vars => StampInv'
<1> SUFFICES ASSUME TypeOK, MutexHeld, StampInv, [Next]_vars PROVE StampInv'
  OBVIOUS
<1>0. /\ now \in Nat /\ MaxHold \in Nat /\ PerIPCapacity \in Nat /\ PerIPRefillRate \in Nat
      /\ ipBuckets \in [IPs -> {NoEntry} \cup Entries] /\ NoEntry \notin Entries
      /\ pc \in [Requests -> {"idle", "lookup", "bucket", "refund"}]
      /\ ip \in [Requests -> IPs]
  BY EntryTypes DEF TypeOK
<1>1. ASSUME NEW r \in Requests, lookupIP(r)
      PROVE  StampInv'
  <2> DEFINE j == ip[r]
  <2>1. PICK e \in Entries : /\ ipBuckets' = [ipBuckets EXCEPT ![j] = [e EXCEPT !.lastSeen = now]]
                             /\ e.bucket.lastRefill <= now
    <3>1. [bucket |-> NewTokenBucket(PerIPCapacity), lastSeen |-> now] \in Entries
      BY <1>0 DEF Entries, NewTokenBucket
    <3>2. \A e \in Entries : e.bucket.lastRefill <= now
      BY <1>0 DEF Entries
    <3>3. j \in IPs
      BY <1>0
    <3>4. QED
      BY <1>0, <1>1, <3>1, <3>2, <3>3 DEF lookupIP
  <2>2. /\ ipBuckets'[j].lastSeen = now
        /\ ipBuckets'[j].bucket.lastRefill <= now
        /\ \A i \in IPs \ {j} : ipBuckets'[i] = ipBuckets[i]
        /\ j \in IPs
    BY <1>0, <2>1 DEF Entries
  <2>3. ASSUME NEW i \in IPs, ipBuckets'[i] # NoEntry
        PROVE  ipBuckets'[i].bucket.lastRefill <= ipBuckets'[i].lastSeen + MaxHold
    <3>1. CASE i = j
      <4>1. ipBuckets'[j].bucket.lastRefill \in Int
        BY <1>0, <2>1, <2>2 DEF Entries
      <4>2. QED
        BY <1>0, <2>2, <3>1, <4>1
    <3>2. CASE i # j
      BY <2>2, <2>3, <3>2 DEF StampInv
    <3>3. QED
      BY <3>1, <3>2
  <2>4. ASSUME NEW q \in Requests, pc'[q] = "bucket"
        PROVE  q = r
    BY <1>0, <1>1, <2>4 DEF lookupIP, LockFree
  <2>5. UNCHANGED <<now, ip>>
    BY <1>1 DEF lookupIP
  <2>6. QED
    BY <1>0, <2>2, <2>3, <2>4, <2>5 DEF StampInv
<1>2. ASSUME NEW r \in Requests, takeIP(r) \/ refuseIP(r)
      PROVE  StampInv'
  <2> DEFINE e == ipBuckets[ip[r]]
  <2>1. pc[r] = "bucket" /\ UNCHANGED <<now, ip>>
    BY <1>2 DEF takeIP, refuseIP
  <2>2. ip[r] \in IPs /\ e \in Entries
    BY <2>1, EntryStep
  <2>3. PICK d : \E cost : EntryBecomes(r, d, cost)
    BY <1>2, EntryStep
  <2>4. /\ ipBuckets'[ip[r]].lastSeen = e.lastSeen
        /\ ipBuckets'[ip[r]].bucket = d
        /\ d.lastRefill \in {e.bucket.lastRefill, now}
        /\ \A i \in IPs \ {ip[r]} : ipBuckets'[i] = ipBuckets[i]
    BY <1>0, <2>2, <2>3 DEF EntryBecomes
  <2>5. d.lastRefill <= e.lastSeen + MaxHold
    BY <1>0, <2>1, <2>2, <2>4 DEF StampInv
  <2>6. \A q \in Requests : pc'[q] # "bucket"
    BY <1>0, <1>2, <2>1 DEF takeIP, refuseIP, MutexHeld
  <2>7. \A i \in IPs : ipBuckets'[i] # NoEntry =>
          ipBuckets'[i].bucket.lastRefill <= ipBuckets'[i].lastSeen + MaxHold
    BY <2>4, <2>5 DEF StampInv
  <2>8. QED
    BY <2>6, <2>7 DEF StampInv
<1>3. CASE cleanup
  <2>1. \A i \in IPs : ipBuckets'[i] \in {NoEntry, ipBuckets[i]}
    BY <1>3 DEF cleanup
  <2>2. \A q \in Requests : pc'[q] # "bucket"
    BY <1>3 DEF cleanup, LockFree
  <2>3. QED
    BY <2>1, <2>2 DEF StampInv
<1>4. CASE Tick
  <2>1. ASSUME NEW q \in Requests, pc[q] = "bucket"
        PROVE  now + 1 <= ipBuckets[ip[q]].lastSeen + MaxHold
    <3>1. ipBuckets[ip[q]] \in Entries
      BY <2>1, EntryStep
    <3>2. now - ipBuckets[ip[q]].lastSeen < MaxHold
      BY <1>4, <2>1 DEF Tick
    <3>3. QED
      BY <1>0, <3>1, <3>2 DEF Entries
  <2>2. QED
    BY <1>4, <2>1 DEF Tick, StampInv
<1>5. ASSUME UNCHANGED <<now, ipBuckets>>,
             \A q \in Requests : pc'[q] = "bucket" => pc[q] = "bucket" /\ ip'[q] = ip[q]
      PROVE  StampInv'
  BY <1>5 DEF StampInv
<1>6. ASSUME NEW r \in Requests, NEW i \in IPs,
             allowGlobal(r, i) \/ rejectGlobal(r) \/ returnGlobalToken(r)
      PROVE  StampInv'
  BY <1>0, <1>5, <1>6 DEF allowGlobal, rejectGlobal, returnGlobalToken
<1>7. CASE Stop \/ receiveTick \/ cleanupReturns \/ GetStats \/ OpenWindow \/ UNCHANGED vars
  BY <1>5, <1>7 DEF Stop, receiveTick, cleanupReturns, GetStats, OpenWindow, vars
<1>8. QED
  BY <1>0, <1>1, <1>2, <1>3, <1>4, <1>6, <1>7 DEF Next, RequestStep

\* At the start every address may be admitted a full bucket.
LEMMA IPCoveredInit == Init => IPCovered
<1> SUFFICES ASSUME Init, NEW i \in IPs
             PROVE  ipBuckets[i] = NoEntry /\ IPRoom(i) >= PerIPCapacity * Second
  BY DEF IPCovered
<1>1. /\ ipBuckets[i] = NoEntry /\ now = 0 /\ window.at = 0
      /\ window.perIP[i] = 0
  BY DEF Init, NewWindow
<1>2. Second \in Nat /\ PerIPCapacity \in Nat /\ PerIPRefillRate \in Nat
  BY ConfigAssumption
<1>3. (PerIPCapacity + 1) * Second = PerIPCapacity * Second + Second
  BY <1>2, MulStep
<1>4. QED
  BY <1>1, <1>2, <1>3 DEF IPRoom

\* Time passes, nothing happens, or one request from j is admitted.
LEMMA IPRoomChange ==
  ASSUME TypeOK, NEW i \in IPs
  PROVE  /\ UNCHANGED <<now, window>> => IPRoom(i)' = IPRoom(i)
         /\ UNCHANGED window /\ now' = now + 1 => IPRoom(i)' = IPRoom(i) + PerIPRefillRate
         /\ \A j \in IPs : UNCHANGED now /\ window' = CountAdmission(j) =>
              IPRoom(i)' = IF i = j THEN IPRoom(i) - Second ELSE IPRoom(i)
<1>1. /\ now \in Nat /\ Second \in Nat /\ PerIPCapacity \in Nat /\ PerIPRefillRate \in Nat
      /\ window.at \in Nat /\ window.perIP \in [IPs -> Nat]
  BY EntryTypes
<1>2. /\ (window.perIP[i] + 1) * Second = window.perIP[i] * Second + Second
      /\ PerIPRefillRate * (now + 1 - window.at)
           = PerIPRefillRate * (now - window.at) + PerIPRefillRate
  <2>1. /\ window.perIP[i] \in Int /\ now - window.at \in Int
        /\ now + 1 - window.at = (now - window.at) + 1
    BY <1>1
  <2>2. QED
    BY <1>1, <2>1, MulStep
<1>3. ASSUME NEW j \in IPs, window' = CountAdmission(j)
      PROVE  /\ window'.at = window.at
             /\ window'.perIP[i] = IF i = j THEN window.perIP[i] + 1 ELSE window.perIP[i]
  BY <1>1, <1>3 DEF CountAdmission
<1> DEFINE Room(n, k) == (PerIPCapacity + 1) * Second
                           + PerIPRefillRate * (n - window.at) - k * Second
<1>4. IPRoom(i) = Room(now, window.perIP[i])
  BY DEF IPRoom
<1>5. UNCHANGED window => IPRoom(i)' = Room(now', window.perIP[i])
  BY DEF IPRoom
<1>6. ASSUME NEW j \in IPs, window' = CountAdmission(j)
      PROVE  IPRoom(i)' = Room(now', IF i = j THEN window.perIP[i] + 1 ELSE window.perIP[i])
  BY <1>3, <1>6 DEF IPRoom
<1>7. /\ Room(now, window.perIP[i] + 1) = Room(now, window.perIP[i]) - Second
      /\ Room(now + 1, window.perIP[i]) = Room(now, window.perIP[i]) + PerIPRefillRate
  BY <1>1, <1>2
<1> HIDE DEF Room
<1>8. QED
  BY <1>4, <1>5, <1>6, <1>7

\* The cleanup case is the one that needs IdleAssumption: an entry idle for
\* IPIdleTimeout has earned a full bucket, so dropping it gives nothing away.
LEMMA IPCoveredStep ==
  TypeOK /\ MutexHeld /\ StampInv /\ IPCovered /\ [Next]_vars => IPCovered'
<1> SUFFICES ASSUME TypeOK, MutexHeld, StampInv, IPCovered, [Next]_vars,
                    NEW i \in IPs
             PROVE  (/\ ipBuckets[i] = NoEntry => IPRoom(i) >= PerIPCapacity * Second
                     /\ ipBuckets[i] # NoEntry =>
                          Covers(IPRoom(i), ipBuckets[i].bucket,
                                 PerIPCapacity, PerIPRefillRate))'
  BY DEF IPCovered
<1> DEFINE Goal == /\ ipBuckets[i] = NoEntry => IPRoom(i) >= PerIPCapacity * Second
                   /\ ipBuckets[i] # NoEntry =>
                        Covers(IPRoom(i), ipBuckets[i].bucket,
                               PerIPCapacity, PerIPRefillRate)
<1>0. /\ now \in Nat /\ Second \in Nat \ {0} /\ MaxHold \in Nat /\ IPIdleTimeout \in Nat
      /\ PerIPCapacity \in Nat /\ PerIPRefillRate \in Nat
      /\ ipBuckets \in [IPs -> {NoEntry} \cup Entries] /\ NoEntry \notin Entries
      /\ IPRoom(i) \in Int /\ ip \in [Requests -> IPs]
      /\ Goal
  BY EntryTypes DEF TypeOK, IPCovered
<1>u. ASSUME ipBuckets'[i] = ipBuckets[i], UNCHANGED now, IPRoom(i)' = IPRoom(i)
      PROVE  Goal'
  BY <1>0, <1>u DEF Covers
<1>1. ASSUME NEW r \in Requests, lookupIP(r)
      PROVE  Goal'
  <2>1. IPRoom(i)' = IPRoom(i) /\ UNCHANGED now
    BY <1>1, IPRoomChange DEF lookupIP
  <2>2. CASE i # ip[r]
    BY <1>0, <1>1, <1>u, <2>1, <2>2 DEF lookupIP
  <2>3. CASE i = ip[r] /\ ipBuckets[i] # NoEntry
    <3>1. ipBuckets'[i] = [ipBuckets[i] EXCEPT !.lastSeen = now]
      BY <1>0, <1>1, <2>3 DEF lookupIP
    <3>2. ipBuckets[i] \in Entries
      BY <1>0, <2>3
    <3>3. ipBuckets'[i].bucket = ipBuckets[i].bucket /\ ipBuckets'[i] \in Entries
      BY <1>0, <3>1, <3>2 DEF Entries
    <3>4. QED
      BY <1>0, <2>1, <2>3, <3>3 DEF Covers
  <2>4. CASE i = ip[r] /\ ipBuckets[i] = NoEntry
    <3> DEFINE e == [bucket |-> NewTokenBucket(PerIPCapacity), lastSeen |-> now]
    <3>1. ipBuckets'[i] = [e EXCEPT !.lastSeen = now]
      BY <1>0, <1>1, <2>4 DEF lookupIP
    <3>2. /\ ipBuckets'[i].bucket = [tokens |-> PerIPCapacity, lastRefill |-> now]
          /\ ipBuckets'[i] \in Entries
      BY <1>0, <3>1 DEF Entries, NewTokenBucket
    <3>3. PerIPRefillRate * (now - now) = 0
      BY <1>0
    <3>4. QED
      BY <1>0, <2>1, <2>4, <3>2, <3>3 DEF Covers
  <2>5. QED
    BY <2>2, <2>3, <2>4
<1>2. ASSUME NEW r \in Requests, takeIP(r)
      PROVE  Goal'
  <2>1. pc[r] = "bucket" /\ UNCHANGED now /\ window' = CountAdmission(ip[r]) /\ ip[r] \in IPs
    BY <1>0, <1>2 DEF takeIP
  <2>2. IPRoom(i)' = IF i = ip[r] THEN IPRoom(i) - Second ELSE IPRoom(i)
    BY <2>1, IPRoomChange
  <2>3. PICK d : EntryBecomes(r, d, Second)
    BY <1>2, EntryStep
  <2>4. CASE i # ip[r]
    BY <1>0, <1>u, <2>1, <2>2, <2>3, <2>4 DEF EntryBecomes
  <2>5. CASE i = ip[r]
    <3>1. ipBuckets[i] \in Entries
      BY <2>1, <2>5, EntryStep
    <3>2. IPRoom(i) - Second >= d.tokens * Second + PerIPRefillRate * (now - d.lastRefill)
      BY <1>0, <2>3, <2>5, <3>1 DEF EntryBecomes
    <3>3. ipBuckets'[i].bucket = d /\ ipBuckets'[i] \in Entries
      BY <1>0, <2>3, <2>5, <3>1 DEF EntryBecomes, Entries
    <3>4. QED
      BY <1>0, <2>1, <2>2, <2>5, <3>2, <3>3 DEF Covers
  <2>6. QED
    BY <2>4, <2>5
<1>3. ASSUME NEW r \in Requests, refuseIP(r)
      PROVE  Goal'
  <2>1. pc[r] = "bucket" /\ UNCHANGED now /\ IPRoom(i)' = IPRoom(i)
    BY <1>3, IPRoomChange DEF refuseIP
  <2>2. PICK d : EntryBecomes(r, d, 0)
    BY <1>3, EntryStep
  <2>3. CASE i # ip[r]
    BY <1>0, <1>u, <2>1, <2>2, <2>3 DEF EntryBecomes
  <2>4. CASE i = ip[r]
    <3>1. ipBuckets[i] \in Entries
      BY <2>1, <2>4, EntryStep
    <3>2. IPRoom(i) - 0 >= d.tokens * Second + PerIPRefillRate * (now - d.lastRefill)
      BY <1>0, <2>2, <2>4, <3>1 DEF EntryBecomes
    <3>3. ipBuckets'[i].bucket = d /\ ipBuckets'[i] \in Entries
      BY <1>0, <2>2, <2>4, <3>1 DEF EntryBecomes, Entries
    <3>4. QED
      BY <1>0, <2>1, <2>4, <3>2, <3>3 DEF Covers
  <2>5. QED
    BY <2>3, <2>4
<1>4. CASE cleanup
  <2>1. IPRoom(i)' = IPRoom(i) /\ UNCHANGED now
    BY <1>4, IPRoomChange DEF cleanup
  <2>2. CASE ipBuckets'[i] = ipBuckets[i]
    BY <1>u, <2>1, <2>2
  <2>3. CASE ipBuckets'[i] # ipBuckets[i]
    <3> DEFINE e == ipBuckets[i]
    <3>1. ipBuckets'[i] = NoEntry /\ e \in Entries /\ e.lastSeen < now - IPIdleTimeout
      BY <1>0, <1>4, <2>3 DEF cleanup, Idle
    <3>2. IPIdleTimeout - MaxHold <= now - e.bucket.lastRefill
      <4>1. e.bucket.lastRefill <= e.lastSeen + MaxHold
        BY <1>0, <3>1 DEF StampInv
      <4>2. QED
        BY <1>0, <3>1, <4>1 DEF Entries
    <3>3. /\ e.bucket.tokens \in Nat /\ e.bucket.lastRefill \in Int
      BY <1>0, <3>1 DEF Entries
    <3>4. (IPIdleTimeout - MaxHold) * PerIPRefillRate
            <= (now - e.bucket.lastRefill) * PerIPRefillRate
      BY <1>0, <3>2, <3>3, MulMono
    <3>5. PerIPCapacity * Second <= PerIPRefillRate * (now - e.bucket.lastRefill)
      BY <1>0, <3>3, <3>4, IdleAssumption
    <3>6. e.bucket.tokens * Second \in Nat
      BY <1>0, <3>3
    <3>7. (PerIPCapacity + 1) * Second = PerIPCapacity * Second + Second
      BY <1>0, MulStep
    <3>8. IPRoom(i) >= PerIPCapacity * Second
      BY <1>0, <3>1, <3>3, <3>5, <3>6, <3>7 DEF Covers
    <3>9. QED
      BY <2>1, <3>1, <3>8
  <2>4. QED
    BY <2>2, <2>3
<1>5. CASE Tick
  <2>1. /\ IPRoom(i)' = IPRoom(i) + PerIPRefillRate /\ now' = now + 1
        /\ ipBuckets'[i] = ipBuckets[i]
    BY <1>5, IPRoomChange DEF Tick
  <2>2. CASE ipBuckets[i] = NoEntry
    <3>1. PerIPCapacity * Second \in Nat
      BY <1>0
    <3>2. QED
      BY <1>0, <2>1, <2>2, <3>1
  <2>3. CASE ipBuckets[i] # NoEntry
    <3> DEFINE b == ipBuckets[i].bucket
    <3>1. b.lastRefill \in Int /\ b.tokens \in Int
      BY <1>0, <2>3 DEF Entries
    <3>2. PerIPRefillRate * (now + 1 - b.lastRefill)
            = PerIPRefillRate * (now - b.lastRefill) + PerIPRefillRate
      <4>1. now + 1 - b.lastRefill = (now - b.lastRefill) + 1 /\ now - b.lastRefill \in Int
        BY <1>0, <3>1
      <4>2. QED
        BY <1>0, <4>1, MulStep
    <3>3. Covers(IPRoom(i), b, PerIPCapacity, PerIPRefillRate)
      BY <1>0, <2>3
    <3>4. /\ b.tokens * Second \in Int /\ PerIPRefillRate * (now - b.lastRefill) \in Int
          /\ (PerIPCapacity + 1) * Second \in Int
      BY <1>0, <3>1
    <3>5. \/ IPRoom(i) + PerIPRefillRate >= (PerIPCapacity + 1) * Second
          \/ IPRoom(i) + PerIPRefillRate
               >= b.tokens * Second + PerIPRefillRate * (now + 1 - b.lastRefill)
      BY <1>0, <3>2, <3>3, <3>4 DEF Covers
    <3>6. Covers(IPRoom(i), ipBuckets[i].bucket, PerIPCapacity, PerIPRefillRate)'
      <4>1. ipBuckets'[i].bucket = b
        BY <2>1
      <4> HIDE DEF b
      <4>2. /\ ipBuckets'[i].bucket.tokens * Second = b.tokens * Second
            /\ PerIPRefillRate * (now' - ipBuckets'[i].bucket.lastRefill)
                 = PerIPRefillRate * (now + 1 - b.lastRefill)
        <5>1. now \in Int /\ b.lastRefill \in Int /\ now' = now + 1
          BY <1>0, <2>1, <3>1
        <5>2. ipBuckets'[i].bucket.tokens = b.tokens
          BY <4>1
        <5>3. ipBuckets'[i].bucket.lastRefill = b.lastRefill
          BY <4>1
        <5>4. now' - ipBuckets'[i].bucket.lastRefill = now + 1 - b.lastRefill
          BY <5>1, <5>3
        <5>5. QED
          BY <5>2, <5>4
      <4>3. QED
        BY <2>1, <3>5, <4>2 DEF Covers
    <3>7. QED
      BY <2>1, <2>3, <3>6
  <2>4. QED
    BY <2>2, <2>3
<1>6. CASE OpenWindow
  <2>1. /\ window'.at = now /\ window'.perIP[i] = 0 /\ now' = now
        /\ ipBuckets'[i] = ipBuckets[i]
    BY <1>6 DEF OpenWindow, NewWindow
  <2>2. IPRoom(i)' = (PerIPCapacity + 1) * Second
    BY <1>0, <2>1 DEF IPRoom
  <2>3. (PerIPCapacity + 1) * Second = PerIPCapacity * Second + Second
    BY <1>0, MulStep
  <2>4. PerIPCapacity * Second \in Int
    BY <1>0
  <2>5. QED
    BY <1>0, <2>2, <2>3, <2>4 DEF Covers
<1>7. ASSUME NEW r \in Requests, NEW j \in IPs,
             allowGlobal(r, j) \/ rejectGlobal(r) \/ returnGlobalToken(r)
      PROVE  Goal'
  <2>1. ipBuckets'[i] = ipBuckets[i] /\ UNCHANGED <<now, window>>
    BY <1>7 DEF allowGlobal, rejectGlobal, returnGlobalToken
  <2>2. QED
    BY <1>u, <2>1, IPRoomChange
<1>8. CASE Stop \/ receiveTick \/ cleanupReturns \/ GetStats \/ UNCHANGED vars
  <2>1. ipBuckets'[i] = ipBuckets[i] /\ UNCHANGED <<now, window>>
    BY <1>8 DEF Stop, receiveTick, cleanupReturns, GetStats, vars
  <2>2. QED
    BY <1>u, <2>1, IPRoomChange
<1>9. QED
  BY <1>0, <1>1, <1>2, <1>3, <1>4, <1>5, <1>6, <1>7, <1>8 DEF Next, RequestStep

\* An address whose bucket is covered has not been admitted more than allowed.
LEMMA IPCoveredBound == TypeOK /\ IPCovered => PerIPWindowBound
<1> SUFFICES ASSUME TypeOK, IPCovered, NEW i \in IPs
             PROVE  window.perIP[i] * Second
                      <= (PerIPCapacity + 1) * Second + PerIPRefillRate * (now - window.at)
  BY DEF PerIPWindowBound
<1>1. /\ now \in Nat /\ Second \in Nat /\ PerIPCapacity \in Nat /\ PerIPRefillRate \in Nat
      /\ ipBuckets \in [IPs -> {NoEntry} \cup Entries] /\ NoEntry \notin Entries
      /\ window.at \in Nat /\ window.perIP[i] \in Nat /\ IPRoom(i) \in Int
  BY EntryTypes
<1>2. /\ (PerIPCapacity + 1) * Second \in Nat /\ PerIPCapacity * Second \in Nat
      /\ PerIPRefillRate * (now - window.at) \in Int /\ window.perIP[i] * Second \in Nat
  BY <1>1
<1>3. ipBuckets[i] = NoEntry => IPRoom(i) >= 0
  BY <1>1, <1>2 DEF IPCovered
<1>4. ipBuckets[i] # NoEntry => IPRoom(i) >= 0
  <2> SUFFICES ASSUME ipBuckets[i] # NoEntry PROVE IPRoom(i) >= 0
    OBVIOUS
  <2> DEFINE b == ipBuckets[i].bucket
  <2>1. b.tokens \in Nat /\ now - b.lastRefill \in Nat
    BY <1>1 DEF Entries
  <2>2. b.tokens * Second \in Nat /\ PerIPRefillRate * (now - b.lastRefill) \in Nat
    BY <1>1, <2>1
  <2>3. QED
    BY <1>1, <1>2, <2>2 DEF IPCovered, Covers
<1>5. QED
  BY <1>1, <1>2, <1>3, <1>4 DEF IPRoom

\* PerIPWindowBound holds whatever cleanup forgets, when IdleAssumption holds.
THEOREM PerIPBound == Spec => []PerIPWindowBound
<1>1. Spec => [](TypeOK /\ MutexHeld)
  BY TypeAndMutex
<1>2. Spec => []StampInv
  BY <1>1, StampInit, StampStep, PTL DEF Spec
<1>3. QED
  BY <1>1, <1>2, IPCoveredInit, IPCoveredStep, IPCoveredBound, PTL DEF Spec

-----------------------------------------------------------------------------
\* Refused requests cost no global quota.

\* No step loses a global token that was not spent on an admission.
LEMMA NoQuotaLeakStep ==
  TypeOK /\ TypeOK' /\ NoQuotaLeak /\ [Next]_vars => NoQuotaLeak'
<1> SUFFICES ASSUME TypeOK, TypeOK', NoQuotaLeak, [Next]_vars
             PROVE  (globalBucket.tokens + Held + window.admitted
                       >= CappedAt(window.supply, GlobalCapacity))'
  BY DEF NoQuotaLeak, Held
<1> DEFINE Goal == globalBucket.tokens + Held + window.admitted
                     >= CappedAt(window.supply, GlobalCapacity)
<1>0. /\ now \in Nat /\ GlobalCapacity \in Nat /\ GlobalRefillRate \in Nat
      /\ globalBucket \in [tokens : 0 .. GlobalCapacity, lastRefill : 0 .. now]
      /\ globalBucket.tokens \in 0 .. GlobalCapacity
      /\ window.supply \in Nat /\ window.admitted \in Nat
      /\ pc \in [Requests -> {"idle", "lookup", "bucket", "refund"}]
      /\ ip \in [Requests -> IPs]
  BY ConfigAssumption DEF TypeOK
<1>1. Held \in Nat /\ Goal
  BY HeldNat DEF NoQuotaLeak, Held
\* A step that leaves the window alone and does not lower the sum of the bucket and
\* the held tokens.
<1>u. ASSUME UNCHANGED window, globalBucket'.tokens \in Int, Held' \in Int,
             globalBucket'.tokens + Held' >= globalBucket.tokens + Held
      PROVE  Goal'
  BY <1>0, <1>1, <1>u DEF CappedAt
<1>r. ASSUME NEW b \in refill(globalBucket, GlobalCapacity, GlobalRefillRate)
      PROVE  b.tokens \in Int /\ b.tokens >= globalBucket.tokens /\ Take(b).tokens = b.tokens - 1
  <2>1. /\ b \in [tokens : 0 .. GlobalCapacity, lastRefill : 0 .. now]
        /\ b.tokens >= globalBucket.tokens
    BY <1>0, RefillCovered
  <2>2. QED
    BY <2>1 DEF Take
<1>2. ASSUME NEW r \in Requests, NEW i \in IPs, allowGlobal(r, i)
      PROVE  Goal'
  <2>1. PICK b \in refill(globalBucket, GlobalCapacity, GlobalRefillRate) :
          globalBucket' = Take(b)
    BY <1>2 DEF allowGlobal
  <2>2. pc[r] = "idle" /\ pc' = [pc EXCEPT ![r] = "lookup"] /\ UNCHANGED window
    BY <1>2 DEF allowGlobal
  <2>3. Held' = Held + 1
    BY <1>0, <2>2, HeldChange
  <2>4. /\ globalBucket'.tokens \in Int /\ Held' \in Int
        /\ globalBucket'.tokens + Held' >= globalBucket.tokens + Held
    BY <1>0, <1>1, <1>r, <2>1, <2>3
  <2>5. QED
    BY <1>u, <2>2, <2>4
<1>3. ASSUME NEW r \in Requests, rejectGlobal(r)
      PROVE  Goal'
  <2>1. globalBucket' \in refill(globalBucket, GlobalCapacity, GlobalRefillRate)
    BY <1>3 DEF rejectGlobal
  <2>2. Held' = Held /\ UNCHANGED window
    BY <1>3 DEF rejectGlobal, Held, Inflight
  <2>3. QED
    BY <1>0, <1>1, <1>r, <1>u, <2>1, <2>2
<1>4. ASSUME NEW r \in Requests, lookupIP(r) \/ refuseIP(r)
      PROVE  Goal'
  <2>1. Held' = Held
    BY <1>0, <1>4, HeldChange DEF lookupIP, refuseIP
  <2>2. UNCHANGED <<globalBucket, window>>
    BY <1>4 DEF lookupIP, refuseIP
  <2>3. QED
    BY <1>0, <1>1, <1>u, <2>1, <2>2
<1>5. ASSUME NEW r \in Requests, takeIP(r)
      PROVE  Goal'
  <2>1. Held' = Held - 1
    BY <1>0, <1>5, HeldChange DEF takeIP
  <2>2. /\ window'.admitted = window.admitted + 1 /\ window'.supply = window.supply
        /\ UNCHANGED globalBucket
    BY <1>5 DEF takeIP, CountAdmission
  <2>3. QED
    BY <1>0, <1>1, <2>1, <2>2
<1>6. ASSUME NEW r \in Requests, returnGlobalToken(r)
      PROVE  Goal'
  <2>1. Held' = Held - 1 /\ Held' \in Nat /\ UNCHANGED window
    BY <1>0, <1>6, HeldChange DEF returnGlobalToken
  <2>2. CASE globalBucket.tokens < GlobalCapacity
    <3>1. globalBucket'.tokens = globalBucket.tokens + 1
      BY <1>0, <1>6, <2>2 DEF returnGlobalToken
    <3>2. QED
      BY <1>0, <1>1, <1>u, <2>1, <3>1
  <2>3. CASE globalBucket.tokens = GlobalCapacity
    <3>1. globalBucket'.tokens = GlobalCapacity
      BY <1>0, <1>6, <2>3 DEF returnGlobalToken
    <3>2. CappedAt(window'.supply, GlobalCapacity) <= GlobalCapacity
      BY <1>0, <2>1 DEF CappedAt
    <3>3. QED
      BY <1>0, <1>1, <2>1, <3>1, <3>2 DEF CappedAt
  <2>4. QED
    BY <1>0, <2>2, <2>3
<1>7. CASE OpenWindow
  <2>1. Held' = Held /\ globalBucket' = globalBucket
    BY <1>7 DEF OpenWindow, Held, Inflight
  <2>2. window'.supply = globalBucket.tokens + Held /\ window'.admitted = 0
    BY <1>7 DEF OpenWindow, NewWindow, Held
  <2>3. QED
    BY <1>0, <1>1, <2>1, <2>2 DEF CappedAt
<1>8. CASE cleanup \/ Stop \/ receiveTick \/ cleanupReturns \/ Tick \/ UNCHANGED vars
  <2>1. UNCHANGED <<globalBucket, window>> /\ Held' = Held
    BY <1>8 DEF cleanup, Stop, receiveTick, cleanupReturns, Tick, vars, Held, Inflight
  <2>2. QED
    BY <1>0, <1>1, <1>u, <2>1
<1>9. CASE GetStats
  <2>1. globalBucket' \in refill(globalBucket, GlobalCapacity, GlobalRefillRate)
    BY <1>9 DEF GetStats
  <2>2. Held' = Held /\ UNCHANGED window
    BY <1>9 DEF GetStats, Held, Inflight
  <2>3. QED
    BY <1>0, <1>1, <1>r, <1>u, <2>1, <2>2
<1>10. QED
  BY <1>0, <1>2, <1>3, <1>4, <1>5, <1>6, <1>7, <1>8, <1>9 DEF Next, RequestStep

\* NoQuotaLeak holds whatever refunds, refills and admissions interleave.
THEOREM QuotaKept == Spec => []NoQuotaLeak
<1>1. Spec => [](TypeOK /\ MutexHeld)
  BY TypeAndMutex
<1>2. Init => NoQuotaLeak
  <2> SUFFICES ASSUME Init PROVE NoQuotaLeak
    OBVIOUS
  <2>1. Held \in Nat
    BY HeldNat
  <2>2. /\ globalBucket.tokens = GlobalCapacity /\ window.supply = GlobalCapacity + 0
        /\ window.admitted = 0
    BY DEF Init, NewTokenBucket, NewWindow
  <2>3. QED
    BY <2>1, <2>2, ConfigAssumption DEF NoQuotaLeak, CappedAt, Held
<1>3. QED
  BY <1>1, <1>2, NoQuotaLeakStep, PTL DEF Spec

-----------------------------------------------------------------------------
\* The rounding of refill cannot starve anybody.

\* A whole token is paid for with at most the time of two.
LEMMA TokensPaid ==
  ASSUME NEW el \in Nat, NEW rate \in Nat, NEW n \in tokensToAdd(el, rate), n # 0
  PROVE  el * rate <= 2 * Second * n
<1> DEFINE w == (el * rate) \div Second
<1>1. Second \in Nat \ {0} /\ el * rate \in Nat
  BY ConfigAssumption
<1>2. /\ w \in Nat
      /\ w * Second <= el * rate
      /\ el * rate < w * Second + Second
  BY <1>1, DivBounds
<1>3. n \in {w - 1, w} /\ n >= 0 /\ (n < w => w * Second = el * rate)
  BY DEF tokensToAdd
<1> HIDE DEF w
<1>4. n \in Nat /\ 1 <= n
  BY <1>2, <1>3
<1>5. 1 * Second <= n * Second
  BY <1>1, <1>4, MulMono
<1>6. n = w - 1 => n * Second = w * Second - Second
  BY <1>1, <1>2, MulStep
<1>7. n * Second \in Nat /\ 2 * Second * n = n * Second + n * Second
  BY <1>1, <1>4
<1>8. QED
  BY <1>1, <1>2, <1>3, <1>5, <1>6, <1>7

\* What was earned from the window's opening to the bucket's clock mark.
Paid(rate, last) == IF last > window.at THEN rate * (last - window.at) ELSE 0

\* The bucket and the tokens already used make up for the base supply and for
\* half of what was earned up to the clock mark, or for a full bucket.
Kept(b, used, base, capacity, rate) ==
  2 * Second * (b.tokens + used)
    >= CappedAt(base + Paid(rate, b.lastRefill), 2 * Second * capacity)

\* A refill keeps a bucket up, and when it yields no token the used ones alone
\* make up for all that was earned until now.
LEMMA RefillKept ==
  ASSUME NEW capacity \in Nat, NEW rate \in Nat, now \in Nat, window.at \in 0 .. now,
         NEW b \in [tokens : 0 .. capacity, lastRefill : 0 .. now],
         NEW c \in refill(b, capacity, rate),
         NEW used \in Nat, NEW base \in Nat, Kept(b, used, base, capacity, rate)
  PROVE  /\ Kept(c, used, base, capacity, rate)
         /\ c.tokens < 1 =>
              (2 * used + 1) * Second
                >= CappedAt(base + rate * (now - window.at), 2 * Second * capacity)
<1> DEFINE el == now - b.lastRefill
           age == rate * (now - window.at)
           due == rate * el
           paid == Paid(rate, b.lastRefill)
           full == 2 * Second * capacity
<1>1. Second \in Nat \ {0}
  BY ConfigAssumption
<1>2. /\ el \in Nat /\ b.lastRefill \in 0 .. now /\ b.tokens \in 0 .. capacity
      /\ window.at \in Nat
  OBVIOUS
<1>3. PICK n \in tokensToAdd(el, rate) : c = Credit(b, n, capacity)
  BY DEF refill
<1>4. /\ n \in Nat
      /\ n = 0 => el * rate <= Second
      /\ n # 0 => el * rate <= 2 * Second * n
  BY <1>2, <1>3, TokensToAdd, TokensPaid
<1>5. due = el * rate /\ due \in Nat /\ full \in Nat
  BY <1>1, <1>2
<1>6. age \in Nat
  BY <1>2
<1>7. paid \in Nat /\ age <= paid + due
  <2>1. CASE b.lastRefill > window.at
    <3>1. /\ paid = rate * (b.lastRefill - window.at)
          /\ b.lastRefill - window.at \in Nat
      BY <1>2, <2>1 DEF Paid
    <3>2. now - window.at = (b.lastRefill - window.at) + el
      BY <1>2
    <3>3. rate * ((b.lastRefill - window.at) + el)
            = rate * (b.lastRefill - window.at) + rate * el
      BY <1>2, <3>1
    <3>4. QED
      BY <1>5, <1>6, <3>1, <3>2, <3>3
  <2>2. CASE ~ (b.lastRefill > window.at)
    <3>1. paid = 0
      BY <2>2 DEF Paid
    <3>2. (now - window.at) * rate <= el * rate
      BY <1>2, <2>2, MulMono
    <3>3. QED
      BY <1>2, <1>5, <1>6, <3>1, <3>2
  <2>3. QED
    BY <2>1, <2>2
<1>8. 2 * Second * (b.tokens + used) >= CappedAt(base + paid, full)
  BY DEF Kept
<1>9. Paid(rate, now) = age
  <2>1. CASE now > window.at
    BY <2>1 DEF Paid
  <2>2. CASE now = window.at
    BY <1>2, <2>2 DEF Paid
  <2>3. QED
    BY <1>2, <2>1, <2>2
<1>10. (2 * used + 1) * Second = 2 * Second * used + Second /\ 2 * Second * used \in Nat
  BY <1>1
<1>11. CASE n = 0
  <2>1. c = b
    BY <1>3, <1>11 DEF Credit
  <2>2. due <= Second
    BY <1>4, <1>5, <1>11
  <2>3. ASSUME c.tokens < 1
        PROVE  (2 * used + 1) * Second >= CappedAt(base + age, full)
    <3>1. b.tokens + used = used
      BY <1>2, <2>1, <2>3
    <3>2. 2 * Second * used >= CappedAt(base + paid, full)
      BY <1>8, <3>1
    <3> HIDE DEF age, due, paid, full
    <3>3. QED
      BY <1>1, <1>5, <1>6, <1>7, <1>10, <2>2, <3>2 DEF CappedAt
  <2>4. QED
    BY <2>1, <2>3
<1>12. CASE n # 0
  <2>1. /\ c.tokens = CappedAt(b.tokens + n, capacity)
        /\ c.lastRefill = now
    BY <1>3, <1>4, <1>12 DEF Credit
  <2>2. 2 * Second * (c.tokens + used) >= CappedAt(base + age, full)
    <3>1. CASE b.tokens + n > capacity
      <4>1. c.tokens = capacity
        BY <2>1, <3>1 DEF CappedAt
      <4>2. 2 * Second * (capacity + used) = full + 2 * Second * used
        BY <1>1
      <4>3. 2 * Second * (c.tokens + used) >= full
        BY <1>5, <1>10, <4>1, <4>2
      <4>4. CappedAt(base + age, full) <= full /\ CappedAt(base + age, full) \in Int
        <5> HIDE DEF age, full
        <5>1. QED
          BY <1>5, <1>6 DEF CappedAt
      <4>5. 2 * Second * (c.tokens + used) \in Int
        BY <1>5, <1>10, <4>1, <4>2
      <4>6. QED
        BY <1>5, <4>3, <4>4, <4>5
    <3>2. CASE ~ (b.tokens + n > capacity)
      <4>1. c.tokens = b.tokens + n
        BY <2>1, <3>2 DEF CappedAt
      <4>2. /\ 2 * Second * ((b.tokens + n) + used)
                 = 2 * Second * (b.tokens + used) + 2 * Second * n
            /\ 2 * Second * (b.tokens + used) \in Int /\ 2 * Second * n \in Int
        BY <1>1, <1>2, <1>4
      <4>3. due <= 2 * Second * n
        BY <1>4, <1>5, <1>12
      <4> DEFINE old == 2 * Second * (b.tokens + used)
                 more == 2 * Second * n
      <4>4. old >= CappedAt(base + paid, full) /\ due <= more /\ old \in Int /\ more \in Int
        BY <1>8, <4>2, <4>3
      <4> HIDE DEF age, due, paid, full, old, more
      <4>5. old + more >= CappedAt(base + age, full)
        BY <1>5, <1>6, <1>7, <4>4 DEF CappedAt
      <4>6. QED
        BY <4>1, <4>2, <4>5 DEF old, more
    <3>3. QED
      BY <3>1, <3>2
  <2>3. Kept(c, used, base, capacity, rate)
    BY <1>9, <2>1, <2>2 DEF Kept
  <2>4. ASSUME c.tokens < 1
        PROVE  (2 * used + 1) * Second >= CappedAt(base + age, full)
    <3>1. c.tokens \in 0 .. capacity
      BY <1>2, <1>4, <2>1 DEF CappedAt
    <3>2. c.tokens + used = used
      BY <2>4, <3>1
    <3>3. 2 * Second * used >= CappedAt(base + age, full)
      BY <2>2, <3>2
    <3> HIDE DEF age, full
    <3>4. QED
      BY <1>1, <1>5, <1>6, <1>10, <3>3 DEF CappedAt
  <2>5. QED
    BY <2>3, <2>4
<1>13. QED
  BY <1>11, <1>12

\* What was earned up to the clock mark is never negative.
LEMMA PaidNat ==
  ASSUME NEW rate \in Nat, NEW last \in Nat, window.at \in Nat
  PROVE  Paid(rate, last) \in Nat
<1>1. CASE last > window.at
  <2>1. last - window.at \in Nat
    BY <1>1
  <2>2. QED
    BY <1>1, <2>1 DEF Paid
<1>2. QED
  BY <1>1 DEF Paid

\* A full bucket is kept up.
LEMMA FullKept ==
  ASSUME NEW capacity \in Nat, NEW rate \in Nat, NEW base \in Nat, window.at \in Nat,
         NEW c, c.tokens = capacity, c.lastRefill \in Nat, NEW used \in Nat
  PROVE  Kept(c, used, base, capacity, rate)
<1>1. Second \in Nat /\ Paid(rate, c.lastRefill) \in Nat
  BY ConfigAssumption, PaidNat
<1>2. /\ 2 * Second * (capacity + used) = 2 * Second * capacity + 2 * Second * used
      /\ 2 * Second * capacity \in Nat /\ 2 * Second * used \in Nat
  BY <1>1
<1>3. CappedAt(base + Paid(rate, c.lastRefill), 2 * Second * capacity)
        <= 2 * Second * capacity
  BY <1>1, <1>2 DEF CappedAt
<1>4. CappedAt(base + Paid(rate, c.lastRefill), 2 * Second * capacity) \in Int
  BY <1>1, <1>2 DEF CappedAt
<1>5. QED
  BY <1>2, <1>3, <1>4 DEF Kept

\* A token that moves from the bucket to the used ones changes nothing, and one
\* that comes back does no harm.
LEMMA MoveKept ==
  ASSUME NEW capacity \in Nat, NEW rate \in Nat, NEW base \in Nat, window.at \in Nat,
         NEW b, b.tokens \in Nat, b.lastRefill \in Nat, NEW c, c.tokens \in Nat,
         NEW used \in Nat, NEW after \in Nat, Kept(b, used, base, capacity, rate),
         c.lastRefill = b.lastRefill,
         c.tokens + after >= b.tokens + used \/ c.tokens = capacity
  PROVE  Kept(c, after, base, capacity, rate)
<1> DEFINE goal == CappedAt(base + Paid(rate, b.lastRefill), 2 * Second * capacity)
<1>1. Second \in Nat
  BY ConfigAssumption
<1>2. Paid(rate, b.lastRefill) \in Nat
  BY PaidNat
<1>3. /\ 2 * Second * (b.tokens + used) >= goal
      /\ 2 * Second * (c.tokens + after) >= goal => Kept(c, after, base, capacity, rate)
  BY DEF Kept
<1>4. goal \in Int /\ goal <= 2 * Second * capacity
  BY <1>1, <1>2 DEF CappedAt
<1> HIDE DEF goal
<1>5. PICK low \in Nat : /\ low <= c.tokens + after
                        /\ 2 * Second * low >= goal
  BY <1>1, <1>3, <1>4
<1>6. low * (2 * Second) <= (c.tokens + after) * (2 * Second)
  BY <1>1, <1>5, MulMono
<1>7. /\ low * (2 * Second) = 2 * Second * low
      /\ (c.tokens + after) * (2 * Second) = 2 * Second * (c.tokens + after)
      /\ 2 * Second * low \in Int /\ 2 * Second * (c.tokens + after) \in Int
  BY <1>1, <1>5
<1>8. 2 * Second * (c.tokens + after) >= goal
  BY <1>4, <1>5, <1>6, <1>7
<1>9. QED
  BY <1>3, <1>8

\* The inductive strengthening of RefusedOnlyWhenSpent, for the global bucket and
\* for every address in the map.
GlobalKept ==
  Kept(globalBucket, Held + window.admitted, 2 * Second * window.supply,
       GlobalCapacity, GlobalRefillRate)
IPKept ==
  \A i \in IPs : ipBuckets[i] # NoEntry =>
    Kept(ipBuckets[i].bucket, window.perIP[i], 0, PerIPCapacity, PerIPRefillRate)

\* No step of a request, of the metrics or of the clock lets the global bucket
\* fall behind.
LEMMA GlobalKeptStep == TypeOK /\ GlobalKept /\ [Next]_vars => GlobalKept'
<1> SUFFICES ASSUME TypeOK, GlobalKept, [Next]_vars PROVE GlobalKept'
  OBVIOUS
<1> DEFINE base == 2 * Second * window.supply
           used == Held + window.admitted
           Up(b, u) == Kept(b, u, base, GlobalCapacity, GlobalRefillRate)
<1>0. /\ now \in Nat /\ GlobalCapacity \in Nat /\ GlobalRefillRate \in Nat
      /\ globalBucket \in [tokens : 0 .. GlobalCapacity, lastRefill : 0 .. now]
      /\ globalBucket.tokens \in 0 .. GlobalCapacity /\ globalBucket.lastRefill \in Nat
      /\ window.supply \in Nat /\ window.admitted \in Nat
      /\ window.at \in 0 .. now /\ window.at \in Nat /\ Second \in Nat
      /\ pc \in [Requests -> {"idle", "lookup", "bucket", "refund"}]
      /\ ip \in [Requests -> IPs]
  BY ConfigAssumption DEF TypeOK
<1>1. Held \in Nat /\ used \in Nat /\ base \in Nat /\ Up(globalBucket, used)
  BY <1>0, HeldNat DEF GlobalKept
<1>u. ASSUME window'.at = window.at, window'.supply = window.supply,
             Up(globalBucket', Held' + window'.admitted)
      PROVE  GlobalKept'
  BY <1>u DEF GlobalKept, Kept, Paid
<1>r. ASSUME NEW b \in refill(globalBucket, GlobalCapacity, GlobalRefillRate)
      PROVE  /\ Up(b, used)
             /\ b.tokens \in Nat /\ b.lastRefill \in Nat
             /\ Take(b).tokens = b.tokens - 1 /\ Take(b).lastRefill = b.lastRefill
  <2>1. b \in [tokens : 0 .. GlobalCapacity, lastRefill : 0 .. now]
    BY <1>0, RefillCovered
  <2>2. Up(b, used)
    <3> HIDE DEF base, used
    <3>1. QED
      BY <1>0, <1>1, RefillKept
  <2>3. QED
    BY <1>0, <2>1, <2>2 DEF Take
<1>m. ASSUME NEW b, b.tokens \in Nat, b.lastRefill \in Nat, Up(b, used),
             NEW c, c.tokens \in Nat, c.lastRefill = b.lastRefill, NEW after \in Nat,
             c.tokens + after >= b.tokens + used \/ c.tokens = GlobalCapacity
      PROVE  Up(c, after)
  <2> HIDE DEF base, used
  <2>1. QED
    BY <1>0, <1>1, <1>m, MoveKept
<1> HIDE DEF base, Up
<1>2. ASSUME NEW r \in Requests, NEW i \in IPs, allowGlobal(r, i)
      PROVE  GlobalKept'
  <2>1. PICK b \in refill(globalBucket, GlobalCapacity, GlobalRefillRate) :
          b.tokens >= 1 /\ globalBucket' = Take(b)
    BY <1>2 DEF allowGlobal
  <2>2. pc[r] = "idle" /\ pc' = [pc EXCEPT ![r] = "lookup"] /\ UNCHANGED window
    BY <1>2 DEF allowGlobal
  <2>3. Held' = Held + 1
    BY <1>0, <2>2, HeldChange
  <2>4. /\ Up(b, used) /\ b.tokens \in Nat /\ b.lastRefill \in Nat
        /\ Take(b).tokens = b.tokens - 1 /\ Take(b).lastRefill = b.lastRefill
    BY <1>r
  <2>5. /\ Held' + window'.admitted \in Nat /\ Take(b).tokens \in Nat
        /\ Take(b).tokens + (Held' + window'.admitted) >= b.tokens + used
    BY <1>0, <1>1, <2>1, <2>2, <2>3, <2>4
  <2>6. Up(Take(b), Held' + window'.admitted)
    BY <1>m, <2>4, <2>5
  <2>7. QED
    BY <1>u, <2>1, <2>2, <2>6
<1>3. ASSUME globalBucket' \in refill(globalBucket, GlobalCapacity, GlobalRefillRate),
             UNCHANGED <<pc, window>>
      PROVE  GlobalKept'
  <2>1. Held' = Held
    BY <1>3 DEF Held, Inflight
  <2>2. QED
    BY <1>3, <1>r, <1>u, <2>1
<1>4. ASSUME NEW r \in Requests, rejectGlobal(r)
      PROVE  GlobalKept'
  BY <1>3, <1>4 DEF rejectGlobal
<1>5. CASE GetStats
  BY <1>3, <1>5 DEF GetStats
<1>6. ASSUME NEW r \in Requests, takeIP(r)
      PROVE  GlobalKept'
  <2>1. Held' = Held - 1
    BY <1>0, <1>6, HeldChange DEF takeIP
  <2>2. /\ window'.admitted = window.admitted + 1 /\ window'.supply = window.supply
        /\ window'.at = window.at /\ UNCHANGED globalBucket
    BY <1>6 DEF takeIP, CountAdmission
  <2>3. Held' + window'.admitted = used
    BY <1>0, <1>1, <2>1, <2>2
  <2>4. QED
    BY <1>1, <1>u, <2>2, <2>3
<1>7. ASSUME NEW r \in Requests, returnGlobalToken(r)
      PROVE  GlobalKept'
  <2>1. Held' = Held - 1 /\ Held' \in Nat /\ UNCHANGED window
    BY <1>0, <1>7, HeldChange DEF returnGlobalToken
  <2>2. /\ globalBucket'.tokens \in Nat /\ globalBucket'.lastRefill = globalBucket.lastRefill
        /\ \/ globalBucket'.tokens = globalBucket.tokens + 1
           \/ globalBucket'.tokens = GlobalCapacity
    BY <1>0, <1>7 DEF returnGlobalToken
  <2>3. /\ Held' + window'.admitted \in Nat /\ globalBucket.tokens \in Nat
        /\ \/ globalBucket'.tokens + (Held' + window'.admitted) >= globalBucket.tokens + used
           \/ globalBucket'.tokens = GlobalCapacity
    BY <1>0, <1>1, <2>1, <2>2
  <2>4. Up(globalBucket', Held' + window'.admitted)
    BY <1>0, <1>1, <1>m, <2>2, <2>3
  <2>5. QED
    BY <1>u, <2>1, <2>4
<1>8. CASE OpenWindow
  <2>1. Held' = Held /\ globalBucket' = globalBucket
    BY <1>8 DEF OpenWindow, Held, Inflight
  <2>2. /\ window'.supply = globalBucket.tokens + Held /\ window'.admitted = 0
        /\ window'.at = now
    BY <1>8 DEF OpenWindow, NewWindow, Held
  <2>3. Paid(GlobalRefillRate, globalBucket.lastRefill)' = 0
    BY <1>0, <2>1, <2>2 DEF Paid
  <2>4. globalBucket'.tokens + (Held' + window'.admitted) = window'.supply
    BY <1>0, <1>1, <2>1, <2>2
  <2>5. 2 * Second * window'.supply \in Int /\ 2 * Second * GlobalCapacity \in Int
    BY <1>0, <1>1, <2>2
  <2>6. 2 * Second * window'.supply
          >= CappedAt(2 * Second * window'.supply + 0, 2 * Second * GlobalCapacity)
    BY <2>5 DEF CappedAt
  <2>7. QED
    BY <2>3, <2>4, <2>6 DEF GlobalKept, Kept
<1>9. ASSUME UNCHANGED <<globalBucket, window>>, Held' = Held
      PROVE  GlobalKept'
  BY <1>1, <1>9, <1>u
<1>10. ASSUME NEW r \in Requests, lookupIP(r) \/ refuseIP(r)
       PROVE  GlobalKept'
  <2>1. Held' = Held
    BY <1>0, <1>10, HeldChange DEF lookupIP, refuseIP
  <2>2. QED
    BY <1>9, <1>10, <2>1 DEF lookupIP, refuseIP
<1>11. CASE cleanup \/ Stop \/ receiveTick \/ cleanupReturns \/ Tick \/ UNCHANGED vars
  <2>1. UNCHANGED <<globalBucket, window>> /\ Held' = Held
    BY <1>11 DEF cleanup, Stop, receiveTick, cleanupReturns, Tick, vars, Held, Inflight
  <2>2. QED
    BY <1>9, <2>1
<1>12. QED
  BY <1>0, <1>2, <1>4, <1>5, <1>6, <1>7, <1>8, <1>10, <1>11 DEF Next, RequestStep

\* No step lets the bucket of an address fall behind; a new one starts full.
LEMMA IPKeptStep == TypeOK /\ MutexHeld /\ IPKept /\ [Next]_vars => IPKept'
<1> SUFFICES ASSUME TypeOK, MutexHeld, IPKept, [Next]_vars, NEW i \in IPs,
                    ipBuckets'[i] # NoEntry
             PROVE  (Kept(ipBuckets[i].bucket, window.perIP[i], 0,
                          PerIPCapacity, PerIPRefillRate))'
  BY DEF IPKept
<1> DEFINE Goal == Kept(ipBuckets[i].bucket, window.perIP[i], 0,
                        PerIPCapacity, PerIPRefillRate)
           Up(b, u) == Kept(b, u, 0, PerIPCapacity, PerIPRefillRate)
<1>0. /\ now \in Nat /\ Second \in Nat /\ PerIPCapacity \in Nat /\ PerIPRefillRate \in Nat
      /\ ipBuckets \in [IPs -> {NoEntry} \cup Entries] /\ NoEntry \notin Entries
      /\ ip \in [Requests -> IPs] /\ window.at \in 0 .. now /\ window.at \in Nat
      /\ window.perIP \in [IPs -> Nat] /\ window.perIP[i] \in Nat
  BY EntryTypes DEF TypeOK
<1>1. ipBuckets[i] # NoEntry => Goal /\ ipBuckets[i] \in Entries
  BY <1>0 DEF IPKept
<1>u. ASSUME window'.at = window.at, Up(ipBuckets'[i].bucket, window'.perIP[i])
      PROVE  Goal'
  BY <1>u DEF Kept, Paid
<1>m. ASSUME NEW b, b.tokens \in Nat, b.lastRefill \in Nat, NEW used \in Nat, Up(b, used),
             NEW c, c.tokens \in Nat, c.lastRefill = b.lastRefill, NEW after \in Nat,
             c.tokens + after >= b.tokens + used
      PROVE  Up(c, after)
  BY <1>0, <1>m, MoveKept
\* A step that leaves the bucket alone and does not open a window.
<1>s. ASSUME ipBuckets[i] # NoEntry, ipBuckets'[i].bucket = ipBuckets[i].bucket,
             window'.at = window.at, window'.perIP[i] = window.perIP[i]
      PROVE  Goal'
  BY <1>1, <1>s, <1>u
<1>2. ASSUME NEW r \in Requests, lookupIP(r)
      PROVE  Goal'
  <2>1. UNCHANGED window
    BY <1>2 DEF lookupIP
  <2>2. CASE i # ip[r]
    BY <1>0, <1>2, <1>s, <2>1, <2>2 DEF lookupIP
  <2>3. CASE i = ip[r] /\ ipBuckets[i] # NoEntry
    <3>1. ipBuckets'[i] = [ipBuckets[i] EXCEPT !.lastSeen = now]
      BY <1>0, <1>2, <2>3 DEF lookupIP
    <3>2. ipBuckets'[i].bucket = ipBuckets[i].bucket
      BY <1>1, <2>3, <3>1 DEF Entries
    <3>3. QED
      BY <1>s, <2>1, <2>3, <3>2
  <2>4. CASE i = ip[r] /\ ipBuckets[i] = NoEntry
    <3> DEFINE e == [bucket |-> NewTokenBucket(PerIPCapacity), lastSeen |-> now]
    <3>1. ipBuckets'[i] = [e EXCEPT !.lastSeen = now]
      BY <1>0, <1>2, <2>4 DEF lookupIP
    <3>2. ipBuckets'[i].bucket = [tokens |-> PerIPCapacity, lastRefill |-> now]
      BY <3>1 DEF NewTokenBucket
    <3>3. /\ ipBuckets'[i].bucket.tokens = PerIPCapacity
          /\ ipBuckets'[i].bucket.lastRefill \in Nat
      BY <1>0, <3>2
    <3>4. Up(ipBuckets'[i].bucket, window.perIP[i])
      BY <1>0, <3>3, FullKept
    <3>5. QED
      BY <1>u, <2>1, <3>4
  <2>5. QED
    BY <2>2, <2>3, <2>4
<1>3. ASSUME NEW r \in Requests, takeIP(r) \/ refuseIP(r)
      PROVE  Goal'
  <2> DEFINE e == ipBuckets[ip[r]]
  <2>1. pc[r] = "bucket" /\ ip[r] \in IPs /\ e \in Entries
    BY <1>0, <1>3, EntryStep DEF takeIP, refuseIP
  <2>2. CASE i # ip[r]
    <3>1. ipBuckets'[i] = ipBuckets[i]
      BY <1>0, <1>3, <2>2 DEF takeIP, refuseIP
    <3>2. window'.at = window.at /\ window'.perIP[i] = window.perIP[i]
      BY <1>0, <1>3, <2>1, <2>2 DEF takeIP, refuseIP, CountAdmission
    <3>3. QED
      BY <1>s, <3>1, <3>2
  <2>3. CASE i = ip[r]
    <3>1. ipBuckets[i] # NoEntry
      BY <1>0, <2>1, <2>3
    <3>2. /\ ipBuckets[i].bucket \in [tokens : 0 .. PerIPCapacity, lastRefill : 0 .. now]
          /\ Up(ipBuckets[i].bucket, window.perIP[i])
      BY <1>1, <3>1 DEF Entries
    <3>3. ASSUME NEW c \in refill(ipBuckets[i].bucket, PerIPCapacity, PerIPRefillRate)
          PROVE  /\ Up(c, window.perIP[i])
                 /\ c \in [tokens : 0 .. PerIPCapacity, lastRefill : 0 .. now]
      BY <1>0, <3>2, RefillKept, RefillCovered
    <3>4. CASE takeIP(r)
      <4>1. PICK c \in refill(ipBuckets[i].bucket, PerIPCapacity, PerIPRefillRate) :
              /\ c.tokens >= 1
              /\ ipBuckets' = [ipBuckets EXCEPT ![i].bucket = Take(c)]
        BY <2>3, <3>4 DEF takeIP
      <4>2. ipBuckets'[i].bucket = Take(c)
        BY <1>0, <1>1, <3>1, <4>1 DEF Entries
      <4>3. window'.at = window.at /\ window'.perIP[i] = window.perIP[i] + 1
        BY <1>0, <2>3, <3>4 DEF takeIP, CountAdmission
      <4>4. /\ c.tokens \in Nat /\ c.lastRefill \in Nat /\ Take(c).tokens = c.tokens - 1
            /\ Take(c).lastRefill = c.lastRefill
        BY <1>0, <3>3 DEF Take
      <4>5. /\ window.perIP[i] + 1 \in Nat /\ Take(c).tokens \in Nat
            /\ Take(c).tokens + (window.perIP[i] + 1) >= c.tokens + window.perIP[i]
        BY <1>0, <4>1, <4>4
      <4>6. Up(Take(c), window.perIP[i] + 1)
        <5>1. Up(c, window.perIP[i])
          BY <3>3
        <5> HIDE DEF Up
        <5>2. QED
          BY <1>0, <1>m, <4>4, <4>5, <5>1
      <4>7. QED
        BY <1>u, <4>2, <4>3, <4>6
    <3>5. CASE refuseIP(r)
      <4>1. PICK c \in refill(ipBuckets[i].bucket, PerIPCapacity, PerIPRefillRate) :
              ipBuckets' = [ipBuckets EXCEPT ![i].bucket = c]
        BY <2>3, <3>5 DEF refuseIP
      <4>2. ipBuckets'[i].bucket = c /\ UNCHANGED window
        BY <1>0, <1>1, <3>1, <3>5, <4>1 DEF Entries, refuseIP
      <4>3. QED
        BY <1>u, <3>3, <4>2
    <3>6. QED
      BY <1>3, <3>4, <3>5
  <2>4. QED
    BY <2>2, <2>3
<1>4. CASE cleanup
  <2>1. ipBuckets'[i] = ipBuckets[i] /\ UNCHANGED window
    BY <1>4 DEF cleanup
  <2>2. QED
    BY <1>s, <2>1
<1>5. CASE OpenWindow
  <2>1. /\ window'.at = now /\ window'.perIP[i] = 0 /\ ipBuckets'[i] = ipBuckets[i]
        /\ ipBuckets[i] # NoEntry
    BY <1>5 DEF OpenWindow, NewWindow
  <2>2. /\ ipBuckets'[i].bucket.tokens \in Nat /\ ipBuckets'[i].bucket.lastRefill \in 0 .. now
    BY <1>1, <2>1 DEF Entries
  <2>3. Paid(PerIPRefillRate, ipBuckets[i].bucket.lastRefill)' = 0
    BY <1>0, <2>1, <2>2 DEF Paid
  <2>4. 2 * Second * (ipBuckets'[i].bucket.tokens + 0) \in Nat /\ 2 * Second * PerIPCapacity \in Nat
    BY <1>0, <2>2
  <2>5. CappedAt(0 + 0, 2 * Second * PerIPCapacity) = 0
    BY <2>4 DEF CappedAt
  <2>6. QED
    BY <2>1, <2>3, <2>4, <2>5 DEF Kept
<1>6. ASSUME NEW r \in Requests, NEW j \in IPs,
             allowGlobal(r, j) \/ rejectGlobal(r) \/ returnGlobalToken(r)
      PROVE  Goal'
  BY <1>6, <1>s DEF allowGlobal, rejectGlobal, returnGlobalToken
<1>7. CASE Stop \/ receiveTick \/ cleanupReturns \/ GetStats \/ Tick \/ UNCHANGED vars
  BY <1>7, <1>s DEF Stop, receiveTick, cleanupReturns, GetStats, Tick, vars
<1>8. QED
  BY <1>0, <1>2, <1>3, <1>4, <1>5, <1>6, <1>7 DEF Next, RequestStep

\* A bucket that is kept up refuses only what RefusedOnlyWhenSpent allows.
LEMMA KeptRefuses == TypeOK /\ GlobalKept /\ IPKept => RefusedOnlyWhenSpent
<1> SUFFICES ASSUME TypeOK, GlobalKept, IPKept PROVE RefusedOnlyWhenSpent
  OBVIOUS
<1>1. /\ now \in Nat /\ GlobalCapacity \in Nat /\ GlobalRefillRate \in Nat
      /\ PerIPCapacity \in Nat /\ PerIPRefillRate \in Nat
      /\ globalBucket \in [tokens : 0 .. GlobalCapacity, lastRefill : 0 .. now]
      /\ window.at \in 0 .. now /\ 2 * Second * window.supply \in Nat
      /\ Held + window.admitted \in Nat /\ window.perIP \in [IPs -> Nat]
      /\ ipBuckets \in [IPs -> {NoEntry} \cup Entries]
  BY ConfigAssumption, HeldNat, EntryTypes DEF TypeOK
<1>2. ASSUME NEW b \in refill(globalBucket, GlobalCapacity, GlobalRefillRate), b.tokens < 1
      PROVE  (2 * (Cardinality(Inflight) + window.admitted) + 1) * Second
               >= CappedAt(2 * Second * window.supply
                             + GlobalRefillRate * (now - window.at),
                           2 * Second * GlobalCapacity)
  BY <1>1, <1>2, RefillKept DEF GlobalKept, Held
<1>3. ASSUME NEW i \in IPs, ipBuckets[i] # NoEntry,
             NEW b \in refill(ipBuckets[i].bucket, PerIPCapacity, PerIPRefillRate),
             b.tokens < 1
      PROVE  (2 * window.perIP[i] + 1) * Second
               >= CappedAt(PerIPRefillRate * (now - window.at),
                           2 * Second * PerIPCapacity)
  <2>1. /\ ipBuckets[i].bucket \in [tokens : 0 .. PerIPCapacity, lastRefill : 0 .. now]
        /\ window.perIP[i] \in Nat
    BY <1>1, <1>3 DEF Entries
  <2>2. (2 * window.perIP[i] + 1) * Second
          >= CappedAt(0 + PerIPRefillRate * (now - window.at), 2 * Second * PerIPCapacity)
    BY <1>1, <1>3, <2>1, RefillKept DEF IPKept
  <2>3. 0 + PerIPRefillRate * (now - window.at) = PerIPRefillRate * (now - window.at)
    BY <1>1
  <2>4. QED
    BY <2>2, <2>3
<1>4. QED
  BY <1>2, <1>3 DEF RefusedOnlyWhenSpent

\* RefusedOnlyWhenSpent holds however often refill is called between two tokens.
THEOREM NobodyStarved == Spec => []RefusedOnlyWhenSpent
<1>1. Spec => [](TypeOK /\ MutexHeld)
  BY TypeAndMutex
<1>2. Init => GlobalKept /\ IPKept
  <2> SUFFICES ASSUME Init PROVE GlobalKept /\ IPKept
    OBVIOUS
  <2>1. /\ globalBucket.tokens = GlobalCapacity /\ globalBucket.lastRefill = 0
        /\ window.supply = GlobalCapacity + 0 /\ window.admitted = 0 /\ window.at = 0
        /\ \A i \in IPs : ipBuckets[i] = NoEntry
    BY DEF Init, NewTokenBucket, NewWindow
  <2>2. Held + window.admitted \in Nat /\ 2 * Second * window.supply \in Nat
    BY <2>1, HeldNat, ConfigAssumption
  <2>3. GlobalKept
    BY <2>1, <2>2, FullKept, ConfigAssumption DEF GlobalKept
  <2>4. QED
    BY <2>1, <2>3 DEF IPKept
<1>3. QED
  BY <1>1, <1>2, GlobalKeptStep, IPKeptStep, KeptRefuses, PTL DEF Spec

=============================================================================
