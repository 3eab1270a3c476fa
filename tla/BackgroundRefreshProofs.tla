----------------------- MODULE BackgroundRefreshProofs -----------------------
(***************************************************************************)
(* StopBackgroundRefresh leaves no goroutine behind, for any numbers of    *)
(* workers, keys and callers.                                              *)
(***************************************************************************)
EXTENDS BackgroundRefresh, TLAPS

\* The inductive strengthening of StoppedMeansQuiet: until every goroutine has
\* returned, whoever closed stopCh holds f.mu and waits, so no second caller can
\* get past it.
StopHeld ==
  /\ stopCh => cleaner # "unstarted"
  /\ stopCh /\ mu = None => AllDone
  /\ \A s \in Stoppers : /\ stopper[s] = "waiting" => stopCh /\ mu = s
                         /\ stopper[s] = "stopped" => AllDone

\* Goroutines that have returned stay so.
LEMMA DoneStays ==
  ASSUME AllDone, [Next]_vars
  PROVE  AllDone'
<1> USE DEF AllDone
<1>1. CASE StartBackgroundRefresh
  BY <1>1 DEF StartBackgroundRefresh
<1>2. ASSUME NEW k \in Keys, Set(k) \/ Grow(k) PROVE AllDone'
  BY <1>2 DEF Set, Grow, workerVars
<1>3. ASSUME NEW w \in Workers, WorkerStep(w) PROVE AllDone'
  BY <1>3 DEF WorkerStep, receiveKey, refreshExpiringKeys, enqueue, refreshSucceeds,
              refreshFails, workerReturns
<1>4. CASE cleanupTick \/ cleanupReturns
  BY <1>4 DEF cleanupTick, cleanupReturns
<1>5. ASSUME NEW s \in Stoppers, StopStep(s) PROVE AllDone'
  BY <1>5 DEF StopStep, StopBackgroundRefresh, stopReturns, workerVars
<1>6. CASE cancel
  BY <1>6 DEF cancel, workerVars
<1>7. CASE UNCHANGED vars
  BY <1>7 DEF vars
<1>8. QED
  BY <1>1, <1>2, <1>3, <1>4, <1>5, <1>6, <1>7 DEF Next

\* Only the callers of StopBackgroundRefresh change what StopHeld is about, apart
\* from the goroutines' returning.
LEMMA StopHeldStep ==
  ASSUME stopper \in [Stoppers -> {"idle", "waiting", "stopped"}], StopHeld, [Next]_vars
  PROVE  StopHeld'
<1>1. ASSUME UNCHANGED stopVars, cleaner # "unstarted" => cleaner' # "unstarted"
      PROVE  StopHeld'
  BY <1>1, DoneStays DEF StopHeld, stopVars
<1>2. CASE StartBackgroundRefresh
  BY <1>1, <1>2 DEF StartBackgroundRefresh
<1>3. ASSUME NEW k \in Keys, Set(k) \/ Grow(k) PROVE StopHeld'
  BY <1>1, <1>3 DEF Set, Grow
<1>4. ASSUME NEW w \in Workers, WorkerStep(w) PROVE StopHeld'
  BY <1>1, <1>4 DEF WorkerStep, receiveKey, refreshExpiringKeys, enqueue, Sent, refreshSucceeds,
                    refreshFails, workerReturns
<1>5. CASE cleanupTick \/ cleanupReturns
  BY <1>1, <1>5 DEF cleanupTick, cleanupReturns
<1>6. ASSUME NEW s \in Stoppers, StopBackgroundRefresh(s)
      PROVE  StopHeld'
  <2>1. CASE stopCh
    <3>1. AllDone /\ AllDone'
      BY <1>6, <2>1, DoneStays DEF StopBackgroundRefresh, StopHeld
    <3>2. QED
      BY <1>6, <2>1, <3>1 DEF StopBackgroundRefresh, StopHeld
  <2>2. CASE ~stopCh
    <3>1. mu' = s /\ stopCh' /\ cleaner' # "unstarted"
      BY <1>6, <2>2 DEF StopBackgroundRefresh
    <3>2. \A t \in Stoppers \ {s} : stopper'[t] = stopper[t] /\ stopper[t] # "waiting"
      BY <1>6, <2>2 DEF StopBackgroundRefresh, StopHeld
    <3>3. stopper'[s] = "waiting"
      BY <1>6, <2>2 DEF StopBackgroundRefresh
    <3>4. s # None
      BY RefreshAssumption
    <3>5. QED
      BY <3>1, <3>2, <3>3, <3>4, DoneStays DEF StopHeld
  <2>3. QED
    BY <2>1, <2>2
<1>7. ASSUME NEW s \in Stoppers, stopReturns(s)
      PROVE  StopHeld'
  <2>1. AllDone /\ AllDone' /\ mu = s
    BY <1>7, DoneStays DEF stopReturns, StopHeld
  <2>2. \A t \in Stoppers \ {s} : stopper'[t] = stopper[t] /\ stopper[t] # "waiting"
    BY <1>7, <2>1 DEF stopReturns, StopHeld
  <2>3. QED
    BY <1>7, <2>1, <2>2 DEF stopReturns, StopHeld
<1>8. CASE cancel
  BY <1>1, <1>8 DEF cancel
<1>9. CASE UNCHANGED vars
  BY <1>1, <1>9 DEF vars, stopVars
<1>10. QED
  BY <1>2, <1>3, <1>4, <1>5, <1>6, <1>7, <1>8, <1>9 DEF Next, StopStep

\* What TypeOK needs to be inductive: the workers and the cleanup goroutine start
\* together, so a worker that starts has no keys left from before.
StartTogether == cleaner = "unstarted" => \A w \in Workers : pc[w] = "unstarted"

\* StartTogether is inductive.
LEMMA StartTogetherStep ==
  ASSUME StartTogether, [Next]_vars
  PROVE  StartTogether'
<1> USE DEF StartTogether
<1>1. CASE StartBackgroundRefresh
  BY <1>1 DEF StartBackgroundRefresh
<1>2. ASSUME NEW k \in Keys, Set(k) \/ Grow(k) PROVE StartTogether'
  BY <1>2 DEF Set, Grow, workerVars
<1>3. ASSUME NEW w \in Workers, WorkerStep(w) PROVE StartTogether'
  BY <1>3 DEF WorkerStep, receiveKey, refreshExpiringKeys, enqueue, Sent, refreshSucceeds,
              refreshFails, workerReturns
<1>4. CASE cleanupTick \/ cleanupReturns
  BY <1>4 DEF cleanupTick, cleanupReturns, workerVars
<1>5. ASSUME NEW s \in Stoppers, StopStep(s) PROVE StartTogether'
  BY <1>5 DEF StopStep, StopBackgroundRefresh, stopReturns, workerVars
<1>6. CASE cancel
  BY <1>6 DEF cancel, workerVars
<1>7. CASE UNCHANGED vars
  BY <1>7 DEF vars
<1>8. QED
  BY <1>1, <1>2, <1>3, <1>4, <1>5, <1>6, <1>7 DEF Next

\* A step keeps every variable in its type: a worker sends only keys that are in
\* the cache, so what another one receives and refreshes is a key.
LEMMA TypeStep ==
  ASSUME TypeOK, StartTogether, [Next]_vars
  PROVE  TypeOK'
<1> USE RefreshAssumption DEF TypeOK
<1>1. CASE StartBackgroundRefresh
  BY <1>1 DEF StartBackgroundRefresh, StartTogether, stopVars
<1>2. ASSUME NEW k \in Keys, Set(k) \/ Grow(k) PROVE TypeOK'
  BY <1>2 DEF Set, Grow, stopVars, workerVars
<1>3. ASSUME NEW w \in Workers, receiveKey(w) PROVE TypeOK'
  <2>1. Head(refreshCh) \in Keys /\ Tail(refreshCh) \in Seq(Keys)
        /\ Len(Tail(refreshCh)) <= ChanCap
    BY <1>3 DEF receiveKey
  <2>2. QED
    BY <1>3, <2>1 DEF receiveKey, stopVars
<1>4. ASSUME NEW w \in Workers, refreshExpiringKeys(w) PROVE TypeOK'
  BY <1>4 DEF refreshExpiringKeys, getExpiringKeys, stopVars
<1>5. ASSUME NEW w \in Workers, NEW k \in Keys, enqueue(w, k) PROVE TypeOK'
  <2>1. refreshCh' \in Seq(Keys) /\ Len(refreshCh') <= ChanCap
    BY <1>5 DEF enqueue
  <2>2. todo' \in [Workers -> SUBSET Keys]
        /\ \A v \in Workers : todo'[v] # {} <=> pc'[v] = "enqueue"
    BY <1>5 DEF enqueue, Sent
  <2>3. \A v \in Workers : work'[v] # None <=> pc'[v] = "refresh"
    BY <1>5 DEF enqueue, Sent
  <2>4. QED
    BY <1>5, <2>1, <2>2, <2>3 DEF enqueue, Sent, stopVars
<1>6. ASSUME NEW w \in Workers, refreshSucceeds(w) \/ refreshFails(w) PROVE TypeOK'
  BY <1>6 DEF refreshSucceeds, refreshFails, stopVars
<1>7. ASSUME NEW w \in Workers, workerReturns(w) PROVE TypeOK'
  BY <1>7 DEF workerReturns, stopVars
<1>8. CASE cleanupTick \/ cleanupReturns
  BY <1>8 DEF cleanupTick, cleanupReturns, stopVars, workerVars
<1>9. ASSUME NEW s \in Stoppers, StopStep(s) PROVE TypeOK'
  BY <1>9 DEF StopStep, StopBackgroundRefresh, stopReturns, workerVars
<1>10. CASE cancel
  BY <1>10 DEF cancel, stopVars, workerVars
<1>11. CASE UNCHANGED vars
  BY <1>11 DEF vars
<1>12. QED
  BY <1>1, <1>2, <1>3, <1>4, <1>5, <1>6, <1>7, <1>8, <1>9, <1>10, <1>11 DEF Next, WorkerStep

\* The background goroutines of FallbackCache keep every variable in its type, and
\* what a worker refreshes is always a key some worker has sent.
THEOREM TypeCorrect == Spec => []TypeOK
<1>1. Init => TypeOK /\ StartTogether
  <2>1. Init => refreshCh \in Seq(Keys) /\ Len(refreshCh) <= ChanCap
    BY RefreshAssumption DEF Init
  <2>2. Init => {stopCh, ctxDone} \subseteq BOOLEAN
    BY ZenonT(20) DEF Init
  <2>3. Init => \A w \in Workers : /\ todo[w] # {} <=> pc[w] = "enqueue"
                                   /\ work[w] # None <=> pc[w] = "refresh"
    BY DEF Init
  <2>4. Init => /\ pc \in [Workers -> {"unstarted", "select", "enqueue", "refresh", "returned"}]
                /\ todo \in [Workers -> SUBSET Keys]
                /\ work \in [Workers -> Keys \cup {None}]
                /\ stopper \in [Stoppers -> {"idle", "waiting", "stopped"}]
    BY DEF Init
  <2>5. QED
    BY <2>1, <2>2, <2>3, <2>4 DEF Init, TypeOK, StartTogether
<1>2. TypeOK /\ StartTogether /\ [Next]_vars => (TypeOK /\ StartTogether)'
  BY TypeStep, StartTogetherStep
<1>3. QED
  BY <1>1, <1>2, PTL DEF Spec

\* When any call of StopBackgroundRefresh has returned, the first or one that found
\* stopCh closed, every worker and the cleanup goroutine have returned.
THEOREM StopLeavesNothing == Spec => []StoppedMeansQuiet
<1>1. Init => StopHeld
  BY DEF Init, StopHeld
<1>2. TypeOK /\ StopHeld /\ [Next]_vars => StopHeld'
  BY StopHeldStep DEF TypeOK
<1>3. StopHeld => StoppedMeansQuiet
  BY DEF StopHeld, StoppedMeansQuiet
<1>4. QED
  BY <1>1, <1>2, <1>3, TypeCorrect, PTL DEF Spec

=============================================================================
