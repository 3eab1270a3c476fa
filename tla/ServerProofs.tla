---------------------------- MODULE ServerProofs ----------------------------
(***************************************************************************)
(* The shutdown of the process and the counting of its answers, for any    *)
(* numbers of requests, keys and workers.  What BackgroundRefreshProofs    *)
(* shows of the refresh goroutines alone holds for those of the process.   *)
(***************************************************************************)
EXTENDS Server, TLAPS

RP == INSTANCE BackgroundRefreshProofs WITH Stoppers <- {"deferred", "Close"}

\* What a handler does: it passes the request on, answers it or counts it.  Only the
\* middleware outside metricsMiddleware passes on to, or answers from, outside it.
LEMMA HandleCases ==
  ASSUME NEW r \in Requests, Handle(r)
  PROVE  /\ stage[r] \notin {"idle", "done"}
         /\ \/ \E next \in Stages \ {"idle", "cors", "done"} :
                 Pass(r, next) /\ (next = "limiter" => stage[r] = "cors")
            \/ \E codes \in SUBSET Codes :
                 Answer(r, codes) /\ (stage[r] \in {"cors", "limiter"} => codes \subseteq {200, 429})
            \/ metricsMiddleware(r)
<1> DEFINE Passed == \E next \in Stages \ {"idle", "cors", "done"} :
                       Pass(r, next) /\ (next = "limiter" => stage[r] = "cors")
           Answered == \E codes \in SUBSET Codes :
                         Answer(r, codes) /\ (stage[r] \in {"cors", "limiter"} => codes \subseteq {200, 429})
<1>1. ASSUME NEW next \in Stages \ {"idle", "cors", "limiter", "done"}, Pass(r, next) PROVE Passed
  BY <1>1
<1>2. ASSUME NEW codes \in SUBSET Codes, Answer(r, codes), stage[r] \notin {"cors", "limiter"}
      PROVE  Answered
  BY <1>2
<1>3. CASE cors(r)
  <2>1. "limiter" \in Stages \ {"idle", "cors", "done"} /\ {200} \in SUBSET Codes
    BY DEF Stages, Codes, ServeFile
  <2>2. QED
    BY <1>3, <2>1 DEF cors
<1>4. CASE rateLimitMiddleware(r)
  <2>1. "mux" \in Stages \ {"idle", "cors", "limiter", "done"} /\ {429} \in SUBSET Codes
    BY DEF Stages, Codes
  <2>2. QED
    BY <1>1, <1>4, <2>1 DEF rateLimitMiddleware
<1>5. CASE handleLTP(r) \/ GetLTP(r) \/ handleHealth(r) \/ handleReady(r) \/ ReadinessCheck(r)
           \/ recovery(r)
  <2>1. {{200}, {500}, {503}, {405}, {200, 400}, {400, 405}, {200, 405}, {200, 503}} \subseteq SUBSET Codes
    BY DEF Codes, ServeFile
  <2>2. {"readCache", "fetch", "writeCache", "probeSet", "probeGet", "probeKraken", "unhealthy"}
          \subseteq Stages \ {"idle", "cors", "limiter", "done"}
    BY DEF Stages
  <2>3. CASE handleLTP(r)
    BY <1>1, <1>2, <2>1, <2>2, <2>3 DEF handleLTP, Routed
  <2>4. CASE GetLTP(r)
    BY <1>1, <1>2, <2>1, <2>2, <2>4 DEF GetLTP
  <2>5. CASE handleHealth(r) \/ handleReady(r)
    BY <1>1, <1>2, <2>1, <2>2, <2>5 DEF handleHealth, handleReady, Routed
  <2>6. CASE LegacyCacheCheck(r)
    BY <1>1, <2>2, <2>6 DEF LegacyCacheCheck
  <2>7. CASE KrakenCheck(r) \/ recovery(r)
    BY <1>2, <2>1, <2>7 DEF KrakenCheck, recovery
  <2>8. QED
    BY <1>5, <2>3, <2>4, <2>5, <2>6, <2>7 DEF ReadinessCheck
<1>6. CASE handleOpenAPI(r) \/ handleSwaggerUI(r) \/ promhttpHandler(r) \/ notFound(r)
  <2>1. {{404, 405} \cup ServeFile, {200, 405}, Promhttp, NotFound} \subseteq SUBSET Codes
    BY DEF Codes, ServeFile
  <2>2. QED
    BY <1>2, <1>6, <2>1 DEF handleOpenAPI, handleSwaggerUI, promhttpHandler, notFound, Routed
<1>7. CASE metricsMiddleware(r)
  BY <1>7 DEF metricsMiddleware
<1>8. QED
  BY <1>3, <1>4, <1>5, <1>6, <1>7 DEF Handle

\* Each step of the process is a step of the goroutines or leaves them alone.
LEMMA RefreshSteps ==
  ASSUME [Next]_vars
  PROVE  [R!Next]_refresh
<1>1. CASE start
  BY <1>1 DEF start, R!Next
<1>2. CASE signal
  BY <1>2 DEF signal, R!Next
<1>3. CASE stopRefresh \/ closeCache
  BY <1>3 DEF stopRefresh, closeCache, R!Next, R!StopStep
<1>4. CASE stop
  <2>1. CASE ctxDone
    BY <1>4, <2>1 DEF stop, refresh, R!Next
  <2>2. QED
    BY <1>4 DEF stop, R!cancel, R!Next, R!stopVars, R!workerVars, refresh
<1>5. CASE Beside(background)
  BY <1>5 DEF Beside, background, cached, R!Next, R!StopStep
<1>6. CASE createCache \/ selectDone \/ selectError \/ Shutdown \/ drain \/ refreshStopped
           \/ cacheClosed \/ listen \/ serveReturns
  BY <1>6 DEF createCache, selectDone, selectError, Shutdown, drain, refreshStopped, cacheClosed,
              listen, serveReturns
<1>7. ASSUME NEW r \in Requests, NEW p \in Paths, arrive(r, p) PROVE UNCHANGED refresh
  BY <1>7 DEF arrive
<1>8. ASSUME NEW r \in Requests, Handle(r) PROVE UNCHANGED refresh
  BY <1>8, HandleCases DEF Pass, Answer, metricsMiddleware
<1>9. CASE UNCHANGED vars
  BY <1>9 DEF vars
<1>10. QED
  BY <1>1, <1>2, <1>3, <1>4, <1>5, <1>6, <1>7, <1>8, <1>9 DEF Next, MainStep

\* The steps of R and those BackgroundRefreshProofs speaks of are the same.
LEMMA SameSteps ==
  ASSUME R!Next
  PROVE  RP!Next
<1> USE DEF R!stopVars, RP!stopVars, R!workerVars, RP!workerVars
<1>1. CASE R!StartBackgroundRefresh \/ R!cancel
  BY <1>1 DEF R!StartBackgroundRefresh, RP!StartBackgroundRefresh, R!cancel, RP!cancel, RP!Next
<1>2. ASSUME NEW k \in Keys, R!Set(k) \/ R!Grow(k) PROVE RP!Next
  BY <1>2 DEF R!Set, RP!Set, R!Grow, RP!Grow, RP!Next
<1>3. ASSUME NEW w \in Workers, R!WorkerStep(w) PROVE RP!Next
  <2>1. RP!WorkerStep(w)
    BY <1>3 DEF R!WorkerStep, RP!WorkerStep, R!receiveKey, RP!receiveKey,
                R!refreshExpiringKeys, RP!refreshExpiringKeys, R!getExpiringKeys,
                RP!getExpiringKeys, R!enqueue, RP!enqueue, R!Sent, RP!Sent,
                R!refreshSucceeds, RP!refreshSucceeds, R!refreshFails, RP!refreshFails,
                R!workerReturns, RP!workerReturns
  <2>2. QED
    BY <2>1 DEF RP!Next
<1>4. CASE R!cleanupTick \/ R!cleanupReturns
  BY <1>4 DEF R!cleanupTick, RP!cleanupTick, R!cleanupReturns, RP!cleanupReturns, RP!Next
<1>5. ASSUME NEW s \in {"deferred", "Close"}, R!StopStep(s) PROVE RP!Next
  <2>1. RP!StopStep(s)
    BY <1>5 DEF R!StopStep, RP!StopStep, R!StopBackgroundRefresh, RP!StopBackgroundRefresh,
                R!stopReturns, RP!stopReturns, R!AllDone, RP!AllDone
  <2>2. QED
    BY <2>1 DEF RP!Next
<1>6. QED
  BY <1>1, <1>2, <1>3, <1>4, <1>5 DEF R!Next

\* What BackgroundRefresh assumes of its constants.
LEMMA RefreshAssumed == RP!RefreshAssumption
  BY ServerAssumption DEF RP!RefreshAssumption

\* The invariants of the goroutines are invariants of the process.
RefreshInv == RP!TypeOK /\ RP!StartTogether /\ RP!StopHeld

LEMMA RefreshInvStep ==
  ASSUME RefreshInv, [Next]_vars
  PROVE  RefreshInv' /\ (R!AllDone => R!AllDone')
<1>1. [RP!Next]_(RP!vars)
  BY RefreshSteps, SameSteps DEF refresh, RP!vars
<1>2. RP!TypeOK'
  BY <1>1, RP!TypeStep, RefreshAssumed DEF RefreshInv
<1>3. RP!StartTogether'
  BY <1>1, RP!StartTogetherStep, RefreshAssumed DEF RefreshInv
<1>4. RP!StopHeld'
  <2>1. stopper \in [{"deferred", "Close"} -> {"idle", "waiting", "stopped"}]
    BY DEF RefreshInv, RP!TypeOK
  <2>2. QED
    BY <1>1, <2>1, RP!StopHeldStep, RefreshAssumed DEF RefreshInv
<1>5. RP!AllDone => RP!AllDone'
  BY <1>1, RP!DoneStays, RefreshAssumed
<1>6. R!AllDone => R!AllDone'
  BY <1>5 DEF R!AllDone, RP!AllDone
<1>7. QED
  BY <1>2, <1>3, <1>4, <1>6 DEF RefreshInv

LEMMA RefreshInvInit == Init => RefreshInv
<1> SUFFICES ASSUME Init PROVE RefreshInv
  OBVIOUS
<1>1. RP!TypeOK
  <2>1. refreshCh \in Seq(Keys) /\ Len(refreshCh) <= ChanCap
    BY ServerAssumption DEF Init, R!Init
  <2>2. {stopCh, ctxDone} \subseteq BOOLEAN
    BY ZenonT(20) DEF Init, R!Init
  <2>3. QED
    BY <2>1, <2>2 DEF Init, R!Init, RP!TypeOK
<1>2. RP!StartTogether /\ RP!StopHeld
  BY DEF Init, R!Init, RP!StartTogether, RP!StopHeld
<1>3. QED
  BY <1>1, <1>2 DEF RefreshInv

-----------------------------------------------------------------------------

\* The variables of the process itself have their types.
OwnTypes ==
  /\ main \in {"create", "start", "select", "shutdown", "drain", "deferRefresh",
               "waitRefresh", "deferStop", "deferClose", "waitClose", "exited", "fatal"}
  /\ kind \in {"none", "memory", "redis", "fallback"}
  /\ http \in {"none", "starting", "listening", "failed", "orphaned", "shutdown"}
  /\ errCh \in BOOLEAN
  /\ stops \in 0 .. 1
  /\ stage \in [Requests -> Stages]
  /\ path \in [Requests -> Paths]
  /\ status \in [Requests -> Codes \cup {0}]
  /\ counted \in [Requests -> Codes \cup {0}]

\* How main leaves: rateLimiter.Stop is called on the way to "drain" and nowhere
\* else, the listener is closed from then on, and main goes on only when nothing is
\* being handled.
Leaving ==
  /\ main \in {"create", "start", "select", "shutdown"} => stops = 0
  /\ stops = 1 => http = "shutdown"
  /\ stops = 1 /\ main # "drain" => Active = {}

\* The goroutines have returned once main is past the deferred StopBackgroundRefresh.
Stopped ==
  main \in {"deferStop", "deferClose", "waitClose", "exited"} /\ HasWorkers => R!AllDone

\* What CORS and the limiter have not passed on is not counted yet.
Uncounted == \A r \in Requests : stage[r] \in {"cors", "limiter"} => counted[r] = 0

LEMMA TypesStep ==
  ASSUME OwnTypes, Leaving, [Next]_vars
  PROVE  OwnTypes'
<1> USE DEF OwnTypes, Go, requests
<1>1. CASE createCache
  BY <1>1 DEF createCache, CreateCache, getCacheTypeFromConfig
<1>2. CASE start \/ selectDone \/ selectError
  BY <1>2 DEF start, selectDone, selectError
<1>3. CASE Shutdown
  BY <1>3 DEF Shutdown, Leaving
<1>4. CASE drain \/ stopRefresh \/ refreshStopped \/ stop \/ closeCache \/ cacheClosed
  BY <1>4 DEF drain, stopRefresh, refreshStopped, stop, closeCache, cacheClosed
<1>5. CASE signal \/ listen \/ serveReturns \/ Beside(background)
  BY <1>5 DEF signal, listen, serveReturns, Beside
<1>6. ASSUME NEW r \in Requests, NEW p \in Paths, arrive(r, p) PROVE OwnTypes'
  BY <1>6 DEF arrive, Stages
<1>7. ASSUME NEW r \in Requests, NEW next \in Stages, Pass(r, next) PROVE OwnTypes'
  BY <1>7 DEF Pass
<1>8. ASSUME NEW r \in Requests, NEW codes \in SUBSET Codes, Answer(r, codes) PROVE OwnTypes'
  BY <1>8 DEF Answer, Stages
<1>9. ASSUME NEW r \in Requests, metricsMiddleware(r) PROVE OwnTypes'
  BY <1>9 DEF metricsMiddleware, Stages
<1>10. ASSUME NEW r \in Requests, Handle(r) PROVE OwnTypes'
  <2>1. (\E next \in Stages : Pass(r, next)) \/ (\E codes \in SUBSET Codes : Answer(r, codes))
        \/ metricsMiddleware(r)
    BY <1>10, HandleCases
  <2>2. QED
    BY <1>7, <1>8, <1>9, <2>1
<1>11. CASE UNCHANGED vars
  BY <1>11 DEF vars
<1>12. QED
  BY <1>1, <1>2, <1>3, <1>4, <1>5, <1>6, <1>10, <1>11 DEF Next, MainStep

\* A request that is not being handled is not moved by the handlers.
LEMMA HandleActive ==
  ASSUME OwnTypes, NEW r \in Requests, Handle(r)
  PROVE  r \in Active /\ UNCHANGED <<main, kind, http, errCh, stops>>
         /\ \A q \in Requests \ {r} : stage'[q] = stage[q]
<1>1. r \in Active
  BY HandleCases DEF Active
<1>2. UNCHANGED <<main, kind, http, errCh, stops>> /\ \A q \in Requests \ {r} : stage'[q] = stage[q]
  BY HandleCases DEF Pass, Answer, metricsMiddleware, OwnTypes
<1>3. QED
  BY <1>1, <1>2

LEMMA LeavingStep ==
  ASSUME OwnTypes, Leaving, [Next]_vars
  PROVE  Leaving'
<1> USE DEF Leaving, Go, requests
<1>1. CASE createCache \/ start \/ selectDone \/ selectError \/ Shutdown
  <2>1. stops = 0
    BY <1>1 DEF createCache, start, selectDone, selectError, Shutdown
  <2>2. CASE createCache
    <3>1. stops' = stops /\ main' \in {"fatal", "start"}
      BY <2>2 DEF createCache
    <3>2. QED
      BY <2>1, <3>1
  <2>3. CASE start \/ selectDone \/ selectError
    BY <2>1, <2>3 DEF start, selectDone, selectError
  <2>4. CASE Shutdown
    BY <2>1, <2>4 DEF Shutdown
  <2>5. QED
    BY <1>1, <2>2, <2>3, <2>4
<1>2. CASE drain
  BY <1>2 DEF drain, Active
<1>3. CASE stopRefresh \/ refreshStopped \/ stop \/ closeCache \/ cacheClosed
  BY <1>3 DEF stopRefresh, refreshStopped, stop, closeCache, cacheClosed, Active
<1>4. CASE signal \/ listen \/ serveReturns \/ Beside(background)
  BY <1>4 DEF signal, listen, serveReturns, Beside, Active
<1>5. ASSUME NEW r \in Requests, NEW p \in Paths, arrive(r, p) PROVE Leaving'
  BY <1>5 DEF arrive
<1>6. ASSUME NEW r \in Requests, Handle(r) PROVE Leaving'
  BY <1>6, HandleActive
<1>7. CASE UNCHANGED vars
  BY <1>7 DEF vars, Active
<1>8. QED
  BY <1>1, <1>2, <1>3, <1>4, <1>5, <1>6, <1>7 DEF Next, MainStep

\* main waits for its deferred stop, and a goroutine that has returned stays so.
LEMMA StoppedStep ==
  ASSUME OwnTypes, RefreshInv, Stopped, [Next]_vars
  PROVE  Stopped'
<1>1. R!AllDone => R!AllDone'
  BY RefreshInvStep
<1>2. CASE refreshStopped
  <2>1. R!AllDone
    BY <1>2 DEF refreshStopped, RefreshInv, RP!StopHeld, R!AllDone, RP!AllDone
  <2>2. QED
    BY <1>1, <2>1 DEF Stopped
<1>3. CASE stopRefresh
  BY <1>3 DEF stopRefresh, Go, Stopped, HasWorkers
<1>4. CASE stop \/ closeCache \/ cacheClosed
  BY <1>1, <1>4 DEF stop, closeCache, cacheClosed, Go, Stopped, HasWorkers
<1>5. CASE createCache \/ start \/ selectDone \/ selectError \/ Shutdown \/ drain
  BY <1>5 DEF createCache, start, selectDone, selectError, Shutdown, drain, Go, Stopped
<1>6. ASSUME UNCHANGED <<main, kind>> PROVE Stopped'
  BY <1>1, <1>6 DEF Stopped, HasWorkers
<1>7. CASE signal \/ listen \/ serveReturns \/ Beside(background)
  BY <1>6, <1>7 DEF signal, listen, serveReturns, Beside
<1>8. ASSUME NEW r \in Requests, NEW p \in Paths, arrive(r, p) PROVE Stopped'
  BY <1>6, <1>8 DEF arrive
<1>9. ASSUME NEW r \in Requests, Handle(r) PROVE Stopped'
  BY <1>6, <1>9, HandleActive
<1>10. CASE UNCHANGED vars
  BY <1>6, <1>10 DEF vars
<1>11. QED
  BY <1>2, <1>3, <1>4, <1>5, <1>7, <1>8, <1>9, <1>10 DEF Next, MainStep

\* Requests are counted as they are answered.
LEMMA CountedStep ==
  ASSUME OwnTypes, Uncounted, ErrorsCounted, [Next]_vars
  PROVE  Uncounted' /\ ErrorsCounted'
<1> USE DEF Uncounted, ErrorsCounted
<1>1. ASSUME UNCHANGED requests PROVE Uncounted' /\ ErrorsCounted'
  BY <1>1 DEF requests
<1>2. CASE MainStep \/ signal \/ listen \/ serveReturns \/ Beside(background) \/ UNCHANGED vars
  <2>1. UNCHANGED requests
    BY <1>2 DEF MainStep, createCache, start, selectDone, selectError, Shutdown, drain, stopRefresh,
                refreshStopped, stop, closeCache, cacheClosed, Go, signal, listen, serveReturns,
                Beside, vars
  <2>2. QED
    BY <1>1, <2>1
<1>3. ASSUME NEW r \in Requests, NEW p \in Paths, arrive(r, p) PROVE Uncounted' /\ ErrorsCounted'
  BY <1>3 DEF arrive, OwnTypes
<1>4. ASSUME NEW r \in Requests, NEW next \in Stages \ {"idle", "cors", "done"}, Pass(r, next),
             next = "limiter" => stage[r] = "cors"
      PROVE  Uncounted' /\ ErrorsCounted'
  BY <1>4 DEF Pass, OwnTypes
<1>5. ASSUME NEW r \in Requests, NEW codes \in SUBSET Codes, Answer(r, codes),
             stage[r] \in {"cors", "limiter"} => codes \subseteq {200, 429}
      PROVE  Uncounted' /\ ErrorsCounted'
  BY <1>5 DEF Answer, OwnTypes
<1>6. ASSUME NEW r \in Requests, metricsMiddleware(r) PROVE Uncounted' /\ ErrorsCounted'
  BY <1>6 DEF metricsMiddleware, OwnTypes
<1>7. ASSUME NEW r \in Requests, Handle(r) PROVE Uncounted' /\ ErrorsCounted'
  BY <1>4, <1>5, <1>6, <1>7, HandleCases
<1>8. QED
  BY <1>2, <1>3, <1>7 DEF Next

\* The inductive invariant of the process.
Inv == OwnTypes /\ RefreshInv /\ Leaving /\ Stopped

LEMMA InvHolds == Spec => []Inv
<1>1. Init => Inv
  <2>1. Init => OwnTypes
    <3>1. Init => errCh \in BOOLEAN
      BY Zenon DEF Init
    <3>2. QED
      BY <3>1 DEF Init, OwnTypes, Stages, Paths
  <2>2. Init => Leaving /\ Stopped
    BY DEF Init, Leaving, Stopped, Active
  <2>3. QED
    BY <2>1, <2>2, RefreshInvInit DEF Inv
<1>2. Inv /\ [Next]_vars => Inv'
  BY TypesStep, RefreshInvStep, LeavingStep, StoppedStep DEF Inv
<1>3. QED
  BY <1>1, <1>2, PTL DEF Spec

\* Every variable of the process keeps its type, those of the goroutines too; the
\* limiter is stopped at most once on every way out of main, so that its channel is
\* never closed twice.
THEOREM TypeCorrect == Spec => []TypeOK
<1>1. Inv => TypeOK
  BY DEF Inv, OwnTypes, RefreshInv, TypeOK, RP!TypeOK, R!TypeOK
<1>2. QED
  BY <1>1, InvHolds, PTL

\* After a signal the process ends with no request unanswered, and however it ends,
\* with no refresh goroutine running.
THEOREM GracefulCorrect == Spec => []Graceful
<1>1. Inv => Graceful
  BY DEF Inv, Leaving, Stopped, Graceful
<1>2. QED
  BY <1>1, InvHolds, PTL

\* What a handler answers, a recovered panic too, is counted under its code.
THEOREM CountedCorrect == Spec => []ErrorsCounted
<1>1. Init => Uncounted /\ ErrorsCounted
  BY DEF Init, Uncounted, ErrorsCounted
<1>2. Inv /\ Uncounted /\ ErrorsCounted /\ [Next]_vars => Uncounted' /\ ErrorsCounted'
  BY CountedStep DEF Inv
<1>3. QED
  BY <1>1, <1>2, InvHolds, PTL DEF Spec

=============================================================================
