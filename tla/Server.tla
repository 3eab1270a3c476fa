------------------------------- MODULE Server -------------------------------
(***************************************************************************)
(* The process: main (cmd/server/main.go) from the creation of its cache   *)
(* to its last deferred call, the HTTP server with its middleware and      *)
(* handlers (internal/httpserver/server.go), the readiness checks          *)
(* (internal/health), and the refresh goroutines of the cache, which are   *)
(* those of BackgroundRefresh: main's signal context is their context and  *)
(* main's two deferred calls are their stoppers.                           *)
(*                                                                         *)
(* A request is at a stage of its way through the handlers; what a stage   *)
(* decides on (the limiter, the query, the cache, Kraken) is left open, so *)
(* that it may answer with any of its status codes or pass the request on. *)
(* net/http is external: Shutdown closes the listener and waits until no   *)
(* request is being handled, and ListenAndServe returns as soon as the     *)
(* listener is closed.                                                     *)
(***************************************************************************)
EXTENDS Integers, Sequences, FiniteSets

CONSTANTS Requests, Keys, Workers, None, ChanCap, Refreshable, EnableFallback

ASSUME ServerAssumption ==
  /\ EnableFallback \in BOOLEAN
  /\ ChanCap \in Nat \ {0}
  /\ Refreshable \subseteq Keys
  /\ None \notin Keys \cup {"deferred", "Close"}

VARIABLES
  main,         \* where main is
  kind,         \* the cache it made: none, memory, redis, fallback
  http,         \* the server: none, starting, listening, failed, orphaned, shutdown
  errCh,        \* errCh holds what Start returned
  stops,        \* times rateLimiter.Stop was called: the second panics
  stage,        \* request -> idle, a stage of its handling, done
  path,         \* request -> the endpoint it asks for
  status,       \* request -> the status code it is answered with, or 0
  counted,      \* request -> the code HTTPRequests counted it under, or 0
  age, refreshCh, stopCh, ctxDone, mu, pc, todo, work, cleaner, stopper

refresh == <<age, refreshCh, stopCh, ctxDone, mu, pc, todo, work, cleaner, stopper>>
requests == <<stage, path, status, counted>>
vars == <<main, kind, http, errCh, stops, requests, refresh>>

R == INSTANCE BackgroundRefresh WITH Stoppers <- {"deferred", "Close"}

Stages == {"idle", "cors", "limiter", "mux", "readCache", "fetch", "writeCache", "probeSet",
           "probeGet", "probeKraken", "unhealthy", "metrics", "done"}
Paths == {"ltp", "health", "ready", "openapi", "docs", "metrics", "other"}

\* Endpoints the limiter lets through unasked.
Exempt == {"health", "ready", "metrics"}

\* What http.ServeFile, promhttp and the mux, for a path it does not know, answer.
ServeFile == {200, 206, 304, 403, 404, 416, 500}
Promhttp == {200, 500}
NotFound == {301, 404}

Codes == ServeFile \cup Promhttp \cup NotFound \cup {400, 405, 429, 503}

Active == {r \in Requests : stage[r] \notin {"idle", "done"}}

\* A process that has ended does nothing.
Alive == main \notin {"exited", "fatal"}

-----------------------------------------------------------------------------

Init ==
  /\ main = "create" /\ kind = "none" /\ http = "none" /\ errCh = FALSE /\ stops = 0
  /\ stage = [r \in Requests |-> "idle"]
  /\ path = [r \in Requests |-> "ltp"]
  /\ status = [r \in Requests |-> 0]
  /\ counted = [r \in Requests |-> 0]
  /\ R!Init

\* CACHE_TYPE, if it names a type; else Redis is used when its URL is not the default.
getCacheTypeFromConfig(env, ownURL) ==
  IF env # "" THEN env ELSE IF ownURL THEN "fallback" ELSE "memory"

\* What CreateCache returns, with Redis answering NewRedisCache's Ping or not.
CreateCache(type, redisUp) ==
  CASE type = "memory" -> "memory"
    [] type = "redis" -> IF redisUp THEN "redis" ELSE "none"
    [] type = "fallback" -> IF redisUp THEN "fallback" ELSE "memory"

createCache ==
  /\ main = "create"
  /\ \E env \in {"", "memory", "redis", "fallback"}, ownURL, redisUp \in BOOLEAN :
       kind' = CreateCache(getCacheTypeFromConfig(env, ownURL), redisUp)
  /\ main' = IF kind' = "none" THEN "fatal" ELSE "start"
  /\ UNCHANGED <<http, errCh, stops, requests, refresh>>

\* Only FallbackCache has goroutines, and only if they are enabled.
HasWorkers == kind = "fallback" /\ EnableFallback

\* main goes on to the next place.
Go(place) == main' = place /\ UNCHANGED <<kind, stops, requests>>

\* main asks for signals, starts the refresh goroutines and the server's, and
\* waits in its select.
start ==
  /\ main = "start"
  /\ IF HasWorkers THEN R!StartBackgroundRefresh ELSE UNCHANGED refresh
  /\ http' = "starting"
  /\ Go("select")
  /\ UNCHANGED errCh

\* SIGINT or SIGTERM.
signal ==
  /\ main \notin {"create", "start"}
  /\ R!cancel
  /\ UNCHANGED <<main, kind, http, errCh, stops, requests>>

\* ListenAndServe listens.
listen ==
  /\ http = "starting"
  /\ http' = "listening"
  /\ UNCHANGED <<main, kind, errCh, stops, requests, refresh>>

\* ListenAndServe returns: it cannot listen, or it can accept no more and leaves
\* its connections behind, or it was shut down.
serveReturns ==
  /\ http \in {"starting", "listening", "shutdown"}
  /\ ~errCh
  /\ errCh' = TRUE
  /\ http' = IF http = "starting" THEN "failed"
             ELSE IF http = "listening" THEN "orphaned" ELSE "shutdown"
  /\ UNCHANGED <<main, kind, stops, requests, refresh>>

\* Mutant: Shutdown is tried once more while it waits.
shutdownAgain ==
  /\ main \in {"shutdown", "drain"}
  /\ stops' = stops + 1
  /\ http' = "shutdown"
  /\ main' = "drain"
  /\ UNCHANGED <<kind, errCh, requests, refresh>>

selectDone ==
  /\ main = "select"
  /\ ctxDone
  /\ Go("shutdown")
  /\ UNCHANGED <<http, errCh, refresh>>

selectError ==
  /\ main = "select"
  /\ errCh
  /\ errCh' = FALSE
  /\ Go("deferRefresh")
  /\ UNCHANGED <<http, refresh>>

\* Shutdown stops the limiter's cleanup and closes the listener and idle connections.
Shutdown ==
  /\ main = "shutdown"
  /\ stops' = stops + 1
  /\ http' = "shutdown"
  /\ main' = "drain"
  /\ UNCHANGED <<kind, errCh, requests, refresh>>

\* Mutant: the requests in flight are not waited for.
drainAtOnce ==
  /\ main = "drain"
  /\ Go("deferRefresh")
  /\ UNCHANGED <<http, errCh, refresh>>

\* http.Shutdown, with a context that is never done, returns.
drain ==
  /\ main = "drain"
  /\ Active = {}
  /\ Go("deferRefresh")
  /\ UNCHANGED <<http, errCh, refresh>>

\* Mutant: the goroutines are waited for and not told to stop.
awaitWorkers ==
  /\ main = "deferRefresh"
  /\ HasWorkers => R!AllDone
  /\ Go("deferStop")
  /\ UNCHANGED <<http, errCh, refresh>>

\* The deferred calls, last one first: StopBackgroundRefresh;
stopRefresh ==
  /\ main = "deferRefresh"
  /\ IF HasWorkers THEN R!StopBackgroundRefresh("deferred") ELSE UNCHANGED refresh
  /\ Go(IF HasWorkers THEN "waitRefresh" ELSE "deferStop")
  /\ UNCHANGED <<http, errCh>>

refreshStopped ==
  /\ main = "waitRefresh"
  /\ stopper["deferred"] = "stopped"
  /\ Go("deferStop")
  /\ UNCHANGED <<http, errCh, refresh>>

\* stop, which ends the signal context;
stop ==
  /\ main = "deferStop"
  /\ ctxDone' = TRUE
  /\ Go("deferClose")
  /\ UNCHANGED <<http, errCh, age, refreshCh, stopCh, mu, pc, todo, work, cleaner, stopper>>

\* and Close, which calls StopBackgroundRefresh again and closes both layers.
closeCache ==
  /\ main = "deferClose"
  /\ IF HasWorkers THEN R!StopBackgroundRefresh("Close") ELSE UNCHANGED refresh
  /\ Go(IF HasWorkers THEN "waitClose" ELSE "exited")
  /\ UNCHANGED <<http, errCh>>

cacheClosed ==
  /\ main = "waitClose"
  /\ stopper["Close"] = "stopped"
  /\ Go("exited")
  /\ UNCHANGED <<http, errCh, refresh>>

-----------------------------------------------------------------------------

\* The server reads a request, the first or the next one of its connection.  While
\* Shutdown waits, the first one of a connection that was just accepted is still read.
arrive(r, p) ==
  /\ r \notin Active
  /\ \/ http \in {"listening", "orphaned"}
     \/ http = "shutdown" /\ main = "drain" /\ stage[r] = "idle"
  /\ stage' = [stage EXCEPT ![r] = "cors"]
  /\ path' = [path EXCEPT ![r] = p]
  /\ status' = [status EXCEPT ![r] = 0]
  /\ counted' = [counted EXCEPT ![r] = 0]
  /\ UNCHANGED <<main, kind, http, errCh, stops, refresh>>

\* r goes on to another stage.
Pass(r, next) ==
  /\ stage' = [stage EXCEPT ![r] = next]
  /\ UNCHANGED <<main, kind, http, errCh, stops, path, status, counted, refresh>>

\* r is answered with one of codes; metricsMiddleware is next, if it was reached.
Answer(r, codes) ==
  /\ \E code \in codes : status' = [status EXCEPT ![r] = code]
  /\ stage' = [stage EXCEPT ![r] = IF @ \in {"cors", "limiter"} THEN "done" ELSE "metrics"]
  /\ UNCHANGED <<main, kind, http, errCh, stops, path, counted, refresh>>

\* OPTIONS is answered at once.
cors(r) ==
  /\ stage[r] = "cors"
  /\ Pass(r, "limiter") \/ Answer(r, {200})

rateLimitMiddleware(r) ==
  /\ stage[r] = "limiter"
  /\ Pass(r, "mux") \/ (path[r] \notin Exempt /\ Answer(r, {429}))

\* The mux has found the handler of endpoint p.
Routed(r, p) == stage[r] = "mux" /\ path[r] = p

\* Another method than GET, or no pairs asked for; else GetLTP is called.
handleLTP(r) ==
  /\ Routed(r, "ltp")
  /\ Answer(r, {400, 405}) \/ Pass(r, "readCache")

\* GetLTP refuses a pair or looks up the cache; it calls Kraken if it must, and
\* stores the prices, up to one that Kraken has not returned.
GetLTP(r) ==
  \/ stage[r] = "readCache" /\ (Answer(r, {200, 400}) \/ Pass(r, "fetch"))
  \/ stage[r] = "fetch" /\ (Answer(r, {500}) \/ Pass(r, "writeCache"))
  \/ stage[r] = "writeCache" /\ Answer(r, {200, 400})

handleHealth(r) == Routed(r, "health") /\ Answer(r, {200, 405})

handleReady(r) == Routed(r, "ready") /\ (Answer(r, {405}) \/ Pass(r, "probeSet"))

\* The first check writes a key of its own and reads it back: found, or lost.
LegacyCacheCheck(r) ==
  \/ stage[r] = "probeSet" /\ Pass(r, "probeGet")
  \/ stage[r] = "probeGet" /\ \E next \in {"probeKraken", "unhealthy"} : Pass(r, next)

\* The second one calls Kraken, for two seconds at most, whatever the first has
\* found, which it cannot mend.
KrakenCheck(r) ==
  \/ stage[r] = "probeKraken" /\ Answer(r, {200, 503})
  \/ stage[r] = "unhealthy" /\ Answer(r, {503})

\* All the checks main has added, one after the other.
ReadinessCheck(r) == LegacyCacheCheck(r) \/ KrakenCheck(r)

handleOpenAPI(r) == Routed(r, "openapi") /\ Answer(r, {404, 405} \cup ServeFile)

handleSwaggerUI(r) == Routed(r, "docs") /\ Answer(r, {200, 405})

promhttpHandler(r) == Routed(r, "metrics") /\ Answer(r, Promhttp)

notFound(r) == Routed(r, "other") /\ Answer(r, NotFound)

\* Mutant: recovery is outside metricsMiddleware, which a panic then skips.
recoveryOutside(r) ==
  /\ stage[r] \in {"fetch", "probeKraken", "unhealthy"}
  /\ status' = [status EXCEPT ![r] = 500]
  /\ stage' = [stage EXCEPT ![r] = "done"]
  /\ UNCHANGED <<main, kind, http, errCh, stops, path, counted, refresh>>

\* The handler panics while it draws the jitter of a retry, and is recovered.
recovery(r) ==
  /\ stage[r] \in {"fetch", "probeKraken", "unhealthy"}
  /\ Answer(r, {500})

\* metricsMiddleware counts the request when its handler has returned.
metricsMiddleware(r) ==
  /\ stage[r] = "metrics"
  /\ counted' = [counted EXCEPT ![r] = status[r]]
  /\ stage' = [stage EXCEPT ![r] = "done"]
  /\ UNCHANGED <<main, kind, http, errCh, stops, path, status, refresh>>

\* Steps of the cache's goroutines, next to which nothing else moves.
Beside(step) == Alive /\ step /\ UNCHANGED <<main, kind, http, errCh, stops, requests>>

\* Keys are stored by requests, and grow old.
cached(k) ==
  \/ R!Set(k) /\ \E r \in Requests : stage[r] \in {"writeCache", "probeSet"}
  \/ R!Grow(k)

background ==
  \/ \E k \in Keys : cached(k)
  \/ \E w \in Workers : R!WorkerStep(w)
  \/ R!cleanupTick
  \/ R!cleanupReturns
  \/ \E s \in {"deferred", "Close"} : R!stopReturns(s)

MainStep ==
  \/ createCache
  \/ start
  \/ selectDone
  \/ selectError
  \/ Shutdown
  \/ drain
  \/ stopRefresh
  \/ refreshStopped
  \/ stop
  \/ closeCache
  \/ cacheClosed

Handle(r) ==
  \/ cors(r)
  \/ rateLimitMiddleware(r)
  \/ handleLTP(r)
  \/ GetLTP(r)
  \/ handleHealth(r)
  \/ handleReady(r)
  \/ ReadinessCheck(r)
  \/ handleOpenAPI(r)
  \/ handleSwaggerUI(r)
  \/ promhttpHandler(r)
  \/ notFound(r)
  \/ recovery(r)
  \/ metricsMiddleware(r)

Next ==
  /\ Alive
  /\ \/ MainStep
     \/ signal
     \/ listen
     \/ serveReturns
     \/ \E r \in Requests, p \in Paths : arrive(r, p)
     \/ \E r \in Requests : Handle(r)
     \/ Beside(background)

Spec == Init /\ [][Next]_vars

\* main and the handlers go on (a Kraken call returns), and the goroutines of the
\* cache run as BackgroundRefresh assumes; a select picks among what is ready at
\* random, so that a worker takes its stop in the end (strong fairness).  Nothing
\* is assumed of signals, of requests and of the errors of the server.
Fairness ==
  /\ WF_vars(Alive /\ MainStep)
  /\ \A r \in Requests : WF_vars(Alive /\ Handle(r))
  /\ \A w \in Workers :
       /\ WF_vars(Beside(\E k \in Keys : R!enqueue(w, k)))
       /\ WF_vars(Beside(R!refreshSucceeds(w) \/ R!refreshFails(w)))
       /\ SF_vars(Beside(R!workerReturns(w)))
  /\ WF_vars(Beside(R!cleanupReturns))
  /\ \A s \in {"deferred", "Close"} : WF_vars(Beside(R!stopReturns(s)))

FairSpec == Spec /\ Fairness

-----------------------------------------------------------------------------

\* Every variable has its type; rateLimiter.Stop, which closes a channel, is called
\* at most once on every way out of main.
TypeOK ==
  /\ main \in {"create", "start", "select", "shutdown", "drain", "deferRefresh",
               "waitRefresh", "deferStop", "deferClose", "waitClose", "exited", "fatal"}
  /\ kind \in {"none", "memory", "redis", "fallback"}
  /\ http \in {"none", "starting", "listening", "failed", "orphaned", "shutdown"}
  /\ errCh \in BOOLEAN
  /\ stops \in 0 .. 1
  /\ stage \in [Requests -> Stages]
  /\ path \in [Requests -> Paths]
  /\ status \in [Requests -> Codes \cup {0}]
  /\ counted \in [Requests -> Codes \cup {0}]
  /\ R!TypeOK

\* README.md:222, "Graceful shutdown on SIGINT/SIGTERM": when the process ends
\* after a signal, every request the server had read is answered; and however it
\* ends, no refresh goroutine is left to use the closed caches.
Graceful ==
  main = "exited" => /\ stops = 1 => Active = {}
                     /\ HasWorkers => R!AllDone

\* An error a handler answers with, a recovered panic's 500 too, is counted in
\* HTTPRequests under the code the client was sent; only what CORS or the limiter
\* answer is not counted.
ErrorsCounted ==
  \A r \in Requests : stage[r] = "done" =>
    \/ counted[r] = status[r]
    \/ counted[r] = 0 /\ status[r] \in {200, 429}

\* Once main has left its select, by a signal or an error of the server, the
\* process ends: neither the requests in flight nor the goroutines of the cache
\* hold it up for ever.
ProcessEnds == main \in {"shutdown", "deferRefresh"} ~> main = "exited"

\* A request that was read is answered and its handling ends, unless the process
\* ends first, which it does without waiting only after an error of the server.
RequestsEnd ==
  \A r \in Requests : stage[r] = "cors" ~> (stage[r] = "done" \/ (main = "exited" /\ stops = 0))

=============================================================================
