-------------------------- MODULE BackgroundRefresh --------------------------
(***************************************************************************)
(* The background goroutines of FallbackCache (internal/cache/fallback.go):*)
(* refresh workers that are both the producers and the consumers of        *)
(* refreshCh, the cleanup worker, and StopBackgroundRefresh, which waits   *)
(* for all of them while it holds f.mu.                                    *)
(*                                                                         *)
(* Of the in-memory layer only the age of each key is kept.  One pass of a *)
(* worker's loop is a step up to its select, then one step per send or the *)
(* step in which refreshFunc and Set are done.                             *)
(***************************************************************************)
EXTENDS Integers, Sequences, FiniteSets

CONSTANTS
  Keys,
  Workers,      \* RefreshWorkers goroutines
  Stoppers,     \* callers of StopBackgroundRefresh, Close among them
  None,
  ChanCap,      \* capacity of refreshCh (1000 in the code)
  Refreshable   \* keys refreshFunc can return a value for

ASSUME RefreshAssumption ==
  /\ ChanCap \in Nat \ {0}
  /\ Refreshable \subseteq Keys
  /\ None \notin Keys \cup Stoppers

VARIABLES
  age,          \* key -> absent, fresh, expiring (under 10% of its ttl), expired
  refreshCh,    \* the buffered channel
  stopCh,       \* stopCh is closed
  ctxDone,      \* the context of StartBackgroundRefresh is done
  mu,           \* who holds f.mu: a stopper that waits, or None
  pc,           \* worker -> unstarted, select, enqueue, refresh, returned
  todo,         \* worker -> the expiring keys still to send
  work,         \* worker -> the key it refreshes
  cleaner,      \* cleanupWorker: unstarted, select, returned
  stopper       \* stopper -> idle, waiting (in wg.Wait), stopped

vars == <<age, refreshCh, stopCh, ctxDone, mu, pc, todo, work, cleaner, stopper>>
workerVars == <<pc, todo, work>>
stopVars == <<stopCh, mu, stopper>>

-----------------------------------------------------------------------------

Init ==
  /\ age = [k \in Keys |-> "absent"]
  /\ refreshCh = <<>>
  /\ stopCh = FALSE
  /\ ctxDone = FALSE
  /\ mu = None
  /\ pc = [w \in Workers |-> "unstarted"]
  /\ todo = [w \in Workers |-> {}]
  /\ work = [w \in Workers |-> None]
  /\ cleaner = "unstarted"
  /\ stopper = [s \in Stoppers |-> "idle"]

\* Called once; with EnableFallback off nothing is started.
StartBackgroundRefresh ==
  /\ cleaner = "unstarted"
  /\ pc' = [w \in Workers |-> "select"]
  /\ cleaner' = "select"
  /\ UNCHANGED <<age, refreshCh, stopVars, ctxDone, todo, work>>

\* A request stores the key, and time passes for it.
Set(k) ==
  /\ age' = [age EXCEPT ![k] = "fresh"]
  /\ UNCHANGED <<refreshCh, stopVars, ctxDone, workerVars, cleaner>>

Grow(k) ==
  /\ age[k] \in {"fresh", "expiring"}
  /\ age' = [age EXCEPT ![k] = IF @ = "fresh" THEN "expiring" ELSE "expired"]
  /\ UNCHANGED <<refreshCh, stopVars, ctxDone, workerVars, cleaner>>

\* Mutant: StopBackgroundRefresh closes refreshCh too, and an empty closed channel
\* gives its receivers no key.
receiveClosed(w) ==
  /\ pc[w] = "select"
  /\ refreshCh # <<>> \/ stopCh
  /\ work' = [work EXCEPT ![w] = IF refreshCh = <<>> THEN None ELSE Head(refreshCh)]
  /\ refreshCh' = IF refreshCh = <<>> THEN refreshCh ELSE Tail(refreshCh)
  /\ pc' = [pc EXCEPT ![w] = "refresh"]
  /\ UNCHANGED <<age, stopVars, ctxDone, todo, cleaner>>

\* refreshWorker takes a key from the channel.
receiveKey(w) ==
  /\ pc[w] = "select"
  /\ refreshCh # <<>>
  /\ work' = [work EXCEPT ![w] = Head(refreshCh)]
  /\ refreshCh' = Tail(refreshCh)
  /\ pc' = [pc EXCEPT ![w] = "refresh"]
  /\ UNCHANGED <<age, stopVars, ctxDone, todo, cleaner>>

getExpiringKeys == {k \in Keys : age[k] = "expiring"}

\* refreshWorker's ticker fires and there are keys to send.  Every worker has a
\* ticker of its own, so a key can be sent by each of them.
refreshExpiringKeys(w) ==
  /\ pc[w] = "select"
  /\ getExpiringKeys # {}
  /\ todo' = [todo EXCEPT ![w] = getExpiringKeys]
  /\ pc' = [pc EXCEPT ![w] = "enqueue"]
  /\ UNCHANGED <<age, refreshCh, stopVars, ctxDone, work, cleaner>>

\* The key leaves the list, and after the last one the worker selects again.
Sent(w, k) ==
  /\ todo' = [todo EXCEPT ![w] = @ \ {k}]
  /\ pc' = [pc EXCEPT ![w] = IF todo[w] = {k} THEN "select" ELSE "enqueue"]
  /\ UNCHANGED <<age, stopVars, ctxDone, work, cleaner>>

\* Mutant: the default branch is missing and a full channel blocks the worker.
enqueueBlocks(w, k) ==
  /\ pc[w] = "enqueue"
  /\ k \in todo[w]
  /\ Len(refreshCh) < ChanCap
  /\ refreshCh' = Append(refreshCh, k)
  /\ Sent(w, k)

\* The next key is sent, or skipped when the channel is full.
enqueue(w, k) ==
  /\ pc[w] = "enqueue"
  /\ k \in todo[w]
  /\ refreshCh' = IF Len(refreshCh) < ChanCap THEN Append(refreshCh, k) ELSE refreshCh
  /\ Sent(w, k)

\* refreshKey: refreshFunc has the value and it is Set.
refreshSucceeds(w) ==
  /\ pc[w] = "refresh"
  /\ work[w] \in Refreshable
  /\ age' = [age EXCEPT ![work[w]] = "fresh"]
  /\ pc' = [pc EXCEPT ![w] = "select"]
  /\ work' = [work EXCEPT ![w] = None]
  /\ UNCHANGED <<refreshCh, stopVars, ctxDone, todo, cleaner>>

\* refreshKey: refreshFunc returns an error and the key is left as it is.
refreshFails(w) ==
  /\ pc[w] = "refresh"
  /\ pc' = [pc EXCEPT ![w] = "select"]
  /\ work' = [work EXCEPT ![w] = None]
  /\ UNCHANGED <<age, refreshCh, stopVars, ctxDone, todo, cleaner>>

\* The worker's select takes stopCh or the context, though keys may be waiting.
workerReturns(w) ==
  /\ pc[w] = "select"
  /\ stopCh \/ ctxDone
  /\ pc' = [pc EXCEPT ![w] = "returned"]
  /\ UNCHANGED <<age, refreshCh, stopVars, ctxDone, todo, work, cleaner>>

\* cleanupWorker's ticker fires: EvictExpired.
cleanupTick ==
  /\ cleaner = "select"
  /\ age' = [k \in Keys |-> IF age[k] = "expired" THEN "absent" ELSE age[k]]
  /\ UNCHANGED <<refreshCh, stopVars, ctxDone, workerVars, cleaner>>

cleanupReturns ==
  /\ cleaner = "select"
  /\ stopCh \/ ctxDone
  /\ cleaner' = "returned"
  /\ UNCHANGED <<age, refreshCh, stopVars, ctxDone, workerVars>>

\* wg.Wait would not block.
AllDone == cleaner = "returned" /\ \A w \in Workers : pc[w] = "returned"

\* Mutant: f.mu is released before the wait.
stopUnlocked(s) ==
  /\ stopper[s] = "idle"
  /\ cleaner # "unstarted"
  /\ mu = None
  /\ stopCh' = TRUE
  /\ stopper' = [stopper EXCEPT ![s] = IF stopCh THEN "stopped" ELSE "waiting"]
  /\ UNCHANGED <<mu, age, refreshCh, ctxDone, workerVars, cleaner>>

\* StopBackgroundRefresh under f.mu: the first caller closes stopCh and waits,
\* still holding f.mu; one that finds it closed returns.  main reaches its stops
\* only after the start.
StopBackgroundRefresh(s) ==
  /\ stopper[s] = "idle"
  /\ cleaner # "unstarted"
  /\ mu = None
  /\ stopCh' = TRUE
  /\ stopper' = [stopper EXCEPT ![s] = IF stopCh THEN "stopped" ELSE "waiting"]
  /\ mu' = IF stopCh THEN None ELSE s
  /\ UNCHANGED <<age, refreshCh, ctxDone, workerVars, cleaner>>

\* wg.Wait returns, and f.mu is released.
stopReturns(s) ==
  /\ stopper[s] = "waiting"
  /\ AllDone
  /\ stopper' = [stopper EXCEPT ![s] = "stopped"]
  /\ mu' = None
  /\ UNCHANGED <<stopCh, age, refreshCh, ctxDone, workerVars, cleaner>>

\* The signal context of main is done.
cancel ==
  /\ ~ctxDone
  /\ ctxDone' = TRUE
  /\ UNCHANGED <<age, refreshCh, stopVars, workerVars, cleaner>>

WorkerStep(w) ==
  \/ receiveKey(w)
  \/ refreshExpiringKeys(w)
  \/ \E k \in Keys : enqueue(w, k)
  \/ refreshSucceeds(w)
  \/ refreshFails(w)
  \/ workerReturns(w)

StopStep(s) == StopBackgroundRefresh(s) \/ stopReturns(s)

Next ==
  \/ StartBackgroundRefresh
  \/ \E k \in Keys : Set(k) \/ Grow(k)
  \/ \E w \in Workers : WorkerStep(w)
  \/ cleanupTick
  \/ cleanupReturns
  \/ \E s \in Stoppers : StopStep(s)
  \/ cancel

Spec == Init /\ [][Next]_vars

\* Goroutines run; refreshFunc returns, since a Kraken call does.  A select with
\* several ready cases picks at random, so a case that is ready again and again
\* is picked in the end (strong fairness).
Fairness ==
  /\ \A w \in Workers :
       /\ WF_vars(\E k \in Keys : enqueue(w, k))
       /\ WF_vars(refreshSucceeds(w) \/ refreshFails(w))
       /\ SF_vars(workerReturns(w))
  /\ WF_vars(cleanupReturns)
  /\ \A s \in Stoppers : WF_vars(stopReturns(s))

FairSpec == Spec /\ Fairness

-----------------------------------------------------------------------------

\* Every variable has its type.  A worker has keys to send exactly while it sends,
\* and what it refreshes is always a key somebody has sent: refreshCh is left open
\* when the workers are stopped, so none of them receives from a closed channel.
TypeOK ==
  /\ age \in [Keys -> {"absent", "fresh", "expiring", "expired"}]
  /\ refreshCh \in Seq(Keys) /\ Len(refreshCh) <= ChanCap
  /\ {stopCh, ctxDone} \subseteq BOOLEAN
  /\ mu \in Stoppers \cup {None}
  /\ pc \in [Workers -> {"unstarted", "select", "enqueue", "refresh", "returned"}]
  /\ todo \in [Workers -> SUBSET Keys]
  /\ work \in [Workers -> Keys \cup {None}]
  /\ cleaner \in {"unstarted", "select", "returned"}
  /\ stopper \in [Stoppers -> {"idle", "waiting", "stopped"}]
  /\ \A w \in Workers : /\ todo[w] # {} <=> pc[w] = "enqueue"
                        /\ work[w] # None <=> pc[w] = "refresh"

\* When any call of StopBackgroundRefresh has returned, the first or a later one,
\* no worker is running: the caches may be closed.
StoppedMeansQuiet == (\E s \in Stoppers : stopper[s] = "stopped") => AllDone

\* StopBackgroundRefresh returns, though the workers that must stop are the only
\* ones to empty the channel they fill.
StopReturns == \A s \in Stoppers : stopper[s] = "waiting" ~> stopper[s] = "stopped"

\* cmd/server/main.go:59, "Refresh by fetching from Kraken API": what the workers
\* hand to refreshFunc is a key it can fetch.
RefreshFetches == \A w \in Workers : pc[w] = "refresh" => work[w] \in Refreshable

=============================================================================
