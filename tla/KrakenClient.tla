---------------------------- MODULE KrakenClient ----------------------------
(***************************************************************************)
(* One call at a time of Client.GetTickerPrices (internal/kraken), the     *)
(* retries of Backoff.Retry (internal/backoff) around makeRequest.         *)
(*                                                                         *)
(* Time is counted from the start of the call.  It passes only while the   *)
(* call waits for an answer or sleeps; what the code computes in between   *)
(* takes none.                                                             *)
(***************************************************************************)
EXTENDS Integers

CONSTANTS
  BaseDelay, MaxDelay, MaxAttempts, Multiplier,
  JitterPercent,  \* JitterFactor, in percent
  HTTPTimeout,    \* http.Client.Timeout of one attempt
  Statuses        \* the HTTP statuses Kraken may answer with

ASSUME ClientAssumption ==
  /\ {BaseDelay, MaxDelay, MaxAttempts, Multiplier, HTTPTimeout} \subseteq Nat \ {0}
  /\ BaseDelay <= MaxDelay
  /\ JitterPercent \in 0 .. 100
  /\ Statuses \subseteq Nat

VARIABLES
  elapsed,    \* time since the call began
  pc,         \* idle, attempt, waiting (for Kraken), sleeping
  attempt,    \* the loop variable of Retry
  exponential, \* BaseDelay * Multiplier^(attempt - 1)
  mark,       \* when the wait or the sleep began
  delay,      \* what calculateDelay returned for the sleep
  cancelled,  \* the context of the call is done
  outcome,    \* how the last call ended: none yet, prices, error or panic
  last,       \* auxiliary: the status Kraken last answered with, 0 before
  sent        \* auxiliary: the requests of this call that Kraken has seen

vars == <<elapsed, pc, attempt, exponential, mark, delay, cancelled, outcome, last, sent>>

-----------------------------------------------------------------------------

\* Mutant: the limit is forgotten.
Uncapped == exponential

\* The exponential delay, cut at MaxDelay.
Capped == IF exponential > MaxDelay THEN MaxDelay ELSE exponential

Jitter(d) == (d * JitterPercent) \div 100

\* The delays calculateDelay may draw after this attempt.  Its test for a negative
\* delay never fires: the jitter is at most the delay.
calculateDelay == (Capped - Jitter(Capped)) .. (Capped + Jitter(Capped))

\* Mutant: 500 itself is left out.
RetryableAbove(code) == code = 429 \/ (code > 500 /\ code < 600)

IsRetryableHTTPError(code) == code = 429 \/ (code >= 500 /\ code < 600)

-----------------------------------------------------------------------------

Init ==
  /\ elapsed = 0
  /\ pc = "idle"
  /\ attempt = 0
  /\ exponential = BaseDelay
  /\ mark = 0
  /\ delay = 0
  /\ cancelled = FALSE
  /\ outcome = "none"
  /\ last = 0
  /\ sent = 0

\* With no symbols the call returns an error and touches nothing.
GetTickerPrices ==
  /\ pc = "idle"
  /\ pc' = "attempt"
  /\ elapsed' = 0
  /\ attempt' = 1
  /\ exponential' = BaseDelay
  /\ mark' = 0
  /\ delay' = 0
  /\ cancelled' = FALSE
  /\ outcome' = "none"
  /\ last' = 0
  /\ sent' = 0

\* The call ends; what is known of it stays to be looked at.
Return(how) ==
  /\ pc' = "idle"
  /\ outcome' = how
  /\ UNCHANGED <<elapsed, attempt, exponential, mark, delay, cancelled, sent>>

\* The client goes away, or the server shuts down, at any time.
cancel ==
  /\ pc # "idle"
  /\ ~cancelled
  /\ cancelled' = TRUE
  /\ UNCHANGED <<elapsed, pc, attempt, exponential, mark, delay, outcome, last, sent>>

\* http.Do sends the request.  sent counts these calls; a redirect it follows or a
\* request it sends again on a broken connection is net/http's and not counted.
makeRequest ==
  /\ pc = "attempt"
  /\ ~cancelled
  /\ pc' = "waiting"
  /\ mark' = elapsed
  /\ sent' = sent + 1
  /\ UNCHANGED <<elapsed, attempt, exponential, delay, cancelled, outcome, last>>

\* http.Do does not send under a context that is done, and its error is final.
requestRefused ==
  /\ pc = "attempt"
  /\ cancelled
  /\ Return("error")
  /\ UNCHANGED last

\* An answer that ends the call: prices, a payload that cannot be decoded, an
\* error Kraken reports with status 200, or a status that is not retried.
finalAnswer(code) ==
  /\ pc = "waiting"
  /\ ~IsRetryableHTTPError(code)
  /\ \E how \in IF code = 200 THEN {"prices", "error"} ELSE {"error"} : Return(how)
  /\ last' = code

\* Mutant: the loop stops one attempt early.
outOfAttemptsEarly(code) ==
  /\ pc = "waiting"
  /\ IsRetryableHTTPError(code)
  /\ attempt + 1 >= MaxAttempts
  /\ Return("error")
  /\ last' = code

\* A status that would be retried, on the last attempt.
outOfAttempts(code) ==
  /\ pc = "waiting"
  /\ IsRetryableHTTPError(code)
  /\ attempt = MaxAttempts
  /\ Return("error")
  /\ last' = code

\* Mutant: the last attempt is slept after too, and the loop goes on.
backOffAlways(code) ==
  /\ pc = "waiting"
  /\ IsRetryableHTTPError(code)
  /\ \E d \in calculateDelay : delay' = d
  /\ pc' = "sleeping"
  /\ mark' = elapsed
  /\ last' = code
  /\ UNCHANGED <<elapsed, attempt, exponential, cancelled, outcome, sent>>

\* A status that is retried: the delay is drawn and the sleep begins.
backOff(code) ==
  /\ pc = "waiting"
  /\ IsRetryableHTTPError(code)
  /\ attempt # MaxAttempts
  /\ \E d \in calculateDelay : delay' = d
  /\ pc' = "sleeping"
  /\ mark' = elapsed
  /\ last' = code
  /\ UNCHANGED <<elapsed, attempt, exponential, cancelled, outcome, sent>>

\* The random source has no lock and every call draws from it: a draw that races
\* with another can index out of range, and the panic ends the call.
jitterPanics(code) ==
  /\ pc = "waiting"
  /\ IsRetryableHTTPError(code)
  /\ attempt # MaxAttempts
  /\ JitterPercent > 0
  /\ Return("panic")
  /\ last' = code

\* A broken connection, the context while the answer is awaited, or the timeout:
\* none of them is retried.
transportFails ==
  /\ pc = "waiting"
  /\ Return("error")
  /\ last' = 0

\* Mutant: the sleep is not waited for.
timerAtOnce ==
  /\ pc = "sleeping"
  /\ pc' = "attempt"
  /\ attempt' = attempt + 1
  /\ exponential' = Multiplier * exponential
  /\ UNCHANGED <<elapsed, mark, delay, cancelled, outcome, last, sent>>

\* Mutant: only the context ends the sleep.
timerNever ==
  /\ pc = "sleeping"
  /\ cancelled
  /\ Return("error")
  /\ UNCHANGED last

\* The sleep is over.  A context that is done too does not take precedence.
timer ==
  /\ pc = "sleeping"
  /\ elapsed - mark >= delay
  /\ pc' = "attempt"
  /\ attempt' = attempt + 1
  /\ exponential' = Multiplier * exponential
  /\ UNCHANGED <<elapsed, mark, delay, cancelled, outcome, last, sent>>

\* The context is done during the sleep.
ctxDone ==
  /\ pc = "sleeping"
  /\ cancelled
  /\ Return("error")
  /\ UNCHANGED last

Waited == IF pc = "waiting" THEN HTTPTimeout ELSE delay

\* Time passes while the call waits, not beyond what it waits for.
Tick ==
  /\ pc \in {"waiting", "sleeping"}
  /\ ~cancelled
  /\ elapsed - mark < Waited
  /\ elapsed' = elapsed + 1
  /\ UNCHANGED <<pc, attempt, exponential, mark, delay, cancelled, outcome, last, sent>>

Answer(code) ==
  \/ finalAnswer(code)
  \/ outOfAttempts(code)
  \/ backOff(code)
  \/ jitterPanics(code)

Wake == timer \/ ctxDone

Next ==
  \/ GetTickerPrices
  \/ cancel
  \/ makeRequest
  \/ requestRefused
  \/ \E code \in Statuses : Answer(code)
  \/ transportFails
  \/ timer
  \/ ctxDone
  \/ Tick

Spec == Init /\ [][Next]_vars

TimedOut == elapsed - mark >= HTTPTimeout /\ transportFails

\* The goroutine runs, the clock runs, the select takes a ready case, and the
\* HTTP client gives an attempt up when its timeout has passed or its context is
\* done.  Nothing is asked of Kraken.
Fairness ==
  /\ WF_vars(makeRequest \/ requestRefused)
  /\ WF_vars(Wake)
  /\ WF_vars(Tick)
  /\ WF_vars(TimedOut \/ (cancelled /\ transportFails))

FairSpec == Spec /\ Fairness

-----------------------------------------------------------------------------

\* Every variable has its type, and the loop variable of Retry counts the requests
\* Kraken has seen, the one about to be sent included.
TypeOK ==
  /\ {elapsed, exponential, mark, delay, last, sent} \subseteq Nat
  /\ pc \in {"idle", "attempt", "waiting", "sleeping"}
  /\ cancelled \in BOOLEAN
  /\ outcome \in {"none", "prices", "error", "panic"}
  /\ attempt \in 0 .. MaxAttempts
  /\ exponential >= BaseDelay
  /\ pc = "attempt" => sent = attempt - 1
  /\ pc \in {"waiting", "sleeping"} => sent = attempt
  /\ pc = "sleeping" => attempt < MaxAttempts

LongestSleep == MaxDelay + Jitter(MaxDelay)

CallLimit == MaxAttempts * HTTPTimeout + (MaxAttempts - 1) * LongestSleep

\* No call of GetTickerPrices lasts longer than its attempts at their timeout and
\* the sleeps between them at their longest, the jitter on top of MaxDelay
\* included.
CallBounded == elapsed <= CallLimit

ShortestSleep == BaseDelay - Jitter(BaseDelay)

\* However the answers, the draws and a cancellation fall, a call sends Kraken no
\* more than MaxAttempts requests, and those after the first no faster than one
\* for each shortest sleep.
RequestRate ==
  /\ sent <= MaxAttempts
  /\ sent > 0 => (sent - 1) * ShortestSleep <= elapsed

\* README.md:46, "exponential backoff with jitter for 429/5xx from Kraken".
Throttled == {429} \cup 500 .. 599

\* A request is repeated only after Kraken throttled or failed it, and a throttled
\* call ends only once it is out of attempts, unless it was cancelled or its
\* draw of the jitter raced with another's.
RetriesExactly ==
  [][/\ sent' > sent /\ sent > 0 => last \in Throttled
     /\ pc # "idle" /\ outcome' = "error" /\ last' \in Throttled /\ ~cancelled =>
          sent = MaxAttempts]_vars

\* Every call of GetTickerPrices returns, even if Kraken never answers.
EveryCallReturns == pc # "idle" ~> pc = "idle"

=============================================================================
