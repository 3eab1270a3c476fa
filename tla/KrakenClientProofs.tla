------------------------- MODULE KrakenClientProofs -------------------------
(***************************************************************************)
(* How long a call of GetTickerPrices can take and how fast it can ask     *)
(* Kraken, for every configuration of the backoff.                         *)
(***************************************************************************)
EXTENDS KrakenClient, TLAPS

\* The types of the configuration, and the bounds of the sleeps.
LEMMA Constants ==
  /\ BaseDelay \in Nat \ {0} /\ MaxDelay \in Nat \ {0} /\ MaxAttempts \in Nat \ {0}
  /\ Multiplier \in Nat \ {0} /\ HTTPTimeout \in Nat \ {0} /\ JitterPercent \in 0 .. 100
  /\ BaseDelay <= MaxDelay /\ Statuses \subseteq Nat
BY ClientAssumption

\* Whole division rounds down.
LEMMA DivBounds ==
  ASSUME NEW x \in Nat
  PROVE  /\ x \div 100 \in Nat
         /\ (x \div 100) * 100 <= x
         /\ x < (x \div 100) * 100 + 100
OBVIOUS

\* Multiplication by a natural number is monotonic.
LEMMA MulMono ==
  ASSUME NEW a \in Int, NEW b \in Int, NEW c \in Nat, a <= b
  PROVE  a * c <= b * c
<1>1. PICK d \in Nat : b = a + d
  <2>1. b - a \in Nat /\ b = a + (b - a)
    OBVIOUS
  <2>2. QED
    BY <2>1
<1>2. d * c \in Nat
  OBVIOUS
<1>3. b * c = a * c + d * c
  BY <1>1
<1>4. QED
  BY <1>2, <1>3

\* Multiplication one step further.
LEMMA MulStep ==
  ASSUME NEW a \in Int, NEW c \in Int
  PROVE  a * c \in Int /\ (a + 1) * c = a * c + c /\ (a - 1) * c = a * c - c
OBVIOUS

\* The jitter grows with the delay, and no faster than it.
LEMMA JitterMono ==
  ASSUME NEW d \in Nat, NEW e \in Nat, d <= e
  PROVE  /\ Jitter(d) \in Nat /\ Jitter(e) \in Nat
         /\ Jitter(d) <= Jitter(e)
         /\ Jitter(e) - Jitter(d) <= e - d
         /\ Jitter(e) <= e
<1> DEFINE J == JitterPercent
           x == d * J
           y == e * J
           p == x \div 100
           q == y \div 100
<1>1. J \in Nat /\ J <= 100
  BY Constants
<1>2. x \in Nat /\ y \in Nat /\ x <= y
  BY <1>1, MulMono
<1>3. y <= x + (e - d) * 100
  <2>1. y = x + (e - d) * J
    BY <1>1
  <2>2. J * (e - d) <= 100 * (e - d)
    BY <1>1, MulMono
  <2>3. (e - d) * J = J * (e - d)
    BY <1>1
  <2>4. QED
    BY <1>1, <1>2, <2>1, <2>2, <2>3
<1>4. y <= e * 100
  BY <1>1, MulMono
<1>5. /\ p \in Nat /\ p * 100 <= x /\ x < p * 100 + 100
      /\ q \in Nat /\ q * 100 <= y /\ y < q * 100 + 100
  BY <1>2, DivBounds
<1>6. Jitter(d) = p /\ Jitter(e) = q
  BY DEF Jitter
<1> HIDE DEF x, y, p, q, J
<1>7. p <= q /\ q - p <= e - d /\ q <= e
  BY <1>2, <1>3, <1>4, <1>5
<1>8. QED
  BY <1>5, <1>6, <1>7

\* Every delay calculateDelay can draw is between the shortest and the longest
\* sleep.
LEMMA Delays ==
  ASSUME TypeOK, NEW d \in calculateDelay
  PROVE  /\ d \in Nat
         /\ ShortestSleep \in Nat /\ LongestSleep \in Nat
         /\ ShortestSleep <= d /\ d <= LongestSleep
<1>1. Capped \in Nat /\ BaseDelay <= Capped /\ Capped <= MaxDelay
  BY Constants DEF Capped, TypeOK
<1>2. d \in (Capped - Jitter(Capped)) .. (Capped + Jitter(Capped))
  BY DEF calculateDelay
<1> HIDE DEF Capped, calculateDelay
<1>3. /\ Jitter(BaseDelay) \in Nat /\ Jitter(Capped) \in Nat /\ Jitter(BaseDelay) <= BaseDelay
      /\ Jitter(Capped) - Jitter(BaseDelay) <= Capped - BaseDelay /\ Jitter(Capped) <= Capped
  <2>1. Jitter(BaseDelay) <= BaseDelay
    BY Constants, JitterMono
  <2>2. QED
    BY <1>1, <2>1, Constants, JitterMono
<1>4. Jitter(MaxDelay) \in Nat /\ Jitter(Capped) <= Jitter(MaxDelay)
  BY <1>1, Constants, JitterMono
<1>5. QED
  BY <1>1, <1>2, <1>3, <1>4, Constants DEF ShortestSleep, LongestSleep

-----------------------------------------------------------------------------

\* TypeOK holds before the first call.
LEMMA TypeInit == Init => TypeOK
<1> SUFFICES ASSUME Init PROVE TypeOK
  OBVIOUS
<1>1. cancelled \in BOOLEAN
  BY Zenon DEF Init
<1>2. QED
  BY <1>1, Constants DEF Init, TypeOK

\* Every step keeps TypeOK.
LEMMA TypeStep == TypeOK /\ [Next]_vars => TypeOK'
<1> SUFFICES ASSUME TypeOK, [Next]_vars PROVE TypeOK'
  OBVIOUS
<1> USE Constants
<1>1. CASE GetTickerPrices
  <2>1. cancelled' \in BOOLEAN
    BY <1>1, Zenon DEF GetTickerPrices
  <2>2. QED
    BY <1>1, <2>1 DEF GetTickerPrices, TypeOK
<1>2. CASE cancel
  BY <1>2 DEF cancel, TypeOK
<1>3. CASE makeRequest
  BY <1>3 DEF makeRequest, TypeOK
<1>4. CASE requestRefused
  BY <1>4 DEF requestRefused, Return, TypeOK
<1>5. ASSUME NEW code \in Statuses, finalAnswer(code)
      PROVE  TypeOK'
  BY <1>5 DEF finalAnswer, Return, TypeOK
<1>6. ASSUME NEW code \in Statuses, outOfAttempts(code)
      PROVE  TypeOK'
  BY <1>6 DEF outOfAttempts, Return, TypeOK
<1>7. ASSUME NEW code \in Statuses, backOff(code)
      PROVE  TypeOK'
  <2>1. delay' \in Nat
    BY <1>7, Delays DEF backOff
  <2>2. QED
    BY <1>7, <2>1 DEF backOff, TypeOK
<1>8. ASSUME NEW code \in Statuses, jitterPanics(code)
      PROVE  TypeOK'
  BY <1>8 DEF jitterPanics, Return, TypeOK
<1>9. CASE transportFails
  BY <1>9 DEF transportFails, Return, TypeOK
<1>10. CASE timer
  <2>1. exponential \in Nat /\ exponential >= BaseDelay
    BY DEF TypeOK
  <2>2. Multiplier * exponential \in Nat /\ Multiplier * exponential >= BaseDelay
    <3>1. 1 * exponential <= Multiplier * exponential
      BY <2>1, MulMono
    <3>2. QED
      BY <2>1, <3>1
  <2>3. QED
    BY <1>10, <2>2 DEF timer, TypeOK
<1>11. CASE ctxDone
  BY <1>11 DEF ctxDone, Return, TypeOK
<1>12. CASE Tick
  BY <1>12 DEF Tick, TypeOK
<1>13. CASE UNCHANGED vars
  BY <1>13 DEF vars, TypeOK
<1>14. QED
  BY <1>1, <1>2, <1>3, <1>4, <1>5, <1>6, <1>7, <1>8, <1>9, <1>10, <1>11, <1>12, <1>13
  DEF Next, Answer

\* TypeOK holds throughout: in particular Retry never counts beyond MaxAttempts.
THEOREM TypeCorrect == Spec => []TypeOK
<1>1. QED
  BY TypeInit, TypeStep, PTL DEF Spec

-----------------------------------------------------------------------------

\* An attempt with the sleep after it, at their longest.
Round == HTTPTimeout + LongestSleep

\* The inductive strengthening of CallBounded: where the call is in the loop says
\* how much of its time it may have used.
Budget ==
  /\ mark <= elapsed
  /\ pc = "idle" => elapsed <= CallLimit
  /\ pc # "idle" => attempt >= 1
  /\ pc = "attempt" => elapsed <= (attempt - 1) * Round
  /\ pc = "waiting" => mark <= (attempt - 1) * Round /\ elapsed <= mark + HTTPTimeout
  /\ pc = "sleeping" => /\ mark <= (attempt - 1) * Round + HTTPTimeout
                        /\ delay <= LongestSleep
                        /\ elapsed <= mark + delay

\* The limit of a call has room for the rounds before an attempt and the attempt.
LEMMA LimitCovers ==
  /\ CallLimit \in Nat /\ Round \in Nat /\ LongestSleep \in Nat /\ ShortestSleep \in Nat
  /\ \A a \in 1 .. MaxAttempts :
       (a - 1) * Round \in Nat /\ (a - 1) * Round + HTTPTimeout <= CallLimit
<1>1. LongestSleep \in Nat /\ ShortestSleep \in Nat
  <2>1. \A d \in Nat : Jitter(d) \in Nat /\ Jitter(d) <= d
    BY JitterMono
  <2>2. QED
    BY <2>1, Constants DEF LongestSleep, ShortestSleep
<1>2. Round \in Nat
  BY <1>1, Constants DEF Round
<1>3. CallLimit = (MaxAttempts - 1) * Round + HTTPTimeout
  <2>1. (MaxAttempts - 1) * Round
          = (MaxAttempts - 1) * HTTPTimeout + (MaxAttempts - 1) * LongestSleep
    BY <1>1, Constants DEF Round
  <2>2. (MaxAttempts - 1) * HTTPTimeout = MaxAttempts * HTTPTimeout - HTTPTimeout
    BY Constants, MulStep
  <2>3. (MaxAttempts - 1) * LongestSleep \in Int /\ MaxAttempts * HTTPTimeout \in Int
    BY <1>1, Constants
  <2>4. QED
    BY <2>1, <2>2, <2>3, Constants DEF CallLimit
<1>4. ASSUME NEW a \in 1 .. MaxAttempts
      PROVE  (a - 1) * Round \in Nat /\ (a - 1) * Round <= (MaxAttempts - 1) * Round
  <2>1. (a - 1) * Round \in Nat
    BY <1>2, Constants
  <2>2. QED
    BY <1>2, <2>1, Constants, MulMono
<1>5. (MaxAttempts - 1) * Round \in Nat
  BY <1>4, Constants
<1>6. QED
  BY <1>1, <1>2, <1>3, <1>4, <1>5, Constants

\* Every step keeps within the budget.
LEMMA BudgetStep == TypeOK /\ Budget /\ [Next]_vars => Budget'
<1> SUFFICES ASSUME TypeOK, Budget, [Next]_vars PROVE Budget'
  OBVIOUS
<1> USE Constants, LimitCovers
<1>1. CASE GetTickerPrices
  BY <1>1 DEF GetTickerPrices, Budget
<1>2. CASE cancel
  BY <1>2 DEF cancel, Budget
<1>3. CASE makeRequest
  BY <1>3 DEF makeRequest, TypeOK, Budget
<1>4. CASE Return("error") /\ pc = "attempt"
  BY <1>4 DEF Return, TypeOK, Budget
<1>5. ASSUME NEW how, Return(how), pc = "waiting"
      PROVE  Budget'
  BY <1>5 DEF Return, TypeOK, Budget
<1>6. ASSUME NEW code \in Statuses, backOff(code)
      PROVE  Budget'
  <2>1. delay' \in Nat /\ delay' <= LongestSleep
    BY <1>6, Delays DEF backOff
  <2>2. QED
    BY <1>6, <2>1 DEF backOff, TypeOK, Budget
<1>7. ASSUME pc = "sleeping"
      PROVE  /\ attempt \in 1 .. MaxAttempts - 1
             /\ elapsed <= (attempt - 1) * Round + Round
             /\ (attempt - 1) * Round + Round = attempt * Round
  <2>1. attempt \in 1 .. MaxAttempts - 1
    BY <1>7 DEF TypeOK, Budget
  <2>2. (attempt - 1) * Round = attempt * Round - Round /\ attempt * Round \in Int
    BY <2>1, MulStep
  <2>3. QED
    BY <1>7, <2>1, <2>2 DEF TypeOK, Budget, Round
<1>8. CASE timer
  <2>1. attempt' - 1 = attempt /\ pc = "sleeping"
    BY <1>8 DEF timer, TypeOK
  <2>2. QED
    BY <1>7, <1>8, <2>1 DEF timer, TypeOK, Budget
<1>9. CASE ctxDone
  <2>1. attempt + 1 \in 1 .. MaxAttempts /\ (attempt + 1) - 1 = attempt
    BY <1>7, <1>9 DEF ctxDone
  <2>2. attempt * Round + HTTPTimeout <= CallLimit /\ attempt * Round \in Nat
    BY <2>1
  <2>3. elapsed <= CallLimit
    BY <1>7, <1>9, <2>2 DEF ctxDone, TypeOK
  <2>4. QED
    BY <1>9, <2>3 DEF ctxDone, Return, Budget
<1>10. CASE Tick
  BY <1>10 DEF Tick, Waited, TypeOK, Budget
<1>11. CASE UNCHANGED vars
  BY <1>11 DEF vars, Budget
<1>12. QED
  BY <1>1, <1>2, <1>3, <1>4, <1>5, <1>6, <1>8, <1>9, <1>10, <1>11
  DEF Next, Answer, requestRefused, finalAnswer, outOfAttempts, jitterPanics, transportFails

\* A call of GetTickerPrices ends within its attempts at their timeout and its
\* sleeps at their longest.
THEOREM CallTimeBounded == Spec => []CallBounded
<1>1. Init => Budget
  BY LimitCovers, Constants DEF Init, Budget
<1>2. TypeOK /\ Budget => CallBounded
  <2> SUFFICES ASSUME TypeOK, Budget PROVE CallBounded
    OBVIOUS
  <2>1. CASE pc = "sleeping"
    <3>1. attempt + 1 \in 1 .. MaxAttempts /\ (attempt + 1) - 1 = attempt
      BY <2>1, Constants DEF TypeOK, Budget
    <3>2. attempt * Round + HTTPTimeout <= CallLimit /\ attempt * Round \in Nat
      BY <3>1, LimitCovers
    <3>3. (attempt - 1) * Round = attempt * Round - Round
      BY <3>1, LimitCovers, MulStep
    <3>4. QED
      BY <2>1, <3>1, <3>2, <3>3, Constants, LimitCovers DEF TypeOK, Budget, CallBounded, Round
  <2>2. CASE pc # "sleeping"
    BY <2>2, Constants, LimitCovers DEF TypeOK, Budget, CallBounded
  <2>3. QED
    BY <2>1, <2>2
<1>3. QED
  BY <1>1, <1>2, TypeCorrect, BudgetStep, PTL DEF Spec

-----------------------------------------------------------------------------

\* The inductive strengthening of RequestRate: each request sent has been paid for
\* with a sleep, except the last one until its sleep is over.
Spaced ==
  /\ RequestRate
  /\ mark <= elapsed
  /\ pc # "idle" => attempt >= 1
  /\ pc = "attempt" => sent * ShortestSleep <= elapsed
  /\ pc = "sleeping" => /\ sent > 0
                        /\ (sent - 1) * ShortestSleep <= mark
                        /\ ShortestSleep <= delay

\* Every step keeps the requests spaced.
LEMMA SpacedStep == TypeOK /\ Spaced /\ [Next]_vars => Spaced'
<1> SUFFICES ASSUME TypeOK, Spaced, [Next]_vars PROVE Spaced'
  OBVIOUS
<1> USE Constants, LimitCovers
<1>1. CASE GetTickerPrices
  BY <1>1 DEF GetTickerPrices, Spaced, RequestRate
<1>2. CASE cancel
  BY <1>2 DEF cancel, Spaced, RequestRate
<1>3. CASE makeRequest
  <2>1. sent' = sent + 1 /\ sent \in Nat /\ sent + 1 <= MaxAttempts /\ (sent + 1) - 1 = sent
    BY <1>3 DEF makeRequest, TypeOK
  <2>2. QED
    BY <1>3, <2>1 DEF makeRequest, TypeOK, Spaced, RequestRate
<1>4. ASSUME NEW how, Return(how)
      PROVE  Spaced'
  BY <1>4 DEF Return, Spaced, RequestRate
<1>5. ASSUME NEW code \in Statuses, backOff(code)
      PROVE  Spaced'
  <2>1. delay' \in Nat /\ ShortestSleep <= delay'
    BY <1>5, Delays DEF backOff
  <2>2. sent > 0 /\ (sent - 1) * ShortestSleep <= elapsed
    BY <1>5 DEF backOff, TypeOK, Spaced, RequestRate
  <2>3. QED
    BY <1>5, <2>1, <2>2 DEF backOff, TypeOK, Spaced, RequestRate
<1>6. CASE timer
  <2>1. sent \in Nat /\ (sent - 1) * ShortestSleep = sent * ShortestSleep - ShortestSleep
    BY MulStep DEF TypeOK
  <2>2. sent * ShortestSleep \in Int
    BY <2>1
  <2>3. sent * ShortestSleep <= elapsed
    BY <1>6, <2>1, <2>2 DEF timer, TypeOK, Spaced
  <2>4. QED
    BY <1>6, <2>3 DEF timer, TypeOK, Spaced, RequestRate
<1>7. CASE Tick
  <2>1. (sent - 1) * ShortestSleep \in Int /\ sent * ShortestSleep \in Int
    BY DEF TypeOK
  <2>2. QED
    BY <1>7, <2>1 DEF Tick, TypeOK, Spaced, RequestRate
<1>8. CASE UNCHANGED vars
  BY <1>8 DEF vars, Spaced, RequestRate
<1>9. QED
  BY <1>1, <1>2, <1>3, <1>4, <1>5, <1>6, <1>7, <1>8
  DEF Next, Answer, requestRefused, finalAnswer, outOfAttempts, jitterPanics, transportFails,
      ctxDone

\* A call asks Kraken at most MaxAttempts times, and never faster than one request
\* for each shortest sleep.
THEOREM RequestRateBounded == Spec => []RequestRate
<1>1. Init => Spaced
  BY Constants DEF Init, Spaced, RequestRate
<1>2. Spaced => RequestRate
  BY DEF Spaced
<1>3. QED
  BY <1>1, <1>2, TypeCorrect, SpacedStep, PTL DEF Spec

-----------------------------------------------------------------------------

\* The inductive invariant of RetriesExactly: a call on its way to another request
\* had its last one throttled.
Refused ==
  /\ pc # "idle" => outcome = "none"
  /\ pc = "sleeping" => last \in Throttled
  /\ pc = "attempt" /\ sent > 0 => last \in Throttled

\* IsRetryableHTTPError picks exactly the statuses that are to be retried.
LEMMA RetryableIsThrottled ==
  \A code \in Nat : IsRetryableHTTPError(code) <=> code \in Throttled
BY DEF IsRetryableHTTPError, Throttled

\* Every step keeps Refused, and does what RetriesExactly says.
LEMMA RefusedStep ==
  ASSUME TypeOK, Refused, [Next]_vars
  PROVE  /\ Refused'
         /\ sent' > sent /\ sent > 0 => last \in Throttled
         /\ pc # "idle" /\ outcome' = "error" /\ last' \in Throttled /\ ~cancelled =>
              sent = MaxAttempts
<1> USE Constants, RetryableIsThrottled
<1> HIDE DEF IsRetryableHTTPError, Throttled
<1>1. CASE GetTickerPrices
  BY <1>1 DEF GetTickerPrices, TypeOK, Refused
<1>2. CASE cancel
  BY <1>2 DEF cancel, TypeOK, Refused
<1>3. CASE makeRequest
  BY <1>3 DEF makeRequest, TypeOK, Refused
<1>4. CASE requestRefused
  BY <1>4 DEF requestRefused, Return, TypeOK, Refused
<1>5. ASSUME NEW code \in Statuses, finalAnswer(code)
      PROVE  Refused' /\ sent' = sent /\ last' \notin Throttled
  BY <1>5 DEF finalAnswer, Return, TypeOK, Refused
<1>6. ASSUME NEW code \in Statuses, outOfAttempts(code)
      PROVE  Refused' /\ sent' = sent /\ sent = MaxAttempts
  BY <1>6 DEF outOfAttempts, Return, TypeOK, Refused
<1>7. ASSUME NEW code \in Statuses, backOff(code)
      PROVE  Refused' /\ sent' = sent /\ outcome' = "none"
  BY <1>7 DEF backOff, TypeOK, Refused
<1>8. ASSUME NEW code \in Statuses, jitterPanics(code)
      PROVE  Refused' /\ sent' = sent /\ outcome' = "panic"
  BY <1>8 DEF jitterPanics, Return, TypeOK, Refused
<1>9. CASE transportFails
  <2>1. 0 \notin Throttled
    BY DEF Throttled
  <2>2. QED
    BY <1>9, <2>1 DEF transportFails, Return, TypeOK, Refused
<1>10. CASE timer
  BY <1>10 DEF timer, TypeOK, Refused
<1>11. CASE ctxDone
  BY <1>11 DEF ctxDone, Return, TypeOK, Refused
<1>12. CASE Tick
  BY <1>12 DEF Tick, TypeOK, Refused
<1>13. CASE UNCHANGED vars
  BY <1>13 DEF vars, TypeOK, Refused
<1>14. sent \in Nat
  BY DEF TypeOK
<1>15. QED
  BY <1>1, <1>2, <1>3, <1>4, <1>5, <1>6, <1>7, <1>8, <1>9, <1>10, <1>11, <1>12, <1>13, <1>14
  DEF Next, Answer

\* A call retries what Kraken throttled, nothing else, and does not give up early.
THEOREM RetryCorrect == Spec => RetriesExactly
<1>1. Init => Refused
  BY DEF Init, Refused
<1>2. TypeOK /\ Refused /\ [Next]_vars => Refused'
  BY RefusedStep
<1>3. TypeOK /\ Refused /\ [Next]_vars =>
        [/\ sent' > sent /\ sent > 0 => last \in Throttled
         /\ pc # "idle" /\ outcome' = "error" /\ last' \in Throttled /\ ~cancelled =>
              sent = MaxAttempts]_vars
  BY RefusedStep
<1>4. QED
  BY <1>1, <1>2, <1>3, TypeCorrect, PTL DEF Spec, RetriesExactly

=============================================================================
