---------------------------- MODULE NextRunTime ----------------------------
(***************************************************************************)
(* When a feed is collected next (collector/next-run-time.ts): one         *)
(* interval after a success, an exponential backoff capped by the interval *)
(* after a failure.  Times and delays are whole numbers of one unit; the   *)
(* code's unit is the minute, with FIRST_RETRY_DELAY_MINUTES = 5 and       *)
(* RETRY_DELAY_MULTIPLIER = 3.  TLC uses units of five minutes (1 and 3).  *)
(***************************************************************************)
EXTENDS Integers

CONSTANTS
  FirstRetryDelay,      \* delay before the first retry
  RetryDelayMultiplier  \* factor for each further consecutive failure

ASSUME RetryAssumption ==
  /\ FirstRetryDelay \in Nat \ {0}
  /\ RetryDelayMultiplier \in Nat \ {0}

\* Math.min of two numbers.
Smaller(a, b) == IF a <= b THEN a ELSE b

\* The delay after `consecutiveFailures` failures in a row, this one included;
\* 0 stands for a success.
RetryDelay(consecutiveFailures, interval) ==
  IF consecutiveFailures = 0
  THEN interval
  ELSE Smaller(FirstRetryDelay * RetryDelayMultiplier ^ (consecutiveFailures - 1),
               interval)

computeNextRunAt(consecutiveFailures, interval, time) ==
  time + RetryDelay(consecutiveFailures, interval)
=============================================================================
