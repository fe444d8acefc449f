----------------------------- MODULE RetryDelay ------------------------------
(***************************************************************************)
(* Controller::retryDelay(): how long an automatic retry waits.  The code  *)
(* computes in 32 and 64 bits; MaxWord is the largest 32-bit value, and    *)
(* the intermediate sums, below 2 * MaxWord, always fit in 64 bits.  The   *)
(* generator's state is any word: it only staggers retries.                *)
(***************************************************************************)
EXTENDS Integers

CONSTANT MaxWord  \* numeric_limits<uint32_t>::max()

ASSUME MaxWordAssumption == MaxWord \in Nat \ {0}

(* The last index of RetryOptions::delays_ms, whose delay is the cooldown. *)
LastDelay == 5

SlipLateCooldown(level, failure) ==
  IF failure \in {"Authentication", "IncompatibleSecurity"} /\ level >= 2
  THEN LastDelay ELSE level

delayIndex(level, failure) ==
  IF \/ failure = "IncompatibleSecurity"
     \/ failure = "Authentication" /\ level >= 2
  THEN LastDelay ELSE level

AtLeast(low, n) == IF n < low THEN low ELSE n

AtMost(high, n) == IF n > high THEN high ELSE n

(* RetryOptions may hold zeros. *)
baseDelay(delay) == AtLeast(1, delay)

spread(base, percent) == (base * AtMost(50, percent)) \div 100

retryDelay(delay, percent, jitter) ==
  LET base == baseDelay(delay)
      width == spread(base, percent)
  IN  AtMost(MaxWord,
             AtLeast(1, base - width + (jitter % (2 * width + 1))))

-----------------------------------------------------------------------------

(* What RetryOptions promises of a delay: jitter is symmetric and clamped  *)
(* to half of the configured delay, a zero delay becomes one millisecond,  *)
(* and the result is a word.                                               *)
WithinJitter(result, delay) ==
  LET base == baseDelay(delay)
  IN  /\ result \in 1..MaxWord
      /\ 2 * result >= base /\ 2 * result <= 3 * base

=============================================================================
