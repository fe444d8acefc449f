-------------------------- MODULE RetryDelayProofs ---------------------------
(***************************************************************************)
(* retryDelay() stays within the configured jitter for every word size and *)
(* every option, and a controller asks it for the delay that RetryOptions  *)
(* promises of the failures it has counted.                                *)
(***************************************************************************)
EXTENDS MCRetryDelay, ControllerProofs

(* A product grows with its factor. *)
LEMMA ProductMonotone ==
  ASSUME NEW a \in Nat, NEW b \in 0..50
  PROVE  a * b \in Nat /\ a * b <= a * 50
  <1>1. \A x, y \in Nat : a * (x + y) = a * x + a * y
    OBVIOUS
  <1>2. a * (b + (50 - b)) = a * b + a * (50 - b)
    BY <1>1, 50 - b \in Nat, b \in Nat
  <1>3. b + (50 - b) = 50
    OBVIOUS
  <1>4. a * b \in Nat /\ a * (50 - b) \in Nat
    <2>1. \A x, y \in Nat : x * y \in Nat
      OBVIOUS
    <2> QED  BY <2>1, 50 - b \in Nat, b \in Nat
  <1>5. a * 50 = a * b + a * (50 - b)
    BY <1>2, <1>3
  <1> QED
    BY <1>4, <1>5

(* The jitter is at most half of the delay it is taken from. *)
LEMMA SpreadBounded ==
  ASSUME NEW base \in Nat, NEW percent \in Nat
  PROVE  spread(base, percent) \in Nat /\ 2 * spread(base, percent) <= base
  <1> DEFINE share == AtMost(50, percent)
  <1>1. share \in 0..50
    BY DEF AtMost
  <1> HIDE DEF share
  <1>2. base * share \in Nat /\ base * share <= base * 50
    BY <1>1, ProductMonotone
  <1> DEFINE product == base * share
  <1>3. product \in Nat /\ product <= 50 * base
    BY <1>2
  <1> HIDE DEF product
  <1>4. product \div 100 \in Nat /\ 2 * (product \div 100) <= base
    BY <1>3
  <1> QED
    BY <1>4 DEF spread, product, share

(* Whatever the options and the generator's state, retryDelay() neither    *)
(* overflows nor returns zero, and stays within half of the configured     *)
(* delay on either side.                                                   *)
THEOREM DelayWithinJitter ==
  ASSUME NEW delay \in 0..MaxWord, NEW percent \in Nat, NEW jitter \in Nat
  PROVE  WithinJitter(retryDelay(delay, percent, jitter), delay)
  <1> DEFINE base == baseDelay(delay)
             width == spread(base, percent)
             offset == jitter % (2 * width + 1)
  <1>1. base \in 1..MaxWord
    BY MaxWordAssumption DEF baseDelay, AtLeast
  <1> HIDE DEF base
  <1>2. width \in Nat /\ 2 * width <= base
    BY <1>1, MaxWordAssumption, SpreadBounded
  <1> HIDE DEF width
  <1>3. offset \in 0..(2 * width)
    BY <1>2
  <1> HIDE DEF offset
  <1>4. WithinJitter(AtMost(MaxWord, AtLeast(1, base - width + offset)), delay)
    <2> DEFINE sum == base - width + offset
    <2>1. sum \in Int /\ 2 * sum >= base /\ 2 * sum <= 3 * base /\ sum >= 1
      BY <1>1, <1>2, <1>3, MaxWordAssumption
    <2> HIDE DEF sum
    <2>2. AtLeast(1, sum) = sum
      BY <2>1 DEF AtLeast
    <2>3. AtMost(MaxWord, sum) \in {sum, MaxWord} /\ AtMost(MaxWord, sum) <= sum
          /\ AtMost(MaxWord, sum) <= MaxWord
      BY <2>1, MaxWordAssumption DEF AtMost
    <2>4. \/ AtMost(MaxWord, sum) = sum
          \/ AtMost(MaxWord, sum) = MaxWord /\ MaxWord < sum
      BY <2>1, MaxWordAssumption DEF AtMost
    <2> DEFINE result == AtMost(MaxWord, sum)
    <2>5. result \in 1..MaxWord /\ 2 * result >= base /\ 2 * result <= 3 * base
      <3>1. CASE result = sum
        BY <3>1, <2>1, <2>3, <1>1, MaxWordAssumption
      <3>2. CASE result = MaxWord /\ MaxWord < sum
        BY <3>2, <2>1, <1>1, MaxWordAssumption
      <3> QED  BY <3>1, <3>2, <2>4
    <2> QED
      BY <2>2, <2>5 DEF WithinJitter, base, sum
  <1> QED
    BY <1>4 DEF retryDelay, base, width, offset

-----------------------------------------------------------------------------
(* The delays of the retries that a controller schedules *)

(* The index that delayIndex() makes of the level before a failure is the  *)
(* one the level after it calls for, since only a level of three or more   *)
(* is saturated.                                                           *)
LEMMA IndexOfRetry ==
  ASSUME MaxRetryLevel = LastDelay, TypeOK,
         NEW level \in 0..MaxRetryLevel, nextLevel(level) = ctl.level
  PROVE  delayIndex(level, ctl.failure) = IF Hopeless THEN LastDelay ELSE level
  <1>1. level \in 0..5 /\ MaxRetryLevel = 5
    BY DEF LastDelay
  <1>2. ctl.level >= 3 <=> level >= 2
    BY <1>1 DEF nextLevel
  <1>3. CASE ctl.failure = "IncompatibleSecurity"
    BY <1>3 DEF delayIndex, Hopeless
  <1>4. CASE ctl.failure = "Authentication"
    BY <1>2, <1>4 DEF delayIndex, Hopeless
  <1>5. CASE ctl.failure \notin {"IncompatibleSecurity", "Authentication"}
    BY <1>5 DEF delayIndex, Hopeless
  <1> QED BY <1>3, <1>4, <1>5

(* Whatever delays and jitter are configured, and whatever mixture of      *)
(* failures, losses and superseded intents came before, a pending retry    *)
(* waits for the delay of the failures in a row: the cooldown when it is   *)
(* hopeless, and within the jitter.                                        *)
THEOREM RetriesWaitAsConfigured ==
  ASSUME MaxRetryLevel = LastDelay,
         NEW delays \in [0..LastDelay -> 0..MaxWord],
         NEW percent \in Nat, NEW jitter \in Nat
  PROVE  Spec => [](ctl.pending =>
           \A level \in 0..MaxRetryLevel :
             nextLevel(level) = ctl.level =>
               WithinJitter(
                 retryDelay(delays[delayIndex(level, ctl.failure)], percent,
                            jitter),
                 delays[IF Hopeless THEN LastDelay ELSE level]))
  <1> DEFINE Waits ==
        ctl.pending =>
          \A level \in 0..MaxRetryLevel :
            nextLevel(level) = ctl.level =>
              WithinJitter(
                retryDelay(delays[delayIndex(level, ctl.failure)], percent,
                           jitter),
                delays[IF Hopeless THEN LastDelay ELSE level])
  <1>1. TypeOK => Waits
    <2> SUFFICES ASSUME TypeOK, NEW level \in 0..MaxRetryLevel,
                        nextLevel(level) = ctl.level
                 PROVE  WithinJitter(
                          retryDelay(delays[delayIndex(level, ctl.failure)],
                                     percent, jitter),
                          delays[IF Hopeless THEN LastDelay ELSE level])
      OBVIOUS
    <2>1. PICK i : i = IF Hopeless THEN LastDelay ELSE level
      OBVIOUS
    <2>2. i \in 0..LastDelay /\ delays[i] \in 0..MaxWord
      BY <2>1 DEF LastDelay
    <2> QED BY <2>1, <2>2, IndexOfRetry, DelayWithinJitter
  <1>2. Spec => []Waits
    BY <1>1, TypeCorrect, PTL
  <1> QED BY <1>2

(* The same for the table of delays that the runs configure. *)
THEOREM RetriesWait ==
  ASSUME MaxRetryLevel = LastDelay, MaxWord >= 20
  PROVE  Spec => []RetryWaits
  <1>1. TypeOK => RetryWaits
    <2> SUFFICES ASSUME TypeOK, NEW level \in 0..MaxRetryLevel,
                        nextLevel(level) = ctl.level,
                        NEW d \in DelayTable[level][ctl.failure]
                 PROVE  WithinJitter(d, Delays[IF Hopeless THEN LastDelay
                                                           ELSE level])
      BY DEF RetryWaits
    <2>1. PICK i : i = IF Hopeless THEN LastDelay ELSE level
      OBVIOUS
    <2>2. i \in 0..LastDelay /\ Delays[i] \in 0..MaxWord
      <3>1. i \in 0..5
        BY <2>1 DEF LastDelay
      <3>2. Delays[i] = <<0, 1, 3, 8, 20, MaxWord>>[i + 1]
        BY <3>1 DEF Delays, LastDelay
      <3>3. MaxWord \in Nat /\ MaxWord >= 20
        BY MaxWordAssumption
      <3>4. i \in {0, 1, 2, 3, 4, 5}
        BY <3>1
      <3>5. Delays[i] \in {0, 1, 3, 8, 20, MaxWord}
        BY <3>2, <3>4
      <3>6. {0, 1, 3, 8, 20, MaxWord} \subseteq 0..MaxWord
        BY <3>3
      <3>7. Delays[i] \in 0..MaxWord
        BY <3>5, <3>6
      <3> QED BY <3>1, <3>7 DEF LastDelay
    <2>3. ctl.failure \in ConnectionFailure
      BY DEF TypeOK, Controllers
    <2>4. delayIndex(level, ctl.failure) = i
      BY <2>1, IndexOfRetry
    <2>5. DelayTable[level][ctl.failure]
            = {retryDelay(Delays[i], percent, jitter) :
                 percent \in Percents, jitter \in 1..MaxWord}
      BY <2>3, <2>4 DEF DelayTable, DelaysOf
    <2>6. PICK percent \in Percents, jitter \in 1..MaxWord :
            d = retryDelay(Delays[i], percent, jitter)
      BY <2>5
    <2>7. percent \in Nat /\ jitter \in Nat
      BY MaxWordAssumption DEF Percents
    <2> QED BY <2>1, <2>2, <2>6, <2>7, DelayWithinJitter
  <1> QED BY <1>1, TypeCorrect, PTL

=============================================================================
