---------------------------- MODULE MCRetryDelay -----------------------------
(* The delays of the retries that a controller schedules. *)
EXTENDS MCController, RetryDelay

(* Delays with both extremes of their type, and no two jittered alike. *)
Delays == [i \in 0..LastDelay |-> <<0, 1, 3, 8, 20, MaxWord>>[i + 1]]

Percents == {0, 20, 50, 255}

(* Each delay with every jitter, for what the code is asked to delay. *)
DelaysOf(level, failure) ==
  {retryDelay(Delays[delayIndex(level, failure)], percent, jitter) :
     percent \in Percents, jitter \in 1..MaxWord}

DelayTable ==
  [l \in 0..LastDelay |-> [f \in ConnectionFailure |-> DelaysOf(l, f)]]

(* Incompatible security, and authentication failing at the third failure  *)
(* in a row or later.                                                      *)
Hopeless ==
  \/ ctl.failure = "IncompatibleSecurity"
  \/ ctl.failure = "Authentication" /\ ctl.level >= 3

(* A pending retry waits as long as RetryOptions says for the failures in  *)
(* a row before it, the latest included: the cooldown when it is hopeless, *)
(* else the delay of that many failures, staggered by half of it at most   *)
(* and never zero.  Whatever mixture of failures, losses and superseded    *)
(* intents scheduled it, no index leaves the table.                        *)
RetryWaits ==
  ctl.pending =>
    \A level \in 0..MaxRetryLevel :
      nextLevel(level) = ctl.level =>
        \A d \in DelayTable[level][ctl.failure] :
          WithinJitter(d, Delays[IF Hopeless THEN LastDelay ELSE level])

=============================================================================
