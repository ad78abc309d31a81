------------------------------ MODULE ApplyWait ------------------------------
(***************************************************************************)
(* The time one round of the job loop takes: the pauses GetIntervals       *)
(* (utils.go) puts between the readiness checks of an applied release, and *)
(* the sleep that fills the round up to CHECK_INTERVAL (workload.go).      *)
(* Times are seconds.                                                      *)
(***************************************************************************)
EXTENDS Integers, Sequences

CONSTANTS
  FileIntervals,   \* values of check_interval in a job file
  Modes            \* values of the MODE environment variable

ASSUME IntervalAssumption == FileIntervals \subseteq Int /\ Modes \subseteq STRING

Least(a, b) == IF a < b THEN a ELSE b

\* Mutant: the floor is applied in development instead.
FloorInDevelopment(checkInterval, mode) ==
  IF mode = "development" /\ checkInterval < 120 THEN 120 ELSE checkInterval

\* getOneConfig: outside development a job is checked every 120 s at most.
EffectiveInterval(checkInterval, mode) ==
  IF mode # "development" /\ checkInterval < 120 THEN 120 ELSE checkInterval

WaitBudget(configInterval) ==
  (3 * (IF configInterval < 120 THEN 120 ELSE configInterval)) \div 4

\* The pauses of a budget too long for five equal ones of at most 120 s: the
\* first is 120 s, each later one shares out what is left evenly but is at
\* most twice its predecessor, and the last takes the rest.
GrowingIntervals(wait) ==
  LET second == Least((wait - 120) \div 4, 240)
      third  == Least((wait - 120 - second) \div 3, 2 * second)
      fourth == Least((wait - 120 - second - third) \div 2, 2 * third)
  IN  <<120, second, third, fourth, wait - 120 - second - third - fourth>>

\* Mutant: the last pause takes the budget instead of what is left of it.
GetIntervalsLastTakesAll(configInterval) ==
  LET wait == WaitBudget(configInterval)
      even == wait \div 5
  IN  IF even > 120 THEN [GrowingIntervals(wait) EXCEPT ![5] = wait]
                    ELSE <<even, even, even, even, even>>

GetIntervals(configInterval) ==
  LET wait == WaitBudget(configInterval)
      even == wait \div 5
  IN  IF even > 120 THEN GrowingIntervals(wait)
                    ELSE <<even, even, even, even, even>>

-----------------------------------------------------------------------------
VARIABLES
  mode,               \* the MODE the process was started with
  checkInterval,      \* COMMON.CHECK_INTERVAL of the job
  i,                  \* readiness checks made in this round
  totalWaitSeconds,   \* seconds paused before them
  isReady,            \* what the last check answered
  slept               \* seconds of the closing sleep, -1 before it

vars == <<mode, checkInterval, i, totalWaitSeconds, isReady, slept>>

TypeOK ==
  /\ mode \in Modes
  /\ checkInterval \in Int
  /\ i \in 0..5
  /\ totalWaitSeconds \in Nat
  /\ isReady \in BOOLEAN
  /\ slept \in Nat \cup {-1}

Init ==
  /\ mode \in Modes
  /\ \E n \in FileIntervals : checkInterval = EffectiveInterval(n, mode)
  /\ i = 0 /\ totalWaitSeconds = 0 /\ isReady = FALSE /\ slept = -1

\* One turn of the readiness loop: pause, then ask the cluster.
WaitAndCheck ==
  /\ slept = -1 /\ i < 5 /\ ~isReady
  /\ i' = i + 1
  /\ totalWaitSeconds' = totalWaitSeconds + GetIntervals(checkInterval)[i + 1]
  /\ isReady' \in BOOLEAN
  /\ UNCHANGED <<mode, checkInterval, slept>>

\* Mutant: a negative duration would count.
SleepNegative ==
  /\ slept = -1 /\ (i = 0 \/ i = 5 \/ isReady)
  /\ slept' = checkInterval - totalWaitSeconds
  /\ UNCHANGED <<mode, checkInterval, i, totalWaitSeconds, isReady>>

\* time.Sleep with a negative duration returns at once.  A round without an
\* upgrade comes here directly, with nothing waited.
SleepRest ==
  /\ slept = -1 /\ (i = 0 \/ i = 5 \/ isReady)
  /\ slept' = IF checkInterval > totalWaitSeconds THEN checkInterval - totalWaitSeconds ELSE 0
  /\ UNCHANGED <<mode, checkInterval, i, totalWaitSeconds, isReady>>

Next == WaitAndCheck \/ SleepRest

Spec == Init /\ [][Next]_vars

-----------------------------------------------------------------------------
\* Outside development the closing sleep makes every round last exactly
\* CHECK_INTERVAL, with or without an upgrade and however many checks it took:
\* the readiness checks never eat up the pause before the next git pull.
RoundLastsInterval ==
  (slept # -1 /\ mode # "development") =>
    /\ totalWaitSeconds + slept = checkInterval
    /\ 4 * slept >= checkInterval

\* The pauses of one attempt never shrink and never pass three quarters of
\* the interval, and only the last may exceed twice its predecessor.
PausesGrow ==
  LET p == GetIntervals(checkInterval)
  IN  /\ \A k \in 1..4 : 0 < p[k] /\ p[k] <= p[k + 1]
      /\ \A k \in 1..3 : p[k + 1] <= 2 * p[k]
      /\ p[1] + p[2] + p[3] + p[4] + p[5] <= WaitBudget(checkInterval)
=============================================================================
