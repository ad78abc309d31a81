--------------------------- MODULE ApplyWaitProofs ---------------------------
(***************************************************************************)
(* The pauses of GetIntervals fit into the round for every CHECK_INTERVAL. *)
(* The invariant says how much of them has been spent.                     *)
(***************************************************************************)
EXTENDS ApplyWait, TLAPS

\* The first k of five pauses together.
Spent(p, k) == (IF k > 0 THEN p[1] ELSE 0) + (IF k > 1 THEN p[2] ELSE 0)
               + (IF k > 2 THEN p[3] ELSE 0) + (IF k > 3 THEN p[4] ELSE 0)
               + (IF k > 4 THEN p[5] ELSE 0)

RoundInv ==
  /\ TypeOK
  /\ totalWaitSeconds = Spent(GetIntervals(checkInterval), i)
  /\ mode # "development" => checkInterval >= 120
  /\ slept # -1 => slept = IF checkInterval > totalWaitSeconds
                             THEN checkInterval - totalWaitSeconds ELSE 0

\* The budget of the pauses is three quarters of the interval, rounded down.
LEMMA BudgetBounds ==
  ASSUME NEW c \in Int
  PROVE  /\ WaitBudget(c) \in Nat /\ WaitBudget(c) >= 90
         /\ c >= 120 => 4 * WaitBudget(c) <= 3 * c
BY DEF WaitBudget

\* Five equal pauses fit into the budget.
LEMMA EvenPauses ==
  ASSUME NEW w \in Nat, w >= 90
  PROVE  w \div 5 \in Nat /\ w \div 5 > 0 /\ 5 * (w \div 5) <= w
OBVIOUS

\* The five growing pauses of a long budget use it up.
LEMMA GrowingPauses ==
  ASSUME NEW w \in Nat, w \div 5 > 120
  PROVE  LET p == GrowingIntervals(w)
         IN  /\ p[1] \in Nat /\ p[2] \in Nat /\ p[3] \in Nat /\ p[4] \in Nat /\ p[5] \in Nat
             /\ 0 < p[1] /\ p[1] <= p[2] /\ p[2] <= p[3] /\ p[3] <= p[4] /\ p[4] <= p[5]
             /\ p[2] <= 2 * p[1] /\ p[3] <= 2 * p[2] /\ p[4] <= 2 * p[3]
             /\ p[1] + p[2] + p[3] + p[4] + p[5] = w
<1> DEFINE second == Least((w - 120) \div 4, 240)
           third  == Least((w - 120 - second) \div 3, 2 * second)
           fourth == Least((w - 120 - second - third) \div 2, 2 * third)
           last   == w - 120 - second - third - fourth
<1>1. w >= 605
  OBVIOUS
<1>2. second \in Nat /\ 120 <= second /\ second <= 240 /\ 4 * second <= w - 120
  BY <1>1 DEF Least
<1>3. third \in Nat /\ second <= third /\ third <= 2 * second /\ 3 * third <= w - 120 - second
  <2> HIDE DEF second
  <2> QED
    BY <1>1, <1>2 DEF Least
<1>4. fourth \in Nat /\ third <= fourth /\ fourth <= 2 * third /\ 2 * fourth <= w - 120 - second - third
  <2> HIDE DEF second, third
  <2> QED
    BY <1>1, <1>2, <1>3 DEF Least
<1>5. last \in Nat /\ fourth <= last /\ 120 + second + third + fourth + last = w
  <2> HIDE DEF second, third, fourth
  <2> QED
    BY <1>2, <1>3, <1>4
<1>6. GrowingIntervals(w) = <<120, second, third, fourth, last>>
  BY DEF GrowingIntervals
<1> HIDE DEF second, third, fourth, last
<1> QED
  BY <1>2, <1>3, <1>4, <1>5, <1>6

\* What holds of the pauses, whatever the interval.
LEMMA PausesFit ==
  ASSUME NEW c \in Int
  PROVE  LET p == GetIntervals(c)
         IN  /\ p[1] \in Nat /\ p[2] \in Nat /\ p[3] \in Nat /\ p[4] \in Nat /\ p[5] \in Nat
             /\ 0 < p[1] /\ p[1] <= p[2] /\ p[2] <= p[3] /\ p[3] <= p[4] /\ p[4] <= p[5]
             /\ p[2] <= 2 * p[1] /\ p[3] <= 2 * p[2] /\ p[4] <= 2 * p[3]
             /\ p[1] + p[2] + p[3] + p[4] + p[5] <= WaitBudget(c)
<1> DEFINE w == WaitBudget(c)
           even == w \div 5
<1>1. w \in Nat /\ w >= 90
  BY BudgetBounds
<1>2. CASE even > 120
  <2>1. GetIntervals(c) = GrowingIntervals(w)
    BY <1>2 DEF GetIntervals
  <2> HIDE DEF w
  <2> QED
    BY <1>1, <1>2, <2>1, GrowingPauses DEF w
<1>3. CASE ~(even > 120)
  <2>1. GetIntervals(c) = <<even, even, even, even, even>>
    BY <1>3 DEF GetIntervals
  <2>2. even \in Nat /\ even > 0 /\ 5 * even <= w
    BY <1>1, EvenPauses
  <2> HIDE DEF even, w
  <2> QED
    BY <2>1, <2>2, <1>1 DEF w
<1> QED
  BY <1>2, <1>3

\* What was spent never exceeds the budget.
LEMMA SpentFits ==
  ASSUME NEW c \in Int, NEW k \in 0..5
  PROVE  /\ Spent(GetIntervals(c), k) \in Nat
         /\ Spent(GetIntervals(c), k) <= WaitBudget(c)
         /\ k < 5 => Spent(GetIntervals(c), k + 1) = Spent(GetIntervals(c), k) + GetIntervals(c)[k + 1]
         /\ Spent(GetIntervals(c), 0) = 0
<1> DEFINE p == GetIntervals(c)
<1>1. /\ p[1] \in Nat /\ p[2] \in Nat /\ p[3] \in Nat /\ p[4] \in Nat /\ p[5] \in Nat
      /\ p[1] + p[2] + p[3] + p[4] + p[5] <= WaitBudget(c)
  BY PausesFit
<1>2. WaitBudget(c) \in Nat
  BY BudgetBounds
<1> HIDE DEF p
<1>3. k = 0 \/ k = 1 \/ k = 2 \/ k = 3 \/ k = 4 \/ k = 5
  OBVIOUS
<1>4. /\ Spent(p, k) \in Nat /\ Spent(p, k) <= WaitBudget(c)
      /\ k < 5 => Spent(p, k + 1) = Spent(p, k) + p[k + 1]
      /\ Spent(p, 0) = 0
  BY <1>1, <1>2, <1>3 DEF Spent
<1> QED
  BY <1>4 DEF p

-----------------------------------------------------------------------------
\* The invariant of the round holds at the start and is kept by every step.
LEMMA RoundInvHolds == Spec => []RoundInv
<1>1. Init => RoundInv
  <2> SUFFICES ASSUME Init PROVE RoundInv
    OBVIOUS
  <2>1. PICK n \in FileIntervals : checkInterval = EffectiveInterval(n, mode)
    BY DEF Init
  <2>2. checkInterval \in Int /\ (mode # "development" => checkInterval >= 120)
    BY <2>1, IntervalAssumption DEF EffectiveInterval
  <2>3. TypeOK
    <3>1. isReady \in BOOLEAN
      BY Zenon DEF Init
    <3>2. /\ mode \in Modes /\ i \in 0..5 /\ totalWaitSeconds \in Nat /\ slept \in Nat \cup {-1}
      BY DEF Init
    <3> QED
      BY <2>2, <3>1, <3>2, Zenon DEF TypeOK
  <2>4. totalWaitSeconds = Spent(GetIntervals(checkInterval), i)
    BY DEF Init, Spent
  <2> QED
    BY <2>2, <2>3, <2>4 DEF RoundInv, Init
<1>2. RoundInv /\ [Next]_vars => RoundInv'
  <2> SUFFICES ASSUME RoundInv, [Next]_vars PROVE RoundInv'
    OBVIOUS
  <2> USE DEF RoundInv, TypeOK
  <2>1. CASE WaitAndCheck
    <3>1. i \in 0..5 /\ i < 5 /\ i' = i + 1 /\ checkInterval' = checkInterval /\ mode' = mode
      BY <2>1 DEF WaitAndCheck
    <3>2. /\ Spent(GetIntervals(checkInterval), i)
               + GetIntervals(checkInterval)[i + 1] = Spent(GetIntervals(checkInterval), i + 1)
          /\ Spent(GetIntervals(checkInterval), i + 1) \in Nat
      <4>1. i + 1 \in 0..5 /\ checkInterval \in Int
        BY <3>1
      <4>2. Spent(GetIntervals(checkInterval), i + 1)
              = Spent(GetIntervals(checkInterval), i) + GetIntervals(checkInterval)[i + 1]
        BY <3>1, <4>1, SpentFits
      <4>3. Spent(GetIntervals(checkInterval), i + 1) \in Nat
        BY <4>1, SpentFits
      <4> QED
        BY <4>2, <4>3, Zenon
    <3>3. totalWaitSeconds' = Spent(GetIntervals(checkInterval), i + 1)
      BY <2>1, <3>2 DEF WaitAndCheck
    <3>4. TypeOK'
      BY <2>1, <3>1, <3>2, <3>3 DEF WaitAndCheck
    <3> QED
      BY <2>1, <3>1, <3>3, <3>4 DEF WaitAndCheck
  <2>2. CASE SleepRest
    BY <2>2 DEF SleepRest
  <2>3. CASE UNCHANGED vars
    BY <2>3 DEF vars
  <2> QED
    BY <2>1, <2>2, <2>3 DEF Next
<1> QED
  BY <1>1, <1>2, PTL DEF Spec

\* The variables of the round keep their types.
THEOREM RoundTypeCorrect == Spec => []TypeOK
<1>1. RoundInv => TypeOK
  BY DEF RoundInv
<1> QED
  BY <1>1, RoundInvHolds, PTL

\* For every CHECK_INTERVAL a round outside development lasts exactly that
\* long, and at least a quarter of it is left after the readiness checks.
THEOREM RoundCorrect == Spec => []RoundLastsInterval
<1>1. RoundInv => RoundLastsInterval
  <2> SUFFICES ASSUME RoundInv, slept # -1, mode # "development"
               PROVE  totalWaitSeconds + slept = checkInterval /\ 4 * slept >= checkInterval
    BY DEF RoundLastsInterval
  <2>1. checkInterval \in Int /\ checkInterval >= 120 /\ i \in 0..5
    BY DEF RoundInv, TypeOK
  <2>2. totalWaitSeconds \in Nat /\ totalWaitSeconds <= WaitBudget(checkInterval)
    BY <2>1, SpentFits DEF RoundInv
  <2>3. WaitBudget(checkInterval) \in Nat /\ 4 * WaitBudget(checkInterval) <= 3 * checkInterval
    BY <2>1, BudgetBounds
  <2> QED
    BY <2>1, <2>2, <2>3 DEF RoundInv
<1> QED
  BY <1>1, RoundInvHolds, PTL

\* For every CHECK_INTERVAL the pauses grow, by a factor of two at most except
\* for the last, and stay within their budget.
THEOREM PausesCorrect == Spec => []PausesGrow
<1>1. RoundInv => PausesGrow
  <2> SUFFICES ASSUME RoundInv PROVE PausesGrow
    OBVIOUS
  <2> DEFINE p == GetIntervals(checkInterval)
  <2>1. /\ p[1] \in Nat /\ p[2] \in Nat /\ p[3] \in Nat /\ p[4] \in Nat /\ p[5] \in Nat
        /\ 0 < p[1] /\ p[1] <= p[2] /\ p[2] <= p[3] /\ p[3] <= p[4] /\ p[4] <= p[5]
        /\ p[2] <= 2 * p[1] /\ p[3] <= 2 * p[2] /\ p[4] <= 2 * p[3]
        /\ p[1] + p[2] + p[3] + p[4] + p[5] <= WaitBudget(checkInterval)
    BY PausesFit DEF RoundInv, TypeOK
  <2> HIDE DEF p
  <2>2. \A k \in 1..4 : 0 < p[k] /\ p[k] <= p[k + 1]
    <3>1. \A k \in 1..4 : k = 1 \/ k = 2 \/ k = 3 \/ k = 4
      OBVIOUS
    <3> QED
      BY <2>1, <3>1
  <2>3. \A k \in 1..3 : p[k + 1] <= 2 * p[k]
    <3>1. \A k \in 1..3 : k = 1 \/ k = 2 \/ k = 3
      OBVIOUS
    <3> QED
      BY <2>1, <3>1
  <2> QED
    BY <2>1, <2>2, <2>3 DEF PausesGrow, p
<1> QED
  BY <1>1, RoundInvHolds, PTL
=============================================================================
