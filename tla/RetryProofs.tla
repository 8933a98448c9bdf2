------------------------------ MODULE RetryProofs ------------------------------
(***************************************************************************)
(* Proofs about Retry, for every budget, schedule, set of hints and bound  *)
(* on the times.  The inductive invariant bounds the clock at each stage:  *)
(* a sleep is planned to end within the budget, since the wait is weighed  *)
(* before it begins, so the loop is back at its top within the budget and  *)
(* the delay of that sleep, and an attempt begins there or not at all.     *)
(* A second one follows the delay that the last failure asks for, from the *)
(* sleep that is planned to last as long to the attempt after it.          *)
(***************************************************************************)
EXTENDS Retry, TLAPS

\* The stage is a state of the task, and the clock, the schedule and the history
\* are natural numbers, the current interval never beyond max_interval.
THEOREM TypeCorrect == Spec => []TypeOK
<1>1. Init => TypeOK
  <2>1. Init => cancelled \in BOOLEAN
    BY DEF Init
  <2>2. Init => /\ now \in Nat /\ began \in Nat /\ start \in Nat
                /\ until \in Nat /\ notBefore \in Nat /\ stage \in Stage
    BY DEF Init, Stage
  <2>3. Init => current \in 0 .. MaxInterval
    BY IntervalAssumption DEF Init
  <2> QED
    BY <2>1, <2>2, <2>3 DEF TypeOK
<1>2. TypeOK /\ [Next]_vars => TypeOK'
  <2> SUFFICES ASSUME TypeOK, [Next]_vars PROVE TypeOK'
    OBVIOUS
  <2> USE DEF TypeOK, Goto, Stage
  <2>1. CASE Resolve
    BY <2>1 DEF Resolve
  <2>2. CASE FailToResolve
    BY <2>2 DEF FailToResolve
  <2>3. CASE BeginAttempt
    BY <2>3 DEF BeginAttempt
  <2>4. CASE SeeCancelled
    BY <2>4 DEF SeeCancelled
  <2>5. CASE SucceedOrFailForGood
    BY <2>5 DEF SucceedOrFailForGood
  <2>6. CASE RetryOnSchedule
    <3>1. PICK wait \in RandomizedIntervals : SleepOrGiveUp(wait)
      BY <2>6 DEF RetryOnSchedule
    <3>2. wait \in Nat
      BY IntervalAssumption DEF RandomizedIntervals
    <3>3. until' \in Nat /\ stage' \in Stage /\ began' \in Nat
      BY <3>1, <3>2 DEF SleepOrGiveUp
    <3>4. current' \in 0 .. MaxInterval
      BY <2>6, IntervalAssumption DEF RetryOnSchedule, NextInterval
    <3>5. notBefore' \in Nat
      BY <2>6, IntervalAssumption DEF RetryOnSchedule
    <3> QED
      BY <2>6, <3>3, <3>4, <3>5 DEF RetryOnSchedule
  <2>7. CASE RetryAfterHint
    <3>1. PICK hint \in Hints : SleepOrGiveUp(WaitForHint(hint))
                                  /\ notBefore' = now + hint
      BY <2>7 DEF RetryAfterHint
    <3>2. until' \in Nat /\ stage' \in Stage /\ began' \in Nat
                /\ notBefore' \in Nat
      BY <3>1, HintsAssumption DEF SleepOrGiveUp, WaitForHint
    <3> QED
      BY <2>7, <3>2 DEF RetryAfterHint
  <2>8. CASE Wake
    BY <2>8 DEF Wake
  <2>9. CASE Cancel
    BY <2>9 DEF Cancel
  <2>10. CASE Tick
    BY <2>10 DEF Tick
  <2>11. CASE Ended \/ UNCHANGED vars
    BY <2>11 DEF Ended, vars
  <2> QED
    BY <2>1, <2>2, <2>3, <2>4, <2>5, <2>6, <2>7, <2>8, <2>9, <2>10, <2>11
       DEF Next
<1> QED
  BY <1>1, <1>2, PTL DEF Spec

-----------------------------------------------------------------------------
\* Where the clock may be at each stage, for a positive budget.
InTime ==
    /\ stage = "resolving" => now <= MaxResolve
    /\ start <= MaxResolve
    /\ stage = "top" => now <= start + Budget + MaxLate
    /\ stage = "attempt" =>
            /\ began <= start + Budget + MaxLate
            /\ now <= began + MaxAttempt
    /\ stage = "sleeping" =>
            /\ until <= start + Budget
            /\ now <= until + MaxLate
    /\ stage = "ended" => now <= MaxResolve + Budget + MaxLate + MaxAttempt

\* A failed attempt leaves the clock in time: it has given up, or sleeps no
\* longer than the budget allows.
LEMMA SleepInTime ==
  ASSUME TypeOK, InTime, Budget > 0, stage = "attempt",
         NEW wait \in Nat, SleepOrGiveUp(wait),
         now' = now, start' = start
  PROVE  InTime'
<1> USE TimesAssumption, BudgetAssumption DEF TypeOK, InTime, Goto
<1>1. CASE GivesUp(wait)
  BY <1>1 DEF SleepOrGiveUp
<1>2. CASE ~GivesUp(wait)
  <2>1. until' = now + wait /\ stage' = "sleeping"
    BY <1>2 DEF SleepOrGiveUp
  <2>2. now - start + wait <= Budget
    BY <1>2 DEF GivesUp
  <2> QED
    BY <2>1, <2>2
<1> QED
  BY <1>1, <1>2

LEMMA InTimeInductive ==
  ASSUME Budget > 0, TypeOK, InTime, [Next]_vars
  PROVE  InTime'
<1> USE TimesAssumption, BudgetAssumption DEF TypeOK, Goto
<1>1. CASE Resolve
  BY <1>1 DEF Resolve, InTime
<1>2. CASE FailToResolve
  BY <1>2 DEF FailToResolve, InTime
<1>3. CASE BeginAttempt
  BY <1>3 DEF BeginAttempt, InTime
<1>4. CASE SeeCancelled
  BY <1>4 DEF SeeCancelled, InTime
<1>5. CASE SucceedOrFailForGood
  BY <1>5 DEF SucceedOrFailForGood, Returns, InTime
<1>6. CASE RetryOnSchedule
  <2>1. PICK wait \in RandomizedIntervals : SleepOrGiveUp(wait)
    BY <1>6 DEF RetryOnSchedule
  <2>2. wait \in Nat
    BY IntervalAssumption DEF RandomizedIntervals
  <2>3. stage = "attempt" /\ now' = now /\ start' = start
    BY <1>6 DEF RetryOnSchedule, Returns
  <2> QED
    BY <2>1, <2>2, <2>3, SleepInTime
<1>7. CASE RetryAfterHint
  <2>1. PICK hint \in Hints : SleepOrGiveUp(WaitForHint(hint))
    BY <1>7 DEF RetryAfterHint
  <2>2. WaitForHint(hint) \in Nat
    BY HintsAssumption DEF WaitForHint
  <2>3. stage = "attempt" /\ now' = now /\ start' = start
    BY <1>7 DEF RetryAfterHint, Returns
  <2> QED
    BY <2>1, <2>2, <2>3, SleepInTime
<1>8. CASE Wake
  BY <1>8 DEF Wake, InTime
<1>9. CASE Cancel
  BY <1>9 DEF Cancel, InTime
<1>10. CASE Tick
  <2>1. now < Latest /\ now' = now + 1
    BY <1>10 DEF Tick
  <2>2. UNCHANGED <<stage, began, start, until>>
    BY <1>10 DEF Tick
  <2> QED
    BY <2>1, <2>2 DEF Latest, InTime, Stage
<1>11. CASE Ended \/ UNCHANGED vars
  BY <1>11 DEF Ended, vars, InTime
<1> QED
  BY <1>1, <1>2, <1>3, <1>4, <1>5, <1>6, <1>7, <1>8, <1>9, <1>10, <1>11
     DEF Next

LEMMA InTimeAlways == Spec => [](TypeOK /\ (Budget > 0 => InTime))
<1>1. Init => (Budget > 0 => InTime)
  BY TimesAssumption DEF Init, InTime
<1>2. TypeOK /\ (Budget > 0 => InTime) /\ [Next]_vars => (Budget > 0 => InTime')
  BY InTimeInductive
<1>3. (Budget > 0 => InTime') => (Budget > 0 => InTime)'
  OBVIOUS
<1> QED
  BY <1>1, <1>2, <1>3, TypeCorrect, PTL DEF Spec

\* No attempt begins after the budget and the delay of one sleep, whatever the
\* server asks for.
THEOREM WithinBudget == Spec => []AttemptsWithinBudget
<1>1. (Budget > 0 => InTime) => AttemptsWithinBudget
  BY DEF InTime, AttemptsWithinBudget
<1> QED
  BY <1>1, InTimeAlways, PTL

\* The call ends: as long as it runs, the clock is below this bound.
THEOREM EndsWithinBound == Spec => []EndsInTime
<1>1. TypeOK /\ (Budget > 0 => InTime) => EndsInTime
  BY TimesAssumption, BudgetAssumption DEF TypeOK, Stage, InTime, EndsInTime
<1> QED
  BY <1>1, InTimeAlways, PTL

\* Once the token is cancelled, no attempt begins.
THEOREM CancelledStaysQuiet == Spec => NoAttemptAfterCancel
<1>1. ASSUME Next, stage' = "attempt", stage # "attempt" PROVE ~cancelled
  <2>1. CASE BeginAttempt
    BY <2>1 DEF BeginAttempt, MayAttempt
  <2>2. CASE Resolve \/ FailToResolve \/ SeeCancelled \/ Wake
    BY <1>1, <2>2 DEF Resolve, FailToResolve, SeeCancelled, Wake, Goto
  <2>3. CASE SucceedOrFailForGood \/ RetryOnSchedule \/ RetryAfterHint
    BY <1>1, <2>3 DEF SucceedOrFailForGood, RetryOnSchedule, RetryAfterHint,
                      Returns
  <2>4. CASE Cancel \/ Tick \/ Ended
    BY <1>1, <2>4 DEF Cancel, Tick, Ended, vars
  <2> QED
    BY <1>1, <2>1, <2>2, <2>3, <2>4 DEF Next
<1>2. [Next]_vars => [stage' = "attempt" => stage = "attempt" \/ ~cancelled]_vars
  BY <1>1
<1> QED
  BY <1>2, PTL DEF Spec, NoAttemptAfterCancel

-----------------------------------------------------------------------------
\* The sleep ends no earlier than the last failure allows, so the loop is back at
\* its top no earlier.
Waits ==
    /\ stage \in {"resolving", "top"} => now >= notBefore
    /\ stage = "sleeping" => until >= notBefore

\* A wait drawn at random is half the interval or more.
LEMMA HalfTheInterval ==
  ASSUME TypeOK, NEW wait \in RandomizedIntervals
  PROVE  wait \in Nat /\ now + wait >= now + current - current \div 2
<1>1. current \in Nat /\ current \div 2 \in Nat /\ current \div 2 <= current
  BY IntervalAssumption DEF TypeOK
<1>2. /\ wait \in (current - current \div 2) .. (current + current \div 2)
      /\ now \in Nat
  BY DEF RandomizedIntervals, TypeOK
<1> QED
  BY <1>1, <1>2

LEMMA WaitsInductive ==
  ASSUME TypeOK, Waits, [Next]_vars
  PROVE  Waits'
<1> USE DEF Waits, Goto
<1>1. CASE Resolve
  BY <1>1 DEF Resolve
<1>2. CASE FailToResolve \/ SeeCancelled \/ BeginAttempt
  BY <1>2 DEF FailToResolve, SeeCancelled, BeginAttempt
<1>3. CASE SucceedOrFailForGood
  BY <1>3 DEF SucceedOrFailForGood
<1>4. CASE RetryOnSchedule
  <2>1. PICK wait \in RandomizedIntervals : SleepOrGiveUp(wait)
    BY <1>4 DEF RetryOnSchedule
  <2>2. notBefore' = now + current - current \div 2
    BY <1>4 DEF RetryOnSchedule
  <2> QED
    BY <2>1, <2>2, HalfTheInterval DEF SleepOrGiveUp
<1>5. CASE RetryAfterHint
  <2>1. PICK hint \in Hints : /\ SleepOrGiveUp(WaitForHint(hint))
                              /\ notBefore' = now + hint
    BY <1>5 DEF RetryAfterHint
  <2>2. now + hint >= now + hint
    BY HintsAssumption DEF TypeOK
  <2> QED
    BY <2>1, <2>2 DEF SleepOrGiveUp, WaitForHint
<1>6. CASE Wake
  BY <1>6 DEF Wake, TypeOK
<1>7. CASE Tick
  BY <1>7 DEF Tick, TypeOK
<1>8. CASE Cancel \/ Ended \/ UNCHANGED vars
  BY <1>8 DEF Cancel, Ended, vars
<1> QED
  BY <1>1, <1>2, <1>3, <1>4, <1>5, <1>6, <1>7, <1>8 DEF Next

\* No attempt begins before the delay a server asked for is over, or half the
\* scheduled interval where none did.
THEOREM HintsAreKept == Spec => NeverTooSoon
<1>1. Init => Waits
  BY DEF Init, Waits
<1>2. TypeOK /\ Waits /\ [Next]_vars => Waits'
  BY WaitsInductive
<1>3. ASSUME Waits, Next, stage' = "attempt", stage # "attempt"
      PROVE  now >= notBefore
  <2>1. CASE BeginAttempt
    BY <1>3, <2>1 DEF BeginAttempt, Waits
  <2>2. CASE Resolve \/ FailToResolve \/ SeeCancelled \/ Wake
    BY <1>3, <2>2 DEF Resolve, FailToResolve, SeeCancelled, Wake, Goto
  <2>3. CASE SucceedOrFailForGood \/ RetryOnSchedule \/ RetryAfterHint
    BY <1>3, <2>3 DEF SucceedOrFailForGood, RetryOnSchedule, RetryAfterHint,
                      Returns
  <2>4. CASE Cancel \/ Tick \/ Ended
    BY <1>3, <2>4 DEF Cancel, Tick, Ended, vars
  <2> QED
    BY <1>3, <2>1, <2>2, <2>3, <2>4 DEF Next
<1>4. Waits /\ [Next]_vars =>
        [stage' = "attempt" => stage = "attempt" \/ now >= notBefore]_vars
  BY <1>3
<1> QED
  BY <1>1, <1>2, <1>4, TypeCorrect, PTL DEF Spec, NeverTooSoon

=============================================================================
