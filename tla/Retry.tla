-------------------------------- MODULE Retry --------------------------------
(***************************************************************************)
(* retry.rs: one call of retry() by a task of a delayed-event job, after   *)
(* the task has resolved the URL of the homeserver.  Budget is the time    *)
(* the task computed before it resolved that URL, and passed as            *)
(* max_elapsed.                                                            *)
(*                                                                         *)
(* Abstractions.                                                           *)
(*   - Time is counted in ticks, and an interval is rounded down to one.   *)
(*   - An attempt takes a tick or more, a sleep ends on time or late.      *)
(***************************************************************************)
EXTENDS Naturals

CONSTANTS
    Budget,             \* remaining, max_elapsed; 0 retries forever
    InitialInterval,    \* initial_interval
    MaxInterval,        \* max_interval
    Hints,              \* the delays a server may ask for
    MaxResolve,         \* how long resolving the URL may take
    MaxAttempt,         \* how long an attempt may take, its timeout
    MaxLate             \* how late a sleep may end

ASSUME BudgetAssumption == Budget \in Nat
ASSUME IntervalAssumption ==
    /\ InitialInterval \in Nat /\ MaxInterval \in Nat
    /\ InitialInterval <= MaxInterval
ASSUME HintsAssumption == Hints \subseteq Nat
ASSUME TimesAssumption ==
    MaxResolve \in Nat /\ MaxAttempt \in Nat \ {0} /\ MaxLate \in Nat

VARIABLES
    now,        \* the clock, from 0 when the task computed its budget
    stage,      \* where the task is
    began,      \* when it came there
    start,      \* when retry() started
    current,    \* the current interval of the backoff schedule
    until,      \* when the sleep ends
    notBefore,  \* history: when the last failure allows another attempt
    cancelled   \* the job's cancellation token

vars == <<now, stage, began, start, current, until, notBefore, cancelled>>

Stage == {"resolving", "top", "attempt", "sleeping", "ended"}

TypeOK ==
    /\ now \in Nat
    /\ stage \in Stage
    /\ began \in Nat
    /\ start \in Nat
    /\ current \in 0 .. MaxInterval
    /\ until \in Nat
    /\ notBefore \in Nat
    /\ cancelled \in BOOLEAN

Init ==
    /\ now = 0
    /\ stage = "resolving"
    /\ began = 0
    /\ start = 0
    /\ current = InitialInterval
    /\ until = 0
    /\ notBefore = 0
    /\ cancelled = FALSE

Goto(next) == stage' = next /\ began' = now

-----------------------------------------------------------------------------
\* The URL is resolved, in a time that is not cut short by the token, and
\* retry() starts; or it is not, and there is nothing to retry.
Resolve ==
    /\ stage = "resolving"
    /\ Goto("top") /\ start' = now
    /\ UNCHANGED <<now, current, until, notBefore, cancelled>>

FailToResolve ==
    /\ stage = "resolving"
    /\ Goto("ended")
    /\ UNCHANGED <<now, start, current, until, notBefore, cancelled>>

\* The top of the loop.  A mutant leaves the token to the select of the sleep.
ChecksNothing == TRUE
MayAttempt == ~cancelled

BeginAttempt ==
    /\ stage = "top"
    /\ MayAttempt
    /\ Goto("attempt")
    /\ UNCHANGED <<now, start, current, until, notBefore, cancelled>>

SeeCancelled ==
    /\ stage = "top" \/ stage = "sleeping"
    /\ cancelled
    /\ Goto("ended")
    /\ UNCHANGED <<now, start, current, until, notBefore, cancelled>>

\* op().await returns; the token does not interrupt it.
Returns == stage = "attempt" /\ now > began

SucceedOrFailForGood ==
    /\ Returns
    /\ Goto("ended")
    /\ UNCHANGED <<now, start, current, until, notBefore, cancelled>>

\* Half of the current interval is added or taken away at random.
RandomizedIntervals == (current - current \div 2) .. (current + current \div 2)

\* The current interval is multiplied by 1.5, up to max_interval.
NextInterval ==
    LET next == (3 * current) \div 2
    IN  IF next <= MaxInterval THEN next ELSE MaxInterval

\* A failure after which to wait that long: a mutant only looks at the time
\* that has passed, another one never gives up.
GivesUpLate(wait) == Budget > 0 /\ now - start > Budget
NeverGivesUp(wait) == FALSE
GivesUp(wait) == Budget > 0 /\ now - start + wait > Budget

\* A mutant does not let the server make it wait longer than the schedule.
HintUpToInterval(hint) == IF hint <= current THEN hint ELSE current
WaitForHint(hint) == hint

SleepOrGiveUp(wait) ==
    IF GivesUp(wait)
    THEN Goto("ended") /\ UNCHANGED until
    ELSE Goto("sleeping") /\ until' = now + wait

\* The error is Transient.
RetryOnSchedule ==
    /\ Returns
    /\ \E wait \in RandomizedIntervals : SleepOrGiveUp(wait)
    /\ current' = NextInterval
    /\ notBefore' = now + current - current \div 2
    /\ UNCHANGED <<now, start, cancelled>>

\* The error is RetryAfter; the schedule does not advance.
RetryAfterHint ==
    /\ Returns
    /\ \E hint \in Hints :
            /\ SleepOrGiveUp(WaitForHint(hint))
            /\ notBefore' = now + hint
    /\ UNCHANGED <<now, start, current, cancelled>>

\* The sleep may end in the same poll that sees the token cancelled.
Wake ==
    /\ stage = "sleeping"
    /\ now >= until
    /\ Goto("top")
    /\ UNCHANGED <<now, start, current, until, notBefore, cancelled>>

-----------------------------------------------------------------------------
Cancel ==
    /\ ~cancelled
    /\ cancelled' = TRUE
    /\ UNCHANGED <<now, stage, began, start, current, until, notBefore>>

\* Time passes, up to what the stage may take.
Latest ==
    CASE stage = "resolving" -> MaxResolve
      [] stage = "attempt" -> began + MaxAttempt
      [] stage = "sleeping" -> until + MaxLate
      [] OTHER -> now

Tick ==
    /\ now < Latest
    /\ now' = now + 1
    /\ UNCHANGED <<stage, began, start, current, until, notBefore, cancelled>>

Ended == stage = "ended" /\ UNCHANGED vars

Next ==
    \/ Resolve \/ FailToResolve
    \/ BeginAttempt \/ SeeCancelled
    \/ SucceedOrFailForGood \/ RetryOnSchedule \/ RetryAfterHint
    \/ Wake
    \/ Cancel \/ Tick \/ Ended

Spec == Init /\ [][Next]_vars

-----------------------------------------------------------------------------
(* Properties. *)

\* "The loop gives up once the next wait would exceed max_elapsed": no attempt
\* begins when more than the budget has passed since retry() started, but for
\* the delay of the last sleep, whatever the hints of the server.
AttemptsWithinBudget ==
    Budget > 0 /\ stage = "attempt" => began <= start + Budget + MaxLate

\* So retry() ends, success or not, as long after its budget as one attempt
\* may take.
EndsInTime ==
    Budget > 0 => now <= MaxResolve + Budget + MaxLate + MaxAttempt

\* "Cancellation aborts the loop between attempts": none begins once the token
\* is cancelled, not even after a sleep that ended as the token was cancelled.
NoAttemptAfterCancel ==
    [][stage' = "attempt" => stage = "attempt" \/ ~cancelled]_vars

\* "Retry-after errors override the next wait with a server hint", and the
\* others keep half of the scheduled interval: no attempt begins earlier.
NeverTooSoon ==
    [][stage' = "attempt" => stage = "attempt" \/ now >= notBefore]_vars

=============================================================================
