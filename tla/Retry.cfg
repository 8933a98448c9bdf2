\* A tick is half a second: intervals start at 1 s and are capped at 3 s.
CONSTANTS
    Budget = 14
    InitialInterval = 2
    MaxInterval = 6
    Hints = {0, 1, 9}
    MaxResolve = 3
    MaxAttempt = 3
    MaxLate = 1
SPECIFICATION Spec
INVARIANTS
    AttemptsWithinBudget
    EndsInTime
PROPERTIES
    NoAttemptAfterCancel
    NeverTooSoon
