------------------------------- MODULE TaskDrain -------------------------------
(***************************************************************************)
(* What the teardown of a job promises, without its counters and           *)
(* notifications: tasks come and go, the job is over once none of them is  *)
(* at work, no task works after that, and close() reports success only     *)
(* then.  JobClose implements it.                                          *)
(***************************************************************************)
CONSTANTS Tasks, Closers

VARIABLES
    working,    \* the tasks at work
    over,       \* the loop has exited
    closed      \* the callers of close() that were told so

vars == <<working, over, closed>>

Init ==
    /\ working = {}
    /\ over = FALSE
    /\ closed = {}

Begin(t) ==
    /\ ~over
    /\ working' = working \cup {t}
    /\ UNCHANGED <<over, closed>>

End(t) ==
    /\ working' = working \ {t}
    /\ UNCHANGED <<over, closed>>

Finish ==
    /\ working = {}
    /\ over' = TRUE
    /\ UNCHANGED <<working, closed>>

Return(c) ==
    /\ over
    /\ closed' = closed \cup {c}
    /\ UNCHANGED <<working, over>>

Next ==
    \/ \E t \in Tasks : Begin(t) \/ End(t)
    \/ Finish
    \/ \E c \in Closers : Return(c)

Spec == Init /\ [][Next]_vars

=============================================================================
