------------------------------ MODULE DelayedLeave ------------------------------
(***************************************************************************)
(* What a delayed-event job promises its owner and the handler, without    *)
(* its tasks, timers and channels: it waits for its participant, keeps the *)
(* leave event from firing, and ends once: by sending the event, without   *)
(* that, or because it is replaced.  The handler is told of an end at most *)
(* once, after the send has its outcome, and is spared that only when it   *)
(* has stopped the job.  DelayedEventJob implements it.                    *)
(***************************************************************************)
EXTENDS Naturals

VARIABLES
    phase,      \* "waiting", "keeping", "ended" or "replaced"
    leave,      \* "none", "sending", "sent", "failed" or "cancelled"
    report,     \* "none", "owed" or "settled"
    told,       \* how often the handler was told
    stopped,    \* whether the handler has stopped the job
    over        \* whether the job is gone

vars == <<phase, leave, report, told, stopped, over>>

Init ==
    /\ phase = "waiting"
    /\ leave = "none"
    /\ report = "none"
    /\ told = 0
    /\ stopped = FALSE
    /\ over = FALSE

Connect ==
    /\ phase = "waiting"
    /\ phase' = "keeping"
    /\ UNCHANGED <<leave, report, told, stopped, over>>

BeginSend ==
    /\ phase \in {"waiting", "keeping"}
    /\ phase' = "ended"
    /\ leave' = "sending"
    /\ UNCHANGED <<report, told, stopped, over>>

Abort ==
    /\ phase \in {"waiting", "keeping"}
    /\ phase' = "ended"
    /\ report' = "owed"
    /\ UNCHANGED <<leave, told, stopped, over>>

Replace ==
    /\ phase' = "replaced"
    /\ UNCHANGED <<leave, report, told, stopped, over>>

\* Only a stopped job cancels its send.
FinishSend ==
    /\ leave = "sending"
    /\ leave' \in {"sent", "failed"} \cup (IF stopped THEN {"cancelled"} ELSE {})
    /\ report' = "owed"
    /\ UNCHANGED <<phase, told, stopped, over>>

Tell ==
    /\ report = "owed"
    /\ report' = "settled"
    /\ told' = told + 1
    /\ UNCHANGED <<phase, leave, stopped, over>>

Drop ==
    /\ stopped
    /\ report = "owed"
    /\ report' = "settled"
    /\ UNCHANGED <<phase, leave, told, stopped, over>>

Stop ==
    /\ stopped' = TRUE
    /\ UNCHANGED <<phase, leave, report, told, over>>

Exit ==
    /\ stopped
    /\ leave # "sending"
    /\ report # "owed"
    /\ over' = TRUE
    /\ UNCHANGED <<phase, leave, report, told, stopped>>

Next ==
    /\ ~over
    /\ Connect \/ BeginSend \/ Abort \/ Replace \/ FinishSend \/ Tell \/ Drop
         \/ Stop \/ Exit

Spec == Init /\ [][Next]_vars

=============================================================================
