--------------------------- MODULE DelayedEventJob ---------------------------
(***************************************************************************)
(* One delayed-event job: the actor of delayed_event_manager.rs that keeps *)
(* a delegated MatrixRTC leave event from firing while its owner is on the *)
(* SFU, and sends it once the owner has left.                              *)
(*                                                                         *)
(* The loop (run_loop) is one process and every task it or the handler     *)
(* spawns is another; the steps between two awaits of a task are one       *)
(* action.  The handler, the SFU and the homeserver are the environment:   *)
(* they route webhooks, stop the job, and answer its requests.             *)
(*                                                                         *)
(* Abstractions.                                                           *)
(*   - Time: a sleep may end at any moment, a retry budget may run out     *)
(*     after any failed attempt, and the restart deadline is "open" until  *)
(*     it passes at an arbitrary moment.                                   *)
(*   - done_tx and restarted_tx are channels the handler reads, so a send  *)
(*     on them is possible sooner or later; HandlerLoop models that side.  *)
(*   - A task is known by the await it is at.                              *)
(***************************************************************************)
EXTENDS Naturals, Sequences

CONSTANTS
    EventCap,       \* capacity of the event channel (10 in the code)
    Webhooks,       \* the signals the handler may route to the job
    SanityCheck     \* whether sanity_interval is non-zero

ASSUME EventCapAssumption == EventCap \in Nat \ {0}
ASSUME SanityCheckAssumption == SanityCheck \in BOOLEAN

-----------------------------------------------------------------------------
(* The finite-state machine. *)

DelayEventState ==
    {"WaitingForInitialConnect", "Connected", "Disconnected", "Aborted",
     "Replaced"}

\* What the handler loop routes from the SFU's webhooks.
SfuSignal ==
    {"ParticipantConnected", "ParticipantDisconnectedIntentionally",
     "ParticipantConnectionAborted"}

ASSUME WebhooksAssumption == Webhooks \subseteq SfuSignal

\* How a restart that did not succeed is reported to the loop.
RestartFailure ==
    {"DelayedEventTimedOut", "DelayedEventNotFound", "CsApiUrlNotFound"}

\* Every signal something in the code sends.
DelayedEventSignal ==
    SfuSignal \cup RestartFailure \cup
    {"ParticipantLookupSuccessful", "SfuParticipantGone",
     "WaitingStateTimedOut", "DelayedEventReset", "JobReplaced"}

fsm_transitions ==
    {<<"WaitingForInitialConnect", "ParticipantConnected", "Connected">>,
     <<"WaitingForInitialConnect", "ParticipantLookupSuccessful", "Connected">>,
     <<"WaitingForInitialConnect", "ParticipantConnectionAborted", "Aborted">>,
     <<"WaitingForInitialConnect", "WaitingStateTimedOut", "Disconnected">>,
     <<"WaitingForInitialConnect", "JobReplaced", "Replaced">>,
     <<"Connected", "ParticipantDisconnectedIntentionally", "Disconnected">>,
     <<"Connected", "ParticipantConnectionAborted", "Disconnected">>,
     <<"Connected", "DelayedEventTimedOut", "Aborted">>,
     <<"Connected", "DelayedEventNotFound", "Aborted">>,
     <<"Connected", "CsApiUrlNotFound", "Aborted">>,
     <<"Connected", "SfuParticipantGone", "Disconnected">>,
     <<"Connected", "JobReplaced", "Replaced">>,
     <<"Disconnected", "JobReplaced", "Replaced">>,
     <<"Aborted", "JobReplaced", "Replaced">>}

\* A mutant restarts the event on every connect webhook, too.
fsm_internal_actions_on_connect ==
    {<<"Connected", "DelayedEventReset">>, <<"Connected", "ParticipantConnected">>}
fsm_internal_actions == {<<"Connected", "DelayedEventReset">>}

-----------------------------------------------------------------------------
(* Where a task can be. *)

\* Participant lookup: phase 1 polling, reporting its success, phase 2
\* checks, reporting the participant gone.
LookupStage == {"polling", "found", "watching", "gone", "exited"}

\* ActionRestart: resolving the URL, before an attempt (or in its backoff),
\* in an attempt, telling the handler, handing over the new deadline, or
\* reporting a failure to the event channel.
RestartStage ==
    {"resolving", "ready", "inflight", "restarted", "handover"}
        \cup RestartFailure

\* ActionSend; "notify" is its final send on done_tx.
SenderStage ==
    {"idle", "resolving", "ready", "inflight", "notify", "exited"}

TimerStage == {"sleeping", "firing", "exited"}

\* What became of ActionSend.
LeaveOutcome == {"none", "sent", "gaveup", "unresolved", "cancelled"}

VARIABLES
    state,            \* the FSM state, owned by the loop
    restart_deadline, \* "unset" (None), "open" or "expired"
    events,           \* the event channel
    restart_result,   \* deadlines in the restart_result channel (capacity 1)
    timers,           \* LoopTimers: which of the two slots holds a token
    renewedIn,        \* history: the state in which the deadline was last set
    waitingTimer,     \* the waiting-timer task
    restartTimers,    \* restart-timer tasks: [armed, stale, firing -> Nat]
    lookup,           \* the participant-lookup task
    restarts,         \* number of ActionRestart tasks at each stage
    sender,           \* the ActionSend task
    leave,            \* the outcome of ActionSend
    notifier,         \* the done notification of Aborted
    done,             \* notifications sent on done_tx
    replaced,         \* the handler has replaced the job
    cancelled,        \* the job's cancellation token
    loop              \* the actor loop: "running", "draining" or "done"

loopVars   == <<state, restart_deadline, timers, renewedIn>>
taskVars   == <<waitingTimer, restartTimers, lookup, restarts, sender, leave,
                notifier, done>>
tokenVars  == <<replaced, cancelled, loop>>
vars == <<loopVars, taskVars, tokenVars, events, restart_result>>

TypeOK ==
    /\ state \in DelayEventState
    /\ restart_deadline \in {"unset", "open", "expired"}
    /\ events \in Seq(DelayedEventSignal)
    /\ Len(events) <= EventCap
    /\ restart_result \in {0, 1}
    /\ timers \in [waiting : BOOLEAN, restart : BOOLEAN]
    /\ renewedIn \in DelayEventState \cup {"none"}
    /\ waitingTimer \in TimerStage
    /\ restartTimers \in [{"armed", "stale", "firing"} -> Nat]
    /\ lookup \in LookupStage
    /\ restarts \in [RestartStage -> Nat]
    /\ sender \in SenderStage
    /\ leave \in LeaveOutcome
    /\ notifier \in {"idle", "notify", "exited"}
    /\ done \in Nat
    /\ replaced \in BOOLEAN
    /\ cancelled \in BOOLEAN
    /\ loop \in {"running", "draining", "done"}

-----------------------------------------------------------------------------
(* spawn_loop and start_participant_lookup: the waiting timer is armed and  *)
(* the lookup is polling.                                                   *)

Init ==
    /\ state = "WaitingForInitialConnect"
    /\ restart_deadline = "unset"
    /\ events = <<>>
    /\ restart_result = 0
    /\ timers = [waiting |-> TRUE, restart |-> FALSE]
    /\ renewedIn = "none"
    /\ waitingTimer = "sleeping"
    /\ restartTimers = [stage \in {"armed", "stale", "firing"} |-> 0]
    /\ lookup = "polling"
    /\ restarts = [stage \in RestartStage |-> 0]
    /\ sender = "idle"
    /\ leave = "none"
    /\ notifier = "idle"
    /\ done = 0
    /\ replaced = FALSE
    /\ cancelled = FALSE
    /\ loop = "running"

\* event_tx.send completes: there is room in the channel.  A mutant does not
\* wait for it.
SendEventUnbounded(signal) == events' = Append(events, signal)
SendEvent(signal) ==
    /\ Len(events) < EventCap
    /\ events' = Append(events, signal)

-----------------------------------------------------------------------------
(* The loop. *)

\* The tasks counted by the background wait group.  The timers are not, and in
\* a mutant ActionSend is not either.
BackgroundWithoutSender ==
    \/ lookup # "exited"
    \/ \E stage \in RestartStage : restarts[stage] > 0
    \/ notifier = "notify"

Background ==
    \/ lookup # "exited"
    \/ \E stage \in RestartStage : restarts[stage] > 0
    \/ sender \notin {"idle", "exited"}
    \/ notifier = "notify"

\* Taking a restart-timer token out of its slot and cancelling it: the
\* sleeping task it belongs to is stale from then on.
CancelRestartTimer ==
    [restartTimers EXCEPT !["armed"] = 0,
                          !["stale"] = @ + restartTimers["armed"]]

\* Spawns the restart task, or the one that reports the deadline exhausted.
start_delayed_event_restart(deadline) ==
    [restarts EXCEPT
        ![IF deadline = "open" THEN "resolving" ELSE "DelayedEventTimedOut"] =
            @ + 1]

handle_state_exit_action(old) ==
    /\ timers' = [waiting |-> timers.waiting
                                /\ old # "WaitingForInitialConnect",
                  restart |-> timers.restart /\ old # "Connected"]
    /\ restartTimers' =
            IF old = "Connected" THEN CancelRestartTimer ELSE restartTimers

handle_state_entry_action(new) ==
    /\ restart_deadline' = IF new = "Connected" THEN "open"
                                                ELSE restart_deadline
    /\ renewedIn' = IF new = "Connected" THEN new ELSE renewedIn
    /\ restarts' = IF new = "Connected" THEN start_delayed_event_restart("open")
                                        ELSE restarts
    /\ sender' = IF new = "Disconnected" THEN "resolving" ELSE sender
    /\ notifier' = IF new = "Aborted" THEN "notify" ELSE notifier

ReceiveEvent(signal) ==
    /\ loop = "running"
    /\ events # <<>>
    /\ signal = Head(events)
    /\ events' = Tail(events)

\* The three outcomes of handle_event: an internal action, a transition with
\* its exit and entry actions, or a signal the state ignores.
HandleInternalAction(signal) ==
    /\ ReceiveEvent(signal)
    /\ <<state, signal>> \in fsm_internal_actions
    /\ restarts' = start_delayed_event_restart(restart_deadline)
    /\ UNCHANGED <<loopVars, tokenVars, restart_result, waitingTimer,
                   restartTimers, lookup, sender, leave, notifier, done>>

HandleTransition(signal) ==
    /\ ReceiveEvent(signal)
    /\ <<state, signal>> \notin fsm_internal_actions
    /\ \E new \in DelayEventState :
            /\ <<state, signal, new>> \in fsm_transitions
            /\ state' = new
            /\ handle_state_exit_action(state)
            /\ handle_state_entry_action(new)
    /\ UNCHANGED <<tokenVars, restart_result, waitingTimer, lookup, leave,
                   done>>

IgnoreEvent(signal) ==
    /\ ReceiveEvent(signal)
    /\ <<state, signal>> \notin fsm_internal_actions
    /\ \A new \in DelayEventState :
            <<state, signal, new>> \notin fsm_transitions
    /\ UNCHANGED <<loopVars, taskVars, tokenVars, restart_result>>

\* A deadline on the restart_result channel re-arms the restart timer, or is
\* dropped when the job is no longer Connected.  Mutants take any result, or
\* only one that arrives before the deadline.
AppliesAnyResult == TRUE
AppliesResultInTime == state = "Connected" /\ restart_deadline = "open"
AppliesResult == state = "Connected"

ReceiveRestartResult ==
    /\ loop = "running"
    /\ restart_result = 1
    /\ restart_result' = 0
    /\ IF AppliesResult
       THEN /\ restart_deadline' = "open"
            /\ renewedIn' = state
            /\ timers' = [timers EXCEPT !.restart = TRUE]
            /\ restartTimers' = [CancelRestartTimer EXCEPT !["armed"] = 1]
       ELSE UNCHANGED <<restart_deadline, renewedIn, timers, restartTimers>>
    /\ UNCHANGED <<state, tokenVars, events, waitingTimer, lookup, restarts,
                   sender, leave, notifier, done>>

BeginExit ==
    /\ loop = "running"
    /\ cancelled
    /\ loop' = "draining"
    /\ timers' = [waiting |-> FALSE, restart |-> FALSE]
    /\ restartTimers' = CancelRestartTimer
    /\ UNCHANGED <<state, restart_deadline, renewedIn, replaced, cancelled, events,
                   restart_result, waitingTimer, lookup, restarts, sender,
                   leave, notifier, done>>

\* background.wait() returns; the receivers are dropped with the loop.
FinishExit ==
    /\ loop = "draining"
    /\ ~Background
    /\ loop' = "done"
    /\ events' = <<>>
    /\ restart_result' = 0
    /\ UNCHANGED <<loopVars, taskVars, replaced, cancelled>>

-----------------------------------------------------------------------------
(* The timer tasks.  A sleep may end in the same poll that sees its token   *)
(* cancelled, so a cancelled timer may still fire; its send is guarded by   *)
(* the job's token only.                                                    *)

WaitingTimerFires ==
    /\ waitingTimer = "sleeping"
    /\ waitingTimer' = "firing"
    /\ UNCHANGED <<loopVars, tokenVars, events, restart_result, restartTimers,
                   lookup, restarts, sender, leave, notifier, done>>

\* A mutant sends with try_send.
WaitingTimerTrySends ==
    /\ waitingTimer = "firing"
    /\ IF Len(events) < EventCap
       THEN SendEvent("WaitingStateTimedOut") ELSE UNCHANGED events
    /\ waitingTimer' = "exited"
    /\ loop # "done"
    /\ UNCHANGED <<loopVars, tokenVars, restart_result, restartTimers, lookup,
                   restarts, sender, leave, notifier, done>>

WaitingTimerSends ==
    /\ waitingTimer = "firing"
    /\ SendEvent("WaitingStateTimedOut")
    /\ waitingTimer' = "exited"
    /\ loop # "done"
    /\ UNCHANGED <<loopVars, tokenVars, restart_result, restartTimers, lookup,
                   restarts, sender, leave, notifier, done>>

WaitingTimerExits ==
    /\ \/ waitingTimer = "sleeping" /\ (~timers.waiting \/ cancelled)
       \/ waitingTimer = "firing" /\ cancelled
    /\ waitingTimer' = "exited"
    /\ UNCHANGED <<loopVars, tokenVars, events, restart_result, restartTimers,
                   lookup, restarts, sender, leave, notifier, done>>

MoveTimer(from, to) ==
    /\ restartTimers[from] > 0
    /\ restartTimers' = [restartTimers EXCEPT ![from] = @ - 1, ![to] = @ + 1]

EndTimer(from) ==
    /\ restartTimers[from] > 0
    /\ restartTimers' = [restartTimers EXCEPT ![from] = @ - 1]

RestartTimerFires ==
    /\ \E from \in {"armed", "stale"} : MoveTimer(from, "firing")
    /\ UNCHANGED <<loopVars, tokenVars, events, restart_result, waitingTimer,
                   lookup, restarts, sender, leave, notifier, done>>

RestartTimerSends ==
    /\ EndTimer("firing")
    /\ SendEvent("DelayedEventReset")
    /\ loop # "done"
    /\ UNCHANGED <<loopVars, tokenVars, restart_result, waitingTimer, lookup,
                   restarts, sender, leave, notifier, done>>

RestartTimerExits ==
    /\ \/ EndTimer("stale")
       \/ cancelled /\ \E from \in {"armed", "firing"} : EndTimer(from)
    /\ UNCHANGED <<loopVars, tokenVars, events, restart_result, waitingTimer,
                   lookup, restarts, sender, leave, notifier, done>>

-----------------------------------------------------------------------------
(* start_participant_lookup. *)

LookupUnchanged ==
    UNCHANGED <<loopVars, tokenVars, restart_result, waitingTimer,
                restartTimers, restarts, sender, leave, notifier, done>>

\* Phase 1 finds the participant, or its budget runs out.
LookupFinds ==
    /\ lookup = "polling"
    /\ lookup' = "found"
    /\ UNCHANGED events
    /\ LookupUnchanged

LookupGivesUp ==
    /\ lookup = "polling"
    /\ lookup' = "exited"
    /\ UNCHANGED events
    /\ LookupUnchanged

LookupReportsFound ==
    /\ lookup = "found"
    /\ SendEvent("ParticipantLookupSuccessful")
    /\ lookup' = IF SanityCheck THEN "watching" ELSE "exited"
    /\ LookupUnchanged

\* Phase 2 confirms the participant absent.
LookupMisses ==
    /\ lookup = "watching"
    /\ lookup' = "gone"
    /\ UNCHANGED events
    /\ LookupUnchanged

\* A mutant sends with try_send.
LookupTrySendsGone ==
    /\ lookup = "gone"
    /\ IF Len(events) < EventCap
       THEN SendEvent("SfuParticipantGone") ELSE UNCHANGED events
    /\ lookup' = "exited"
    /\ LookupUnchanged

LookupReportsGone ==
    /\ lookup = "gone"
    /\ SendEvent("SfuParticipantGone")
    /\ lookup' = "exited"
    /\ LookupUnchanged

\* A mutant does not race the token against its sends.
LookupSendsUnguarded ==
    /\ cancelled
    /\ lookup \notin {"found", "gone", "exited"}
    /\ lookup' = "exited"
    /\ UNCHANGED events
    /\ LookupUnchanged

LookupCancelled ==
    /\ cancelled
    /\ lookup # "exited"
    /\ lookup' = "exited"
    /\ UNCHANGED events
    /\ LookupUnchanged

-----------------------------------------------------------------------------
(* The ActionRestart task.  retry looks at the token before an attempt and  *)
(* during a backoff, never during an attempt.                               *)

RestartUnchanged ==
    UNCHANGED <<loopVars, tokenVars, waitingTimer, restartTimers, lookup,
                sender, leave, notifier, done>>

MoveRestart(from, to) ==
    /\ restarts[from] > 0
    /\ restarts' = [restarts EXCEPT ![from] = @ - 1, ![to] = @ + 1]

EndRestart(from) ==
    /\ restarts[from] > 0
    /\ restarts' = [restarts EXCEPT ![from] = @ - 1]

RestartResolves ==
    /\ \E to \in {"ready", "CsApiUrlNotFound"} : MoveRestart("resolving", to)
    /\ UNCHANGED <<events, restart_result>>
    /\ RestartUnchanged

RestartAttempts ==
    /\ ~cancelled
    /\ MoveRestart("ready", "inflight")
    /\ UNCHANGED <<events, restart_result>>
    /\ RestartUnchanged

\* 2xx, a transient failure, or one that is final: 404 and 409, any other
\* permanent error, and the budget spent.
RestartSucceeds ==
    /\ MoveRestart("inflight", "restarted")
    /\ UNCHANGED <<events, restart_result>>
    /\ RestartUnchanged

RestartBacksOff ==
    /\ MoveRestart("inflight", "ready")
    /\ UNCHANGED <<events, restart_result>>
    /\ RestartUnchanged

RestartFails ==
    /\ \E to \in {"DelayedEventNotFound", "DelayedEventTimedOut"} :
            MoveRestart("inflight", to)
    /\ UNCHANGED <<events, restart_result>>
    /\ RestartUnchanged

RestartTellsHandler ==
    /\ MoveRestart("restarted", "handover")
    /\ UNCHANGED <<events, restart_result>>
    /\ RestartUnchanged

RestartHandsOver ==
    /\ EndRestart("handover")
    /\ restart_result = 0
    /\ restart_result' = 1
    /\ UNCHANGED events
    /\ RestartUnchanged

RestartReports ==
    /\ \E failure \in RestartFailure :
            EndRestart(failure) /\ SendEvent(failure)
    /\ UNCHANGED restart_result
    /\ RestartUnchanged

RestartCancelled ==
    /\ cancelled
    /\ \E from \in RestartStage \ {"resolving", "inflight"} : EndRestart(from)
    /\ UNCHANGED <<events, restart_result>>
    /\ RestartUnchanged

-----------------------------------------------------------------------------
(* The ActionSend task of Disconnected, and the one of Aborted.             *)

SenderUnchanged ==
    UNCHANGED <<loopVars, tokenVars, events, restart_result, waitingTimer,
                restartTimers, lookup, restarts>>

SenderStep(from, to, outcome) ==
    /\ sender = from
    /\ sender' = to
    /\ leave' = outcome
    /\ UNCHANGED <<notifier, done>>
    /\ SenderUnchanged

\* Mutants tell the handler before the send, and not at all without a URL.
SendNotifiesFirst == SenderStep("resolving", "notify", leave)
SendReturnsEarly  == SenderStep("resolving", "exited", "unresolved")

SendResolves      == SenderStep("resolving", "ready", leave)
SendCannotResolve == SenderStep("resolving", "notify", "unresolved")
SendAttempts      == ~cancelled /\ SenderStep("ready", "inflight", leave)
SendSucceeds      == SenderStep("inflight", "notify", "sent")
SendBacksOff      == SenderStep("inflight", "ready", leave)
SendGivesUp       == SenderStep("inflight", "notify", "gaveup")
SendCancelled     == cancelled /\ SenderStep("ready", "notify", "cancelled")

\* The last select! of both tasks: done_tx.send against the job's token.
SenderNotifies ==
    /\ sender = "notify"
    /\ sender' = "exited"
    /\ done' \in {done + 1} \cup (IF cancelled THEN {done} ELSE {})
    /\ UNCHANGED <<leave, notifier>>
    /\ SenderUnchanged

NotifierNotifies ==
    /\ notifier = "notify"
    /\ notifier' = "exited"
    /\ done' \in {done + 1} \cup (IF cancelled THEN {done} ELSE {})
    /\ UNCHANGED <<sender, leave>>
    /\ SenderUnchanged

-----------------------------------------------------------------------------
(* The environment: time, and the handler. *)

DeadlinePasses ==
    /\ restart_deadline = "open"
    /\ restart_deadline' = "expired"
    /\ loop # "done"
    /\ UNCHANGED <<state, renewedIn, timers, taskVars, tokenVars, events,
                   restart_result>>

\* The handler routes a webhook; it waits while the channel is full.
RouteSfuEvent(signal) ==
    /\ ~replaced
    /\ loop # "done"
    /\ SendEvent(signal)
    /\ UNCHANGED <<loopVars, taskVars, tokenVars, restart_result>>

\* The handler replaces the job: try_send drops the signal when the channel
\* is full, and stop follows.
Replace ==
    /\ ~replaced
    /\ replaced' = TRUE
    /\ IF loop # "done" /\ Len(events) < EventCap
       THEN events' = Append(events, "JobReplaced")
       ELSE UNCHANGED events
    /\ UNCHANGED <<loopVars, taskVars, cancelled, loop, restart_result>>

\* stop: by the handler's clean-up, by a replacement, or by its shutdown.
Stop ==
    /\ ~cancelled
    /\ cancelled' = TRUE
    /\ UNCHANGED <<loopVars, taskVars, replaced, loop, events, restart_result>>

-----------------------------------------------------------------------------
HandleEvent(signal) ==
    HandleInternalAction(signal) \/ HandleTransition(signal)
        \/ IgnoreEvent(signal)

Loop ==
    \/ \E signal \in DelayedEventSignal : HandleEvent(signal)
    \/ ReceiveRestartResult
    \/ BeginExit
    \/ FinishExit

Timers ==
    \/ WaitingTimerFires \/ WaitingTimerSends \/ WaitingTimerExits
    \/ RestartTimerFires \/ RestartTimerSends \/ RestartTimerExits

Lookup ==
    \/ LookupFinds \/ LookupGivesUp \/ LookupReportsFound
    \/ LookupMisses \/ LookupReportsGone \/ LookupCancelled

RestartTask ==
    \/ RestartResolves \/ RestartAttempts \/ RestartSucceeds \/ RestartBacksOff
    \/ RestartFails \/ RestartTellsHandler \/ RestartHandsOver
    \/ RestartReports \/ RestartCancelled

SendTask ==
    \/ SendResolves \/ SendCannotResolve \/ SendAttempts \/ SendSucceeds
    \/ SendBacksOff \/ SendGivesUp \/ SendCancelled \/ SenderNotifies
    \/ NotifierNotifies

Environment ==
    \/ DeadlinePasses
    \/ \E signal \in Webhooks : RouteSfuEvent(signal)
    \/ Replace
    \/ Stop

\* The job is gone.
Terminated ==
    /\ loop = "done"
    /\ replaced
    /\ waitingTimer = "exited"
    /\ \A stage \in DOMAIN restartTimers : restartTimers[stage] = 0
    /\ UNCHANGED vars

Next ==
    Loop \/ Timers \/ Lookup \/ RestartTask \/ SendTask \/ Environment
        \/ Terminated

(***************************************************************************)
(* Fairness.  tokio polls every task that can make progress, and its       *)
(* select! picks at random among ready branches, hence weak fairness of    *)
(* the loop and of the steps of a task.  Strong fairness is assumed of     *)
(*   - sends on the event channel: its semaphore serves the waiting        *)
(*     senders in order;                                                   *)
(*   - the last attempt of a retry, whose budget is a bounded time.        *)
(* Nothing is assumed of the environment, except that stop follows a       *)
(* replacement.                                                            *)
(***************************************************************************)
Fairness ==
    /\ WF_vars(\E signal \in DelayedEventSignal : HandleEvent(signal))
    /\ WF_vars(ReceiveRestartResult)
    /\ WF_vars(BeginExit \/ FinishExit)
    /\ WF_vars(WaitingTimerFires \/ WaitingTimerExits)
    /\ WF_vars(RestartTimerFires \/ RestartTimerExits)
    /\ WF_vars(LookupGivesUp \/ LookupCancelled)
    /\ WF_vars(RestartResolves \/ RestartAttempts \/ RestartTellsHandler
                \/ RestartHandsOver \/ RestartCancelled)
    /\ WF_vars(SendResolves \/ SendCannotResolve \/ SendAttempts
                \/ SendCancelled \/ SenderNotifies)
    /\ WF_vars(NotifierNotifies)
    /\ WF_vars(replaced /\ Stop)
    /\ SF_vars(WaitingTimerSends) /\ SF_vars(RestartTimerSends)
    /\ SF_vars(LookupReportsFound \/ LookupReportsGone)
    /\ SF_vars(RestartReports)
    /\ SF_vars(RestartSucceeds \/ RestartFails)
    /\ SF_vars(SendSucceeds \/ SendGivesUp)

Spec == Init /\ [][Next]_vars

FairSpec == Spec /\ Fairness

-----------------------------------------------------------------------------
(* Properties. *)

\* Signals that end a restart or start the next one.
RestartSignal == RestartFailure \cup {"DelayedEventReset"}

RestartQueued == {i \in DOMAIN events : events[i] \in RestartSignal}

TimerTasks ==
    restartTimers["armed"] + restartTimers["stale"] + restartTimers["firing"]

TaskCount(tasks) ==
    tasks["resolving"] + tasks["ready"] + tasks["inflight"]
      + tasks["restarted"] + tasks["handover"] + tasks["DelayedEventTimedOut"]
      + tasks["DelayedEventNotFound"] + tasks["CsApiUrlNotFound"]

RestartTasks == TaskCount(restarts)

\* The tasks and the deadline that carry the restart cycle on.
RestartCarriers == restart_result + TimerTasks + RestartTasks

\* There is never more than one restart under way: over the running tasks, the
\* result channel, the timers and the event channel the cycle has at most one
\* carrier, however transitions, timer fires and stale results interleave.
\* (The comments on restart_result_tx and on the restart cycle.)
OneRestartCycle ==
    /\ RestartCarriers <= 1
    /\ \A i, j \in RestartQueued : i = j
    /\ RestartQueued # {} => RestartCarriers = 0

\* And while the job is Connected and not stopped the cycle is never lost: some
\* task, timer or queued signal always leads to the next restart or to the end.
RestartCycleAlive ==
    state = "Connected" /\ ~cancelled =>
        RestartCarriers = 1 \/ RestartQueued # {}

\* The strengthening that makes the two inductive: the cycle starts with the
\* transition to Connected, only leaving Connected or a stop makes a sleeping
\* timer stale, and the loop exits on a stop only.
RestartCycleInv ==
    /\ OneRestartCycle
    /\ RestartCycleAlive
    /\ state = "WaitingForInitialConnect" =>
            RestartCarriers = 0 /\ RestartQueued = {}
    /\ state = "Connected" => restartTimers["stale"] = 0 \/ cancelled
    /\ loop # "running" => cancelled

\* "Sends never block": a restart task that holds a new deadline always finds
\* the result channel empty.
ResultChannelHasRoom == restarts["handover"] > 0 => restart_result = 0

\* The job as its owner and the handler see it.
Phase ==
    CASE state = "WaitingForInitialConnect"    -> "waiting"
      [] state = "Connected"                   -> "keeping"
      [] state \in {"Disconnected", "Aborted"} -> "ended"
      [] OTHER                                 -> "replaced"

Leaving ==
    IF sender \in {"resolving", "ready", "inflight"} THEN "sending"
    ELSE IF leave \in {"gaveup", "unresolved"} THEN "failed" ELSE leave

Report ==
    IF "notify" \in {sender, notifier} THEN "owed"
    ELSE IF "exited" \in {sender, notifier} THEN "settled" ELSE "none"

Promise ==
    INSTANCE DelayedLeave WITH
        phase <- Phase, leave <- Leaving, report <- Report, told <- done,
        stopped <- cancelled, over <- loop = "done"

\* The job keeps the promise of DelayedLeave: whatever its tasks and timers do,
\* it ends once, the handler hears of it at most once and, if the leave event is
\* sent, only after the send has an outcome, which is a cancellation only if
\* the handler stopped the job; and what is over changes no more.
KeepsPromise == Promise!Spec

\* "Only apply while still Connected": the restart deadline is set in no state
\* but Connected, and no restart timer is armed in any other, or once the loop
\* exits.  The result of a slow restart that arrives after the job left Connected
\* changes neither the deadline, open as it may still be, nor the timers, which
\* "no path can leak".
StaleResultDiscarded ==
    /\ renewedIn \in {"none", "Connected"}
    /\ state # "Connected" \/ loop # "running" =>
            ~timers.restart /\ restartTimers["armed"] = 0

\* close "waits until all job tasks have exited": once it has seen the loop done,
\* the job makes no request and reports nothing.  (The timer tasks, which no wait
\* group counts, may still be unwinding.)
QuietAfterClose ==
    [][loop = "done" =>
         UNCHANGED <<state, lookup, restarts, sender, leave, notifier, done,
                     events>>]_vars

\* A job never waits for its participant for ever.
LeavesWaiting ==
    state = "WaitingForInitialConnect" ~>
        state # "WaitingForInitialConnect" \/ cancelled

\* A job that entered Disconnected or Aborted tells the handler, unless it is
\* stopped first, even with every channel full.
TerminalStateReported ==
    state \in {"Disconnected", "Aborted"} ~> done = 1 \/ cancelled

\* A stopped job's loop exits: nothing a task waits for can hold it.
StoppedJobExits == cancelled ~> loop = "done"

=============================================================================
