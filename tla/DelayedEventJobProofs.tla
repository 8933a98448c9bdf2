------------------------ MODULE DelayedEventJobProofs ------------------------
(***************************************************************************)
(* Proofs about one delayed-event job, for every capacity of its event     *)
(* channel, with and without the sanity check, and whatever webhooks the   *)
(* handler routes to it.                                                   *)
(***************************************************************************)
EXTENDS DelayedEventJob, Integers, SequenceTheorems, TLAPS

-----------------------------------------------------------------------------
(* The event channel. *)

\* A send keeps the channel well-formed and within its capacity.
LEMMA SendEventType ==
    ASSUME TypeOK, NEW signal \in DelayedEventSignal, SendEvent(signal)
    PROVE  events' \in Seq(DelayedEventSignal) /\ Len(events') <= EventCap
BY EventCapAssumption, AppendProperties DEF TypeOK, SendEvent

\* A receive returns a signal and keeps the channel well-formed.
LEMMA ReceiveEventType ==
    ASSUME TypeOK, NEW signal, ReceiveEvent(signal)
    PROVE  /\ signal \in DelayedEventSignal
           /\ events' \in Seq(DelayedEventSignal)
           /\ Len(events') <= EventCap
BY EventCapAssumption, HeadTailProperties DEF TypeOK, ReceiveEvent

\* Removing the first signal shifts the queued restart signals by one.
LEMMA TailQueued ==
    ASSUME TypeOK, events # <<>>, events' = Tail(events)
    PROVE  /\ \A i \in RestartQueued' : i + 1 \in RestartQueued
           /\ \A i \in RestartQueued : i = 1 \/ i - 1 \in RestartQueued'
           /\ 1 \in RestartQueued <=> Head(events) \in RestartSignal
           /\ RestartQueued \subseteq Nat
           /\ RestartQueued' \subseteq Nat
<1>1. /\ events \in Seq(DelayedEventSignal)
      /\ Len(events) \in Nat \ {0}
      /\ DOMAIN events = 1 .. Len(events)
      /\ Head(events) = events[1]
      /\ Len(Tail(events)) = Len(events) - 1
      /\ DOMAIN Tail(events) = 1 .. (Len(events) - 1)
      /\ \A i \in 1 .. (Len(events) - 1) : Tail(events)[i] = events[i + 1]
  BY HeadTailProperties, EmptySeq, LenProperties DEF TypeOK
<1> DEFINE queue == events
           rest == Tail(events)
<1>2. /\ RestartQueued = {i \in DOMAIN queue : queue[i] \in RestartSignal}
      /\ RestartQueued' = {i \in DOMAIN rest : rest[i] \in RestartSignal}
  BY DEF RestartQueued, RestartSignal, RestartFailure
<1> QED BY <1>1, <1>2

\* Appending a signal queues it at the end, if it is a restart signal.
LEMMA AppendQueued ==
    ASSUME TypeOK, NEW signal \in DelayedEventSignal, SendEvent(signal)
    PROVE  RestartQueued' = IF signal \in RestartSignal
                            THEN RestartQueued \cup {Len(events) + 1}
                            ELSE RestartQueued
<1>1. /\ events \in Seq(DelayedEventSignal)
      /\ Len(events) \in Nat
      /\ DOMAIN events = 1 .. Len(events)
      /\ DOMAIN Append(events, signal) = 1 .. (Len(events) + 1)
      /\ \A i \in 1 .. Len(events) : Append(events, signal)[i] = events[i]
      /\ Append(events, signal)[Len(events) + 1] = signal
  BY AppendProperties, LenProperties DEF TypeOK
<1> DEFINE queue == events
           longer == Append(events, signal)
<1>2. /\ RestartQueued = {i \in DOMAIN queue : queue[i] \in RestartSignal}
      /\ RestartQueued' = {i \in DOMAIN longer : longer[i] \in RestartSignal}
  BY DEF RestartQueued, RestartSignal, RestartFailure, SendEvent
<1> QED BY <1>1, <1>2

-----------------------------------------------------------------------------
(* The tasks of the restart cycle. *)

\* The stages, one by one.
LEMMA RestartStages ==
    RestartStage = {"resolving", "ready", "inflight", "restarted", "handover",
                    "DelayedEventTimedOut", "DelayedEventNotFound",
                    "CsApiUrlNotFound"}
BY DEF RestartStage, RestartFailure

\* more counts d tasks more than tasks at one stage.
Adds(more, tasks, stage, d) ==
    \A s \in RestartStage :
        more[s] = IF s = stage THEN tasks[s] + d ELSE tasks[s]

\* Adding d to the count of one stage adds d to the number of tasks.
LEMMA TaskCountAdd ==
    ASSUME NEW tasks \in [RestartStage -> Int], NEW stage \in RestartStage,
           NEW d \in Int, NEW more, Adds(more, tasks, stage, d)
    PROVE  TaskCount(more) = TaskCount(tasks) + d
<1> DEFINE Added(s) == more[s] = IF s = stage THEN tasks[s] + d ELSE tasks[s]
<1>1. /\ tasks["resolving"] \in Int
      /\ tasks["ready"] \in Int
      /\ tasks["inflight"] \in Int
      /\ tasks["restarted"] \in Int
      /\ tasks["handover"] \in Int
      /\ tasks["DelayedEventTimedOut"] \in Int
      /\ tasks["DelayedEventNotFound"] \in Int
      /\ tasks["CsApiUrlNotFound"] \in Int
  BY RestartStages
<1>2. \A s \in RestartStage : Added(s)
  BY DEF Adds
<1>3. /\ Added("resolving")
      /\ Added("ready")
      /\ Added("inflight")
      /\ Added("restarted")
      /\ Added("handover")
      /\ Added("DelayedEventTimedOut")
      /\ Added("DelayedEventNotFound")
      /\ Added("CsApiUrlNotFound")
  BY <1>2, RestartStages
<1>c1. CASE stage = "resolving"
  BY <1>1, <1>3, <1>c1 DEF TaskCount
<1>c2. CASE stage = "ready"
  BY <1>1, <1>3, <1>c2 DEF TaskCount
<1>c3. CASE stage = "inflight"
  BY <1>1, <1>3, <1>c3 DEF TaskCount
<1>c4. CASE stage = "restarted"
  BY <1>1, <1>3, <1>c4 DEF TaskCount
<1>c5. CASE stage = "handover"
  BY <1>1, <1>3, <1>c5 DEF TaskCount
<1>c6. CASE stage = "DelayedEventTimedOut"
  BY <1>1, <1>3, <1>c6 DEF TaskCount
<1>c7. CASE stage = "DelayedEventNotFound"
  BY <1>1, <1>3, <1>c7 DEF TaskCount
<1>c8. CASE stage = "CsApiUrlNotFound"
  BY <1>1, <1>3, <1>c8 DEF TaskCount
<1> QED
  BY <1>c1, <1>c2, <1>c3, <1>c4, <1>c5, <1>c6, <1>c7, <1>c8, RestartStages

\* A number of tasks is a natural number, and no stage has more than it.
LEMMA TaskCountNat ==
    ASSUME NEW tasks \in [RestartStage -> Nat]
    PROVE  /\ TaskCount(tasks) \in Nat
           /\ tasks["handover"] \in Nat
           /\ tasks["handover"] <= TaskCount(tasks)
<1>1. /\ tasks["resolving"] \in Nat
      /\ tasks["ready"] \in Nat
      /\ tasks["inflight"] \in Nat
      /\ tasks["restarted"] \in Nat
      /\ tasks["handover"] \in Nat
      /\ tasks["DelayedEventTimedOut"] \in Nat
      /\ tasks["DelayedEventNotFound"] \in Nat
      /\ tasks["CsApiUrlNotFound"] \in Nat
  BY RestartStages
<1> QED BY <1>1 DEF TaskCount

\* The counts of the restart tasks are numbers.
LEMMA RestartTasksType ==
    ASSUME TypeOK
    PROVE  /\ restarts \in [RestartStage -> Int]
           /\ RestartTasks \in Nat
           /\ restarts["handover"] \in Nat
           /\ restarts["handover"] <= RestartTasks
BY TaskCountNat DEF TypeOK, RestartTasks

\* A restart task that goes on to another stage is still one task.
LEMMA MoveRestartTasks ==
    ASSUME TypeOK, NEW from \in RestartStage, NEW to \in RestartStage,
           from # to, MoveRestart(from, to)
    PROVE  /\ restarts' \in [RestartStage -> Nat]
           /\ RestartTasks' = RestartTasks
<1> DEFINE less == [restarts EXCEPT ![from] = @ - 1]
<1>1. restarts' \in [RestartStage -> Nat]
  BY DEF TypeOK, MoveRestart
<1>2. less \in [RestartStage -> Int]
  BY DEF TypeOK
<1>3. Adds(less, restarts, from, -1)
  BY DEF TypeOK, Adds
<1>4. Adds(restarts', less, to, 1)
  BY DEF TypeOK, Adds, MoveRestart
<1> HIDE DEF less
<1>5. TaskCount(less) = TaskCount(restarts) + (-1)
  BY <1>3, TaskCountAdd, RestartTasksType
<1>6. TaskCount(restarts') = TaskCount(less) + 1
  BY <1>2, <1>4, TaskCountAdd
<1> QED BY <1>1, <1>5, <1>6, RestartTasksType DEF RestartTasks

\* A restart task that ends leaves one task less.
LEMMA EndRestartTasks ==
    ASSUME TypeOK, NEW from \in RestartStage, EndRestart(from)
    PROVE  /\ restarts' \in [RestartStage -> Nat]
           /\ RestartTasks' = RestartTasks - 1
<1>1. restarts' \in [RestartStage -> Nat]
  BY DEF TypeOK, EndRestart
<1>2. Adds(restarts', restarts, from, -1)
  BY DEF TypeOK, Adds, EndRestart
<1>3. TaskCount(restarts') = TaskCount(restarts) + (-1)
  BY <1>2, TaskCountAdd, RestartTasksType
<1> QED BY <1>1, <1>3, RestartTasksType DEF RestartTasks

\* Starting a restart spawns one task.
LEMMA StartRestartTasks ==
    ASSUME TypeOK, NEW deadline,
           restarts' = start_delayed_event_restart(deadline)
    PROVE  /\ restarts' \in [RestartStage -> Nat]
           /\ RestartTasks' = RestartTasks + 1
<1> DEFINE first == IF deadline = "open" THEN "resolving"
                                         ELSE "DelayedEventTimedOut"
<1>1. first \in RestartStage
  BY RestartStages
<1>2. restarts' = [restarts EXCEPT ![first] = @ + 1]
  BY DEF start_delayed_event_restart
<1> HIDE DEF first
<1>3. restarts' \in [RestartStage -> Nat]
  BY <1>1, <1>2 DEF TypeOK
<1>4. Adds(restarts', restarts, first, 1)
  BY <1>1, <1>2 DEF TypeOK, Adds
<1>5. TaskCount(restarts') = TaskCount(restarts) + 1
  BY <1>1, <1>4, TaskCountAdd, RestartTasksType
<1> QED BY <1>3, <1>5 DEF RestartTasks

\* A timer task that goes on to another stage is still one task.
LEMMA MoveTimerTasks ==
    ASSUME TypeOK, NEW from \in {"armed", "stale"}, MoveTimer(from, "firing")
    PROVE  /\ restartTimers' \in [{"armed", "stale", "firing"} -> Nat]
           /\ TimerTasks' = TimerTasks
           /\ restartTimers'["armed"] <= restartTimers["armed"]
           /\ restartTimers'["stale"] <= restartTimers["stale"]
<1>1. /\ restartTimers \in [{"armed", "stale", "firing"} -> Nat]
      /\ restartTimers[from] > 0
      /\ restartTimers' = [restartTimers EXCEPT ![from] = @ - 1, !["firing"] = @ + 1]
  BY DEF TypeOK, MoveTimer
<1>2. restartTimers' \in [{"armed", "stale", "firing"} -> Nat]
  BY <1>1
<1> QED
  BY <1>1, <1>2 DEF TimerTasks

\* A timer task that ends leaves one task less.
LEMMA EndTimerTasks ==
    ASSUME TypeOK, NEW from \in {"armed", "stale", "firing"}, EndTimer(from)
    PROVE  /\ restartTimers' \in [{"armed", "stale", "firing"} -> Nat]
           /\ TimerTasks' = TimerTasks - 1
           /\ TimerTasks > 0
           /\ restartTimers'["armed"] <= restartTimers["armed"]
           /\ restartTimers'["stale"] <= restartTimers["stale"]
           /\ from = "stale" => restartTimers["stale"] > 0
<1>1. CASE from = "armed"
  BY <1>1 DEF TypeOK, EndTimer, TimerTasks
<1>2. CASE from = "stale"
  BY <1>2 DEF TypeOK, EndTimer, TimerTasks
<1>3. CASE from = "firing"
  BY <1>3 DEF TypeOK, EndTimer, TimerTasks
<1> QED BY <1>1, <1>2, <1>3

\* Cancelling the restart timer turns its sleeping task into a stale one.
LEMMA CancelTimerTasks ==
    ASSUME TypeOK, restartTimers' = CancelRestartTimer
    PROVE  /\ restartTimers' \in [{"armed", "stale", "firing"} -> Nat]
           /\ TimerTasks' = TimerTasks
           /\ restartTimers'["armed"] = 0
BY DEF TypeOK, CancelRestartTimer, TimerTasks

\* Re-arming adds one sleeping task to those.
LEMMA RearmTimerTasks ==
    ASSUME TypeOK, restartTimers' = [CancelRestartTimer EXCEPT !["armed"] = 1]
    PROVE  /\ restartTimers' \in [{"armed", "stale", "firing"} -> Nat]
           /\ TimerTasks' = TimerTasks + 1
           /\ restartTimers'["stale"]
                = restartTimers["stale"] + restartTimers["armed"]
BY DEF TypeOK, CancelRestartTimer, TimerTasks

\* The counts are numbers, and each stage is one of the terms.
LEMMA CarriersType ==
    ASSUME TypeOK
    PROVE  /\ restart_result \in {0, 1}
           /\ TimerTasks \in Nat
           /\ RestartTasks \in Nat
           /\ RestartCarriers \in Nat
           /\ RestartCarriers = restart_result + TimerTasks + RestartTasks
           /\ restartTimers["armed"] \in Nat
           /\ restartTimers["stale"] \in Nat
           /\ restartTimers["armed"] + restartTimers["stale"] <= TimerTasks
           /\ restarts["handover"] \in Nat
           /\ restarts["handover"] <= RestartTasks
<1>1. /\ restart_result \in {0, 1}
      /\ restartTimers["armed"] \in Nat
      /\ restartTimers["stale"] \in Nat
      /\ restartTimers["firing"] \in Nat
  BY DEF TypeOK
<1>2. /\ TimerTasks \in Nat
      /\ restartTimers["armed"] + restartTimers["stale"] <= TimerTasks
  BY <1>1 DEF TimerTasks
<1> QED BY <1>1, <1>2, RestartTasksType DEF RestartCarriers

-----------------------------------------------------------------------------
(* Type correctness. *)

\* A step of the loop keeps every variable in its type.
LEMMA LoopType ==
    ASSUME TypeOK, Loop
    PROVE  TypeOK'
<1>1. ASSUME NEW signal \in DelayedEventSignal, HandleInternalAction(signal)
      PROVE  TypeOK'
  BY <1>1, ReceiveEventType, StartRestartTasks
     DEF TypeOK, HandleInternalAction, loopVars, tokenVars
<1>2. ASSUME NEW signal \in DelayedEventSignal, HandleTransition(signal)
      PROVE  TypeOK'
  <2>1. PICK new \in DelayEventState :
            /\ state' = new
            /\ handle_state_exit_action(state)
            /\ handle_state_entry_action(new)
    BY <1>2 DEF HandleTransition
  <2>2. events' \in Seq(DelayedEventSignal) /\ Len(events') <= EventCap
    BY <1>2, ReceiveEventType DEF HandleTransition
  <2>3. timers' \in [waiting : BOOLEAN, restart : BOOLEAN]
    BY <2>1 DEF handle_state_exit_action, TypeOK
  <2>4. restartTimers' \in [{"armed", "stale", "firing"} -> Nat]
    BY <2>1, CancelTimerTasks DEF handle_state_exit_action, TypeOK
  <2>5. restarts' \in [RestartStage -> Nat]
    BY <2>1, StartRestartTasks DEF handle_state_entry_action, TypeOK
  <2>6. /\ restart_deadline' \in {"unset", "open", "expired"}
        /\ sender' \in SenderStage
        /\ notifier' \in {"idle", "notify", "exited"}
        /\ renewedIn' \in DelayEventState \cup {"none"}
    BY <2>1 DEF handle_state_entry_action, TypeOK, SenderStage
  <2> QED
    BY <1>2, <2>1, <2>2, <2>3, <2>4, <2>5, <2>6
       DEF HandleTransition, TypeOK, tokenVars
<1>3. ASSUME NEW signal \in DelayedEventSignal, IgnoreEvent(signal)
      PROVE  TypeOK'
  BY <1>3, ReceiveEventType
     DEF TypeOK, IgnoreEvent, loopVars, taskVars, tokenVars
<1>4. CASE ReceiveRestartResult
  BY <1>4, RearmTimerTasks DEF TypeOK, ReceiveRestartResult, tokenVars
<1>5. CASE BeginExit
  BY <1>5, CancelTimerTasks DEF TypeOK, BeginExit
<1>6. CASE FinishExit
  BY <1>6, EmptySeq, EventCapAssumption
     DEF TypeOK, FinishExit, loopVars, taskVars
<1> QED BY <1>1, <1>2, <1>3, <1>4, <1>5, <1>6 DEF Loop, HandleEvent

\* A step of a timer or of the lookup keeps every variable in its type.
LEMMA TimerType ==
    ASSUME TypeOK, Timers \/ Lookup
    PROVE  TypeOK'
<1> USE DEF loopVars, tokenVars
<1>1. CASE WaitingTimerFires \/ WaitingTimerExits
  BY <1>1 DEF WaitingTimerFires, WaitingTimerExits, TypeOK, TimerStage
<1>2. CASE WaitingTimerSends
  <2>1. "WaitingStateTimedOut" \in DelayedEventSignal
    BY DEF DelayedEventSignal
  <2> QED
    BY <1>2, <2>1, SendEventType DEF WaitingTimerSends, TypeOK, TimerStage
<1>3. CASE RestartTimerFires
  BY <1>3, MoveTimerTasks DEF RestartTimerFires, TypeOK
<1>4. CASE RestartTimerSends
  <2>1. "DelayedEventReset" \in DelayedEventSignal
    BY DEF DelayedEventSignal
  <2> QED BY <1>4, <2>1, SendEventType, EndTimerTasks
             DEF RestartTimerSends, TypeOK
<1>5. CASE RestartTimerExits
  BY <1>5, EndTimerTasks DEF RestartTimerExits, TypeOK
<1>6. CASE LookupFinds \/ LookupGivesUp \/ LookupMisses \/ LookupCancelled
  BY <1>6 DEF LookupFinds, LookupGivesUp, LookupMisses, LookupCancelled,
              LookupUnchanged, TypeOK, LookupStage
<1>7. CASE LookupReportsFound \/ LookupReportsGone
  <2>1. /\ "ParticipantLookupSuccessful" \in DelayedEventSignal
        /\ "SfuParticipantGone" \in DelayedEventSignal
    BY DEF DelayedEventSignal
  <2> QED BY <1>7, <2>1, SendEventType
             DEF LookupReportsFound, LookupReportsGone, LookupUnchanged,
                 TypeOK, LookupStage
<1> QED BY <1>1, <1>2, <1>3, <1>4, <1>5, <1>6, <1>7 DEF Timers, Lookup

\* A step of a restart task keeps every variable in its type.
LEMMA RestartType ==
    ASSUME TypeOK, RestartTask
    PROVE  TypeOK'
<1> USE DEF RestartUnchanged, loopVars, tokenVars
<1>1. ASSUME NEW from \in RestartStage, NEW to \in RestartStage, from # to,
             MoveRestart(from, to), UNCHANGED <<events, restart_result>>,
             RestartUnchanged
      PROVE  TypeOK'
  BY <1>1, MoveRestartTasks DEF TypeOK
<1>2. CASE \/ RestartResolves \/ RestartAttempts \/ RestartSucceeds
           \/ RestartBacksOff \/ RestartFails \/ RestartTellsHandler
  BY <1>1, <1>2, RestartStages
     DEF RestartResolves, RestartAttempts, RestartSucceeds, RestartBacksOff,
         RestartFails, RestartTellsHandler
<1>3. CASE RestartHandsOver
  BY <1>3, EndRestartTasks, RestartStages DEF RestartHandsOver, TypeOK
<1>4. CASE RestartReports
  <2>1. PICK failure \in RestartFailure :
            EndRestart(failure) /\ SendEvent(failure)
    BY <1>4 DEF RestartReports
  <2>2. failure \in RestartStage /\ failure \in DelayedEventSignal
    BY DEF RestartStage, DelayedEventSignal
  <2> QED BY <1>4, <2>1, <2>2, EndRestartTasks, SendEventType
             DEF RestartReports, TypeOK
<1>5. CASE RestartCancelled
  BY <1>5, EndRestartTasks DEF RestartCancelled, TypeOK
<1> QED BY <1>2, <1>3, <1>4, <1>5 DEF RestartTask

\* So does a step of the send task, and one of the environment.
LEMMA SenderType ==
    ASSUME TypeOK, SendTask
    PROVE  TypeOK'
<1> USE DEF SenderUnchanged, loopVars, tokenVars
<1>1. CASE SenderNotifies \/ NotifierNotifies
  BY <1>1 DEF SenderNotifies, NotifierNotifies, TypeOK, SenderStage
<1>2. CASE ~(SenderNotifies \/ NotifierNotifies)
  BY <1>2 DEF SendTask, SendResolves, SendCannotResolve, SendAttempts,
              SendSucceeds, SendBacksOff, SendGivesUp, SendCancelled,
              SenderStep, TypeOK, SenderStage, LeaveOutcome
<1> QED BY <1>1, <1>2

LEMMA EnvironmentType ==
    ASSUME TypeOK, Environment
    PROVE  TypeOK'
<1> USE DEF loopVars, taskVars, tokenVars
<1>1. CASE DeadlinePasses \/ Stop
  BY <1>1 DEF DeadlinePasses, Stop, TypeOK
<1>2. ASSUME NEW signal \in Webhooks, RouteSfuEvent(signal)
      PROVE  TypeOK'
  <2>1. signal \in DelayedEventSignal
    BY WebhooksAssumption DEF DelayedEventSignal
  <2> QED BY <1>2, <2>1, SendEventType DEF RouteSfuEvent, TypeOK
<1>3. CASE Replace
  <2>1. "JobReplaced" \in DelayedEventSignal
    BY DEF DelayedEventSignal
  <2>2. events' = events \/ SendEvent("JobReplaced")
    BY <1>3 DEF Replace, SendEvent
  <2> QED BY <1>3, <2>1, <2>2, SendEventType DEF Replace, TypeOK
<1> QED BY <1>1, <1>2, <1>3 DEF Environment

\* Every reachable state of a job is well-formed: no channel is over its
\* capacity, every task is at one of its awaits, no count is negative.
THEOREM TypeCorrect == Spec => []TypeOK
<1>1. Init => TypeOK
  <2>1. /\ "WaitingForInitialConnect" \in DelayEventState
        /\ "polling" \in LookupStage
        /\ "idle" \in SenderStage
        /\ "none" \in LeaveOutcome
        /\ "sleeping" \in TimerStage
    BY DEF DelayEventState, LookupStage, SenderStage, LeaveOutcome, TimerStage
  <2>2. Init => events \in Seq(DelayedEventSignal) /\ Len(events) <= EventCap
    BY EmptySeq, EventCapAssumption DEF Init
  <2>3. Init => /\ restarts \in [RestartStage -> Nat]
                /\ restartTimers \in [{"armed", "stale", "firing"} -> Nat]
                /\ timers \in [waiting : BOOLEAN, restart : BOOLEAN]
    BY DEF Init
  <2> QED BY <2>1, <2>2, <2>3 DEF Init, TypeOK
<1>2. TypeOK /\ [Next]_vars => TypeOK'
  <2> SUFFICES ASSUME TypeOK, [Next]_vars
               PROVE  TypeOK'
    OBVIOUS
  <2>1. CASE Terminated \/ UNCHANGED vars
    BY <2>1 DEF Terminated, vars, loopVars, taskVars, tokenVars, TypeOK
  <2> QED
    BY <2>1, LoopType, TimerType, RestartType, SenderType, EnvironmentType
       DEF Next
<1> QED BY <1>1, <1>2, PTL DEF Spec

-----------------------------------------------------------------------------
(* The restart cycle has one carrier. *)

\* The number of carriers stays a natural number.
LEMMA CarriersNat ==
    ASSUME TypeOK'
    PROVE  RestartCarriers' \in Nat
<1>1. /\ restart_result' \in {0, 1}
      /\ restartTimers' \in [{"armed", "stale", "firing"} -> Nat]
      /\ restarts' \in [RestartStage -> Nat]
  BY DEF TypeOK
<1>2. TaskCount(restarts') \in Nat
  BY <1>1, TaskCountNat
<1> QED BY <1>1, <1>2 DEF RestartCarriers, TimerTasks, RestartTasks

\* An unchanged channel holds the same restart signals.
LEMMA SameQueued ==
    ASSUME UNCHANGED events
    PROVE  RestartQueued' = RestartQueued
BY DEF RestartQueued, RestartSignal, RestartFailure

\* Queued signals that do not belong to the cycle leave it alone.
LEMMA OtherQueued ==
    ASSUME TypeOK, NEW signal \in DelayedEventSignal, SendEvent(signal),
           signal \notin RestartSignal
    PROVE  RestartQueued' = RestartQueued
BY AppendQueued

\* Tasks that do not belong to the cycle leave its carriers alone.
LEMMA SameCarriers ==
    ASSUME UNCHANGED <<restart_result, restartTimers, restarts>>
    PROVE  /\ RestartCarriers' = RestartCarriers
           /\ restartTimers'["stale"] = restartTimers["stale"]
BY DEF RestartCarriers, TimerTasks, RestartTasks, TaskCount

\* A step that moves the carrier, if any, without ending the cycle.
LEMMA CycleGoesOn ==
    ASSUME TypeOK, TypeOK', RestartCycleInv, UNCHANGED <<state, loop>>,
           cancelled => cancelled',
           RestartCarriers' = RestartCarriers,
           RestartQueued' = RestartQueued,
           restartTimers'["stale"] <= restartTimers["stale"]
    PROVE  RestartCycleInv'
<1>1. /\ restartTimers["stale"] \in Nat
      /\ restartTimers'["stale"] \in Nat
      /\ cancelled \in BOOLEAN /\ cancelled' \in BOOLEAN
  BY DEF TypeOK
<1>2. OneRestartCycle'
  BY DEF OneRestartCycle, RestartCycleInv
<1>3. RestartCycleAlive'
  BY DEF RestartCycleAlive, RestartCycleInv
<1> QED BY <1>1, <1>2, <1>3 DEF RestartCycleInv

\* A step of a stopped job, which may also end the cycle.
LEMMA CycleStopped ==
    ASSUME TypeOK, TypeOK', RestartCycleInv, UNCHANGED state, cancelled',
           RestartCarriers' <= RestartCarriers,
           RestartQueued' \subseteq RestartQueued
    PROVE  RestartCycleInv'
<1>1. RestartCarriers \in Nat /\ RestartCarriers' \in Nat
  <2>1. RestartCarriers \in Nat
    BY CarriersType
  <2>2. RestartCarriers' \in Nat
    BY CarriersNat
  <2> QED BY <2>1, <2>2
<1>2. OneRestartCycle'
  BY <1>1 DEF OneRestartCycle, RestartCycleInv
<1>3. RestartCycleAlive'
  BY DEF RestartCycleAlive
<1> QED BY <1>1, <1>2, <1>3 DEF RestartCycleInv

\* The carrier puts its signal on the event channel.
LEMMA CycleReports ==
    ASSUME TypeOK, TypeOK', RestartCycleInv, UNCHANGED <<state, loop>>,
           cancelled => cancelled',
           NEW signal \in RestartSignal, SendEvent(signal),
           RestartCarriers' = RestartCarriers - 1,
           restartTimers'["stale"] <= restartTimers["stale"]
    PROVE  RestartCycleInv'
<1>1. /\ RestartCarriers \in Nat /\ RestartCarriers' \in Nat
      /\ Len(events) \in Nat
  <2>1. RestartCarriers \in Nat
    BY CarriersType
  <2>2. RestartCarriers' \in Nat
    BY CarriersNat
  <2>3. Len(events) \in Nat
    BY LenProperties DEF TypeOK
  <2> QED BY <2>1, <2>2, <2>3
<1>2. RestartCarriers = 1 /\ RestartQueued = {} /\ RestartCarriers' = 0
  BY <1>1 DEF RestartCycleInv, OneRestartCycle
<1>3. RestartQueued' = {Len(events) + 1}
  <2>1. signal \in DelayedEventSignal
    BY DEF RestartSignal, DelayedEventSignal
  <2> QED BY <1>2, <2>1, AppendQueued
<1>4. OneRestartCycle' /\ RestartCycleAlive'
  BY <1>2, <1>3 DEF OneRestartCycle, RestartCycleAlive
<1>5. /\ restartTimers["stale"] \in Nat
      /\ restartTimers'["stale"] \in Nat
      /\ cancelled \in BOOLEAN /\ cancelled' \in BOOLEAN
  BY DEF TypeOK
<1> QED BY <1>2, <1>4, <1>5 DEF RestartCycleInv

\* A signal the loop takes from the channel without acting on it.
LEMMA IgnoreKeepsCycle ==
    ASSUME TypeOK, TypeOK', RestartCycleInv,
           NEW signal \in DelayedEventSignal, IgnoreEvent(signal)
    PROVE  RestartCycleInv'
<1> USE DEF loopVars, taskVars, tokenVars
<1>1. /\ events # <<>> /\ events' = Tail(events) /\ signal = Head(events)
      /\ UNCHANGED <<state, cancelled, loop>>
      /\ RestartCarriers' = RestartCarriers
      /\ restartTimers'["stale"] = restartTimers["stale"]
  BY SameCarriers DEF IgnoreEvent, ReceiveEvent
<1>2. OneRestartCycle'
  <2>1. RestartQueued' # {} => RestartQueued # {}
    BY <1>1, TailQueued
  <2>2. \A i, j \in RestartQueued' : i = j
    BY <1>1, TailQueued DEF RestartCycleInv, OneRestartCycle
  <2> QED BY <1>1, <2>1, <2>2 DEF RestartCycleInv, OneRestartCycle
<1>3. RestartCycleAlive'
  <2>1. state = "Connected" => signal \notin RestartSignal
    BY DEF IgnoreEvent, RestartSignal, RestartFailure, fsm_transitions,
           fsm_internal_actions, DelayEventState
  <2>2. state = "Connected" /\ RestartQueued # {} => RestartQueued' # {}
    BY <1>1, <2>1, TailQueued
  <2> QED BY <1>1, <2>2 DEF RestartCycleInv, RestartCycleAlive
<1>4. RestartQueued = {} => RestartQueued' = {}
  BY <1>1, TailQueued
<1> QED BY <1>1, <1>2, <1>3, <1>4 DEF RestartCycleInv

\* A DelayedEventReset that starts the next restart: the signal was the
\* carrier, the task it starts is the next one.
LEMMA ResetKeepsCycle ==
    ASSUME TypeOK, TypeOK', RestartCycleInv,
           NEW signal \in DelayedEventSignal, HandleInternalAction(signal)
    PROVE  RestartCycleInv'
<1>1. /\ events # <<>> /\ events' = Tail(events) /\ signal = Head(events)
      /\ state = "Connected" /\ signal \in RestartSignal
      /\ UNCHANGED <<state, cancelled, loop, restart_result, restartTimers>>
      /\ restarts' = start_delayed_event_restart(restart_deadline)
  BY DEF HandleInternalAction, ReceiveEvent, fsm_internal_actions,
         RestartSignal, loopVars, tokenVars
<1>2. RestartCarriers = 0 /\ RestartQueued' = {}
  <2>1. 1 \in RestartQueued
    BY <1>1, TailQueued
  <2>2. RestartQueued \subseteq {1}
    BY <2>1 DEF RestartCycleInv, OneRestartCycle
  <2>3. \A i \in RestartQueued' : i + 1 = 1 /\ i \in Nat
    BY <1>1, <2>2, TailQueued
  <2>4. RestartQueued' \subseteq {0} /\ 0 \notin DOMAIN events'
    <3>1. DOMAIN events' = 1 .. Len(events')
      BY LenProperties DEF TypeOK
    <3> QED BY <2>3, <3>1
  <2>5. RestartQueued' \subseteq DOMAIN events'
    BY DEF RestartQueued
  <2> QED BY <2>1, <2>4, <2>5 DEF RestartCycleInv, OneRestartCycle
<1>3. RestartCarriers' = 1
  <2>1. RestartTasks' = RestartTasks + 1 /\ TimerTasks' = TimerTasks
    BY <1>1, StartRestartTasks DEF TimerTasks
  <2> QED BY <1>1, <1>2, <2>1, CarriersType DEF RestartCarriers
<1> QED
  BY <1>1, <1>2, <1>3
     DEF RestartCycleInv, OneRestartCycle, RestartCycleAlive

\* A transition: entering Connected starts the cycle, and any other one leaves
\* its carrier, if it still has one, to run out.
LEMMA TransitionKeepsCycle ==
    ASSUME TypeOK, TypeOK', RestartCycleInv,
           NEW signal \in DelayedEventSignal, HandleTransition(signal)
    PROVE  RestartCycleInv'
<1>1. PICK new \in DelayEventState :
          /\ <<state, signal, new>> \in fsm_transitions
          /\ state' = new
          /\ handle_state_exit_action(state)
          /\ handle_state_entry_action(new)
  BY DEF HandleTransition
<1>2. /\ events # <<>> /\ events' = Tail(events)
      /\ UNCHANGED <<restart_result, loop, cancelled>>
  BY DEF HandleTransition, ReceiveEvent, tokenVars
<1>3. /\ new # "WaitingForInitialConnect"
      /\ new = "Connected" => state = "WaitingForInitialConnect"
  BY <1>1 DEF fsm_transitions
<1>4. RestartQueued = {} => RestartQueued' = {}
  BY <1>2, TailQueued
<1>5. TimerTasks' = TimerTasks
  BY <1>1, CancelTimerTasks DEF handle_state_exit_action, TimerTasks
<1>6. CASE new = "Connected"
  <2>1. RestartCarriers = 0 /\ RestartQueued' = {}
    BY <1>3, <1>4, <1>6 DEF RestartCycleInv
  <2>2. RestartTasks' = RestartTasks + 1
    BY <1>1, <1>6, StartRestartTasks DEF handle_state_entry_action
  <2>3. RestartCarriers' = 1
    BY <1>2, <1>5, <2>1, <2>2, CarriersType DEF RestartCarriers
  <2>4. restartTimers' = restartTimers
    BY <1>1, <1>3, <1>6 DEF handle_state_exit_action
  <2>5. restartTimers["stale"] = 0
    <3>1. TimerTasks = 0
      BY <2>1, CarriersType
    <3> QED BY <3>1, CarriersType
  <2> QED
    BY <1>1, <1>2, <1>6, <2>1, <2>3, <2>4, <2>5
       DEF RestartCycleInv, OneRestartCycle, RestartCycleAlive
<1>7. CASE new # "Connected"
  <2>1. RestartTasks' = RestartTasks
    BY <1>1, <1>7 DEF handle_state_entry_action, RestartTasks
  <2>2. RestartCarriers' = RestartCarriers
    BY <1>2, <1>5, <2>1 DEF RestartCarriers
  <2>3. \A i, j \in RestartQueued' : i = j
    BY <1>2, TailQueued DEF RestartCycleInv, OneRestartCycle
  <2> QED
    BY <1>1, <1>2, <1>3, <1>4, <1>7, <2>2, <2>3
       DEF RestartCycleInv, OneRestartCycle, RestartCycleAlive
<1> QED BY <1>6, <1>7

\* A deadline read from the result channel was the carrier: a Connected job
\* arms its timer, any other drops it.
LEMMA ResultKeepsCycle ==
    ASSUME TypeOK, TypeOK', RestartCycleInv, ReceiveRestartResult
    PROVE  RestartCycleInv'
<1>1. /\ restart_result = 1 /\ restart_result' = 0
      /\ UNCHANGED <<state, events, restarts, loop, cancelled>>
  BY DEF ReceiveRestartResult, tokenVars
<1>2. /\ RestartTasks' = RestartTasks
      /\ RestartQueued' = RestartQueued
  BY <1>1, SameQueued DEF RestartTasks
<1>3. /\ RestartCarriers = 1 /\ TimerTasks = 0 /\ RestartTasks = 0
      /\ RestartQueued = {}
      /\ restartTimers["armed"] = 0 /\ restartTimers["stale"] = 0
  BY <1>1, CarriersType DEF RestartCycleInv, OneRestartCycle
<1>4. CASE state = "Connected"
  <2>1. restartTimers' = [CancelRestartTimer EXCEPT !["armed"] = 1]
    BY <1>4 DEF ReceiveRestartResult, AppliesResult
  <2>2. TimerTasks' = 1 /\ restartTimers'["stale"] = 0
    BY <1>3, <2>1, RearmTimerTasks
  <2>3. RestartCarriers' = 1
    BY <1>1, <1>2, <1>3, <2>2 DEF RestartCarriers
  <2> QED
    BY <1>1, <1>2, <1>3, <1>4, <2>2, <2>3
       DEF RestartCycleInv, OneRestartCycle, RestartCycleAlive
<1>5. CASE state # "Connected"
  <2>1. UNCHANGED restartTimers
    BY <1>5 DEF ReceiveRestartResult, AppliesResult
  <2>2. RestartCarriers' = 0
    BY <1>1, <1>2, <1>3, <2>1 DEF RestartCarriers, TimerTasks
  <2> QED
    BY <1>1, <1>2, <1>3, <1>5, <2>2
       DEF RestartCycleInv, OneRestartCycle, RestartCycleAlive
<1> QED BY <1>4, <1>5

\* The exit of the loop.
LEMMA ExitKeepsCycle ==
    ASSUME TypeOK, TypeOK', RestartCycleInv, BeginExit \/ FinishExit
    PROVE  RestartCycleInv'
<1>1. UNCHANGED <<state, restarts, cancelled>> /\ cancelled
  BY DEF BeginExit, FinishExit, loopVars, taskVars, RestartCycleInv
<1>2. RestartTasks' = RestartTasks
  BY <1>1 DEF RestartTasks
<1>3. CASE BeginExit
  <2>1. TimerTasks' = TimerTasks
    BY <1>3, CancelTimerTasks DEF BeginExit
  <2>2. RestartCarriers' = RestartCarriers /\ RestartQueued' = RestartQueued
    BY <1>2, <1>3, <2>1, SameQueued DEF BeginExit, RestartCarriers
  <2> QED BY <1>1, <2>2, CycleStopped, CarriersType
<1>4. CASE FinishExit
  <2>1. TimerTasks' = TimerTasks
    BY <1>4 DEF FinishExit, taskVars, TimerTasks
  <2>2. restart_result' = 0 /\ events' = <<>>
    BY <1>4 DEF FinishExit
  <2>3. RestartQueued' = {}
    <3>1. DOMAIN events' = 1 .. Len(events') /\ Len(events') = 0
      BY <2>2, EmptySeq, LenProperties DEF TypeOK
    <3> QED BY <3>1 DEF RestartQueued
  <2>4. RestartCarriers' <= RestartCarriers
    BY <1>2, <2>1, <2>2, CarriersType DEF RestartCarriers
  <2> QED BY <1>1, <2>3, <2>4, CycleStopped
<1> QED BY <1>3, <1>4

\* A step of a timer or of the lookup.
LEMMA TimersKeepCycle ==
    ASSUME TypeOK, TypeOK', RestartCycleInv, Timers \/ Lookup
    PROVE  RestartCycleInv'
<1> USE DEF loopVars, tokenVars
<1>1. CASE \/ WaitingTimerFires \/ WaitingTimerExits
           \/ LookupFinds \/ LookupGivesUp \/ LookupMisses \/ LookupCancelled
  <2>1. UNCHANGED <<state, cancelled, loop, events, restart_result,
                    restartTimers, restarts>>
    BY <1>1 DEF WaitingTimerFires, WaitingTimerExits, LookupFinds,
                LookupGivesUp, LookupMisses, LookupCancelled, LookupUnchanged
  <2> QED BY <2>1, SameCarriers, SameQueued, CycleGoesOn, CarriersType
<1>2. CASE WaitingTimerSends \/ LookupReportsFound \/ LookupReportsGone
  <2>1. PICK signal \in {"WaitingStateTimedOut", "ParticipantLookupSuccessful",
                         "SfuParticipantGone"} : SendEvent(signal)
    BY <1>2 DEF WaitingTimerSends, LookupReportsFound, LookupReportsGone
  <2>2. signal \in DelayedEventSignal /\ signal \notin RestartSignal
    BY DEF DelayedEventSignal, RestartSignal, RestartFailure
  <2>3. UNCHANGED <<state, cancelled, loop, restart_result, restartTimers,
                    restarts>>
    BY <1>2 DEF WaitingTimerSends, LookupReportsFound, LookupReportsGone,
                LookupUnchanged
  <2> QED
    BY <2>1, <2>2, <2>3, SameCarriers, OtherQueued, CycleGoesOn, CarriersType
<1>3. CASE RestartTimerFires
  <2>1. UNCHANGED <<state, cancelled, loop, events, restart_result, restarts>>
    BY <1>3 DEF RestartTimerFires
  <2>2. /\ TimerTasks' = TimerTasks
        /\ restartTimers'["stale"] <= restartTimers["stale"]
    BY <1>3, MoveTimerTasks DEF RestartTimerFires
  <2>3. RestartCarriers' = RestartCarriers
    BY <2>1, <2>2 DEF RestartCarriers, RestartTasks
  <2> QED BY <2>1, <2>2, <2>3, SameQueued, CycleGoesOn
<1>4. CASE RestartTimerSends
  <2>1. /\ UNCHANGED <<state, cancelled, loop, restart_result, restarts>>
        /\ SendEvent("DelayedEventReset")
    BY <1>4 DEF RestartTimerSends
  <2>2. /\ TimerTasks' = TimerTasks - 1
        /\ restartTimers'["stale"] <= restartTimers["stale"]
    BY <1>4, EndTimerTasks DEF RestartTimerSends
  <2>3. RestartCarriers' = RestartCarriers - 1
    BY <2>1, <2>2, CarriersType DEF RestartCarriers, RestartTasks
  <2>4. "DelayedEventReset" \in RestartSignal
    BY DEF RestartSignal
  <2> QED BY <2>1, <2>2, <2>3, <2>4, CycleReports
<1>5. CASE RestartTimerExits
  <2>1. UNCHANGED <<state, cancelled, loop, events, restart_result, restarts>>
    BY <1>5 DEF RestartTimerExits
  <2>2. /\ TimerTasks' = TimerTasks - 1
        /\ restartTimers'["stale"] <= restartTimers["stale"]
        /\ cancelled \/ restartTimers["stale"] > 0
    BY <1>5, EndTimerTasks DEF RestartTimerExits
  <2>3. RestartCarriers' <= RestartCarriers
    BY <2>1, <2>2, CarriersType DEF RestartCarriers, RestartTasks
  <2>4. RestartQueued' = RestartQueued
    BY <2>1, SameQueued
  <2>5. CASE cancelled
    BY <2>1, <2>3, <2>4, <2>5, CycleStopped
  <2>6. CASE ~cancelled /\ restartTimers["stale"] > 0
    <3>1. state # "Connected" /\ loop = "running"
      BY <2>6, CarriersType DEF RestartCycleInv
    <3>2. RestartCarriers \in Nat /\ RestartCarriers' \in Nat
      BY CarriersType, CarriersNat
    <3> QED BY <2>1, <2>3, <2>4, <3>1, <3>2
            DEF RestartCycleInv, OneRestartCycle, RestartCycleAlive
  <2> QED BY <2>2, <2>5, <2>6 DEF TypeOK
<1> QED BY <1>1, <1>2, <1>3, <1>4, <1>5 DEF Timers, Lookup

\* A step of a restart task.
LEMMA RestartKeepsCycle ==
    ASSUME TypeOK, TypeOK', RestartCycleInv, RestartTask
    PROVE  RestartCycleInv'
<1> USE DEF RestartUnchanged, loopVars, tokenVars
<1>1. /\ UNCHANGED <<state, cancelled, loop, restartTimers>>
      /\ TimerTasks' = TimerTasks
      /\ restartTimers'["stale"] <= restartTimers["stale"]
  <2>1. UNCHANGED <<state, cancelled, loop, restartTimers>>
    BY DEF RestartTask, RestartResolves, RestartAttempts, RestartSucceeds,
           RestartBacksOff, RestartFails, RestartTellsHandler,
           RestartHandsOver, RestartReports, RestartCancelled
  <2> QED BY <2>1, CarriersType DEF TimerTasks
<1>2. ASSUME NEW from \in RestartStage, NEW to \in RestartStage, from # to,
             MoveRestart(from, to), UNCHANGED <<events, restart_result>>
      PROVE  RestartCycleInv'
  <2>1. RestartCarriers' = RestartCarriers
    BY <1>1, <1>2, MoveRestartTasks DEF RestartCarriers
  <2> QED BY <1>1, <1>2, <2>1, SameQueued, CycleGoesOn
<1>3. CASE \/ RestartResolves \/ RestartAttempts \/ RestartSucceeds
           \/ RestartBacksOff \/ RestartFails \/ RestartTellsHandler
  BY <1>2, <1>3, RestartStages
     DEF RestartResolves, RestartAttempts, RestartSucceeds, RestartBacksOff,
         RestartFails, RestartTellsHandler
<1>4. CASE RestartHandsOver
  <2>1. /\ RestartTasks' = RestartTasks - 1
        /\ restart_result = 0 /\ restart_result' = 1 /\ UNCHANGED events
    BY <1>4, EndRestartTasks, RestartStages DEF RestartHandsOver
  <2>2. RestartCarriers' = RestartCarriers
    BY <1>1, <2>1, CarriersType DEF RestartCarriers
  <2> QED BY <1>1, <2>1, <2>2, SameQueued, CycleGoesOn
<1>5. CASE RestartReports
  <2>1. PICK failure \in RestartFailure :
            EndRestart(failure) /\ SendEvent(failure)
    BY <1>5 DEF RestartReports
  <2>2. failure \in RestartStage /\ failure \in RestartSignal
    BY DEF RestartStage, RestartSignal
  <2>3. RestartTasks' = RestartTasks - 1 /\ restart_result' = restart_result
    BY <1>5, <2>1, <2>2, EndRestartTasks DEF RestartReports
  <2>4. RestartCarriers' = RestartCarriers - 1
    <3>1. RestartCarriers' = restart_result + TimerTasks + (RestartTasks - 1)
      BY <1>1, <2>3 DEF RestartCarriers
    <3>2. /\ restart_result \in Int /\ TimerTasks \in Int
          /\ RestartTasks \in Int
          /\ RestartCarriers = restart_result + TimerTasks + RestartTasks
      BY CarriersType
    <3> QED BY <3>1, <3>2
  <2>5. /\ UNCHANGED <<state, loop>> /\ (cancelled => cancelled')
        /\ restartTimers'["stale"] <= restartTimers["stale"]
    BY <1>1
  <2> QED BY <2>1, <2>2, <2>4, <2>5, CycleReports
<1>6. CASE RestartCancelled
  <2>1. /\ cancelled /\ RestartTasks' = RestartTasks - 1
        /\ UNCHANGED <<events, restart_result>>
    BY <1>6, EndRestartTasks DEF RestartCancelled
  <2>2. RestartCarriers' <= RestartCarriers
    BY <1>1, <2>1, CarriersType DEF RestartCarriers
  <2> QED BY <1>1, <2>1, <2>2, SameQueued, CycleStopped
<1> QED BY <1>3, <1>4, <1>5, <1>6 DEF RestartTask

\* A step of the send task or of the environment.
LEMMA OthersKeepCycle ==
    ASSUME TypeOK, TypeOK', RestartCycleInv, SendTask \/ Environment
    PROVE  RestartCycleInv'
<1> USE DEF loopVars, taskVars, tokenVars
<1>1. CASE SendTask
  <2>1. UNCHANGED <<state, cancelled, loop, events, restart_result,
                    restartTimers, restarts>>
    BY <1>1 DEF SendTask, SendResolves, SendCannotResolve, SendAttempts,
                SendSucceeds, SendBacksOff, SendGivesUp, SendCancelled,
                SenderStep, SenderNotifies, NotifierNotifies, SenderUnchanged
  <2> QED BY <2>1, SameCarriers, SameQueued, CycleGoesOn, CarriersType
<1>2. CASE Environment
  <2>1. /\ UNCHANGED <<state, loop, restart_result, restartTimers, restarts>>
        /\ cancelled => cancelled'
    BY <1>2 DEF Environment, DeadlinePasses, RouteSfuEvent, Replace, Stop
  <2>2. RestartQueued' = RestartQueued
    <3>1. CASE UNCHANGED events
      BY <3>1, SameQueued
    <3>2. CASE \E signal \in SfuSignal \cup {"JobReplaced"} : SendEvent(signal)
      <4>1. PICK signal \in SfuSignal \cup {"JobReplaced"} : SendEvent(signal)
        BY <3>2
      <4>2. signal \in DelayedEventSignal /\ signal \notin RestartSignal
        BY DEF DelayedEventSignal, SfuSignal, RestartSignal, RestartFailure
      <4> QED BY <4>1, <4>2, OtherQueued
    <3> QED
      BY <1>2, <3>1, <3>2, WebhooksAssumption
         DEF Environment, DeadlinePasses, RouteSfuEvent, Replace, Stop,
             SendEvent
  <2> QED BY <2>1, <2>2, SameCarriers, CycleGoesOn, CarriersType
<1> QED BY <1>1, <1>2

\* The strengthened invariant holds in every reachable state.
THEOREM RestartCycleInvariant == Spec => []RestartCycleInv
<1>1. Init => RestartCycleInv
  <2> SUFFICES ASSUME Init PROVE RestartCycleInv
    OBVIOUS
  <2>1. RestartCarriers = 0
    <3>1. /\ restarts["resolving"] = 0
          /\ restarts["ready"] = 0
          /\ restarts["inflight"] = 0
          /\ restarts["restarted"] = 0
          /\ restarts["handover"] = 0
          /\ restarts["DelayedEventTimedOut"] = 0
          /\ restarts["DelayedEventNotFound"] = 0
          /\ restarts["CsApiUrlNotFound"] = 0
      BY RestartStages DEF Init
    <3>2. RestartTasks = 0
      BY <3>1 DEF RestartTasks, TaskCount
    <3> QED BY <3>2 DEF Init, RestartCarriers, TimerTasks
  <2>2. RestartQueued = {}
    <3>1. events = <<>> /\ events \in Seq(DelayedEventSignal)
      BY EmptySeq DEF Init
    <3>2. DOMAIN events = 1 .. Len(events) /\ Len(events) = 0
      BY <3>1, EmptySeq, LenProperties
    <3> QED BY <3>2 DEF RestartQueued
  <2> QED BY <2>1, <2>2
          DEF Init, RestartCycleInv, OneRestartCycle, RestartCycleAlive
<1>2. TypeOK /\ TypeOK' /\ RestartCycleInv /\ [Next]_vars => RestartCycleInv'
  <2> SUFFICES ASSUME TypeOK, TypeOK', RestartCycleInv, [Next]_vars
               PROVE  RestartCycleInv'
    OBVIOUS
  <2>1. CASE Loop
    BY <2>1, IgnoreKeepsCycle, ResetKeepsCycle, TransitionKeepsCycle,
       ResultKeepsCycle, ExitKeepsCycle DEF Loop, HandleEvent
  <2>2. CASE Terminated \/ UNCHANGED vars
    <3>1. UNCHANGED vars
      BY <2>2 DEF Terminated
    <3>2. UNCHANGED <<state, cancelled, loop, events, restart_result,
                      restartTimers, restarts>>
      BY <3>1 DEF vars, loopVars, taskVars, tokenVars
    <3> QED BY <3>2, SameCarriers, SameQueued, CycleGoesOn, CarriersType
  <2> QED
    BY <2>1, <2>2, TimersKeepCycle, RestartKeepsCycle, OthersKeepCycle DEF Next
<1> QED BY <1>1, <1>2, TypeCorrect, PTL DEF Spec

\* However transitions, timer fires, webhooks, stale results and a stop
\* interleave, there is never more than one restart under way.
THEOREM AtMostOneRestart == Spec => []OneRestartCycle
BY RestartCycleInvariant, PTL DEF RestartCycleInv

\* A Connected job that is not stopped never loses its restart cycle.
THEOREM RestartNeverLost == Spec => []RestartCycleAlive
BY RestartCycleInvariant, PTL DEF RestartCycleInv

\* A new deadline always finds room in the result channel.
THEOREM ResultNeverBlocks == Spec => []ResultChannelHasRoom
<1>1. TypeOK /\ RestartCycleInv => ResultChannelHasRoom
  BY CarriersType
     DEF RestartCycleInv, OneRestartCycle, ResultChannelHasRoom
<1> QED BY <1>1, TypeCorrect, RestartCycleInvariant, PTL

-----------------------------------------------------------------------------
(* What a late result and a late step may not do.                           *)

\* Where the restart timer must not be armed.
Unarmed == ~timers.restart /\ restartTimers["armed"] = 0

\* A step that sets no deadline and arms no timer, and does not leave Connected
\* or begin the exit.
LEMMA OtherStepsArmNothing ==
    ASSUME TypeOK, StaleResultDiscarded,
           UNCHANGED <<state, loop, renewedIn, timers>>,
           restartTimers["armed"] = 0 => restartTimers'["armed"] = 0
    PROVE  StaleResultDiscarded'
BY DEF StaleResultDiscarded

\* A transition sets the deadline when it enters Connected only, and disarms the
\* timer when it leaves.
LEMMA TransitionDiscards ==
    ASSUME TypeOK, StaleResultDiscarded,
           NEW signal \in DelayedEventSignal, HandleTransition(signal)
    PROVE  StaleResultDiscarded'
<1>1. PICK new \in DelayEventState :
          /\ state' = new
          /\ handle_state_exit_action(state)
          /\ handle_state_entry_action(new)
  BY DEF HandleTransition
<1>2. loop = "running" /\ loop' = loop
  BY DEF HandleTransition, ReceiveEvent, tokenVars
<1>3. renewedIn' \in {"none", "Connected"}
  BY <1>1 DEF handle_state_entry_action, StaleResultDiscarded
<1>4. CASE state = "Connected"
  <2>1. Unarmed'
    BY <1>1, <1>4 DEF handle_state_exit_action, CancelRestartTimer, TypeOK, Unarmed
  <2> QED
    BY <1>3, <2>1 DEF StaleResultDiscarded, Unarmed
<1>5. CASE state # "Connected"
  <2>1. Unarmed'
    BY <1>1, <1>5 DEF handle_state_exit_action, StaleResultDiscarded, Unarmed
  <2> QED
    BY <1>3, <2>1 DEF StaleResultDiscarded, Unarmed
<1> QED
  BY <1>4, <1>5

\* A restart result is applied to a Connected job only; the exit disarms.
LEMMA LoopDiscards ==
    ASSUME TypeOK, StaleResultDiscarded, Loop
    PROVE  StaleResultDiscarded'
<1>1. CASE \E signal \in DelayedEventSignal : HandleTransition(signal)
  BY <1>1, TransitionDiscards
<1>2. CASE \/ \E signal \in DelayedEventSignal :
                  HandleInternalAction(signal) \/ IgnoreEvent(signal)
           \/ FinishExit
  BY <1>2 DEF HandleInternalAction, IgnoreEvent, FinishExit, loopVars, taskVars,
              tokenVars, StaleResultDiscarded
<1>3. CASE ReceiveRestartResult
  <2>1. /\ loop = "running" /\ loop' = loop /\ state' = state
        /\ renewedIn' \in {renewedIn, "Connected"}
        /\ state # "Connected" => UNCHANGED <<timers, restartTimers>>
    BY <1>3 DEF ReceiveRestartResult, AppliesResult, tokenVars
  <2> QED
    BY <2>1 DEF StaleResultDiscarded
<1>4. CASE BeginExit
  <2>1. Unarmed' /\ renewedIn' = renewedIn
    BY <1>4 DEF BeginExit, CancelRestartTimer, TypeOK, Unarmed
  <2> QED
    BY <2>1 DEF StaleResultDiscarded, Unarmed
<1> QED
  BY <1>1, <1>2, <1>3, <1>4 DEF Loop, HandleEvent

\* No task arms a timer.
LEMMA TasksDiscard ==
    ASSUME TypeOK, StaleResultDiscarded,
           Timers \/ Lookup \/ RestartTask \/ SendTask \/ Environment
             \/ Terminated \/ UNCHANGED vars
    PROVE  StaleResultDiscarded'
<1>1. UNCHANGED <<state, renewedIn, timers>> /\ loop' = loop
  <2> USE DEF loopVars, tokenVars
  <2>1. CASE Timers
    BY <2>1 DEF Timers, WaitingTimerFires, WaitingTimerSends,
         WaitingTimerExits, RestartTimerFires, RestartTimerSends,
         RestartTimerExits
  <2>2. CASE Lookup
    BY <2>2 DEF Lookup, LookupFinds, LookupGivesUp, LookupReportsFound,
         LookupMisses, LookupReportsGone, LookupCancelled, LookupUnchanged
  <2>3. CASE RestartTask
    BY <2>3 DEF RestartTask, RestartResolves, RestartAttempts,
         RestartSucceeds, RestartBacksOff, RestartFails, RestartTellsHandler,
         RestartHandsOver, RestartReports, RestartCancelled, RestartUnchanged
  <2>4. CASE SendTask
    BY <2>4 DEF SendTask, SendResolves, SendCannotResolve,
         SendAttempts, SendSucceeds, SendBacksOff, SendGivesUp, SendCancelled,
         SenderNotifies, NotifierNotifies, SenderStep, SenderUnchanged
  <2>5. CASE Environment \/ Terminated \/ UNCHANGED vars
    BY <2>5 DEF Environment, DeadlinePasses, RouteSfuEvent, Replace,
         Stop, Terminated, vars
  <2> QED
    BY <2>1, <2>2, <2>3, <2>4, <2>5
<1>2. restartTimers["armed"] = 0 => restartTimers'["armed"] = 0
  <2>1. CASE Timers
    BY <2>1 DEF Timers, WaitingTimerFires, WaitingTimerSends,
         WaitingTimerExits, RestartTimerFires, RestartTimerSends,
         RestartTimerExits, MoveTimer, EndTimer, TypeOK
  <2>2. CASE Lookup \/ RestartTask
    BY <2>2 DEF Lookup, LookupFinds, LookupGivesUp, LookupReportsFound,
         LookupMisses, LookupReportsGone, LookupCancelled, LookupUnchanged,
         RestartTask, RestartResolves, RestartAttempts,
         RestartSucceeds, RestartBacksOff, RestartFails, RestartTellsHandler,
         RestartHandsOver, RestartReports, RestartCancelled, RestartUnchanged
  <2>3. CASE SendTask
    BY <2>3 DEF SendTask, SendResolves, SendCannotResolve,
         SendAttempts, SendSucceeds, SendBacksOff, SendGivesUp, SendCancelled,
         SenderNotifies, NotifierNotifies, SenderStep, SenderUnchanged
  <2>4. CASE Environment \/ Terminated \/ UNCHANGED vars
    BY <2>4 DEF Environment, DeadlinePasses, RouteSfuEvent, Replace,
         Stop, Terminated, vars, taskVars
  <2> QED
    BY <2>1, <2>2, <2>3, <2>4
<1> QED
  BY <1>1, <1>2, OtherStepsArmNothing

\* The restart deadline is set in Connected only, and outside Connected and after
\* the exit no restart timer is armed: a stale result is dropped.
THEOREM StaleIsDiscarded == Spec => []StaleResultDiscarded
<1>1. Init => StaleResultDiscarded
  BY DEF Init, StaleResultDiscarded
<1>2. TypeOK /\ StaleResultDiscarded /\ [Next]_vars => StaleResultDiscarded'
  BY LoopDiscards, TasksDiscard DEF Next
<1> QED
  BY <1>1, <1>2, TypeCorrect, PTL DEF Spec

\* The loop is done only after every task that its wait group counts.
TasksEnd == loop = "done" => ~Background

\* What a job that is done still does concerns its timers only: the tasks have
\* ended, the loop takes no more signals, and nobody sends it one.
LEMMA DoneIsQuiet ==
  ASSUME TypeOK, TasksEnd, loop = "done", [Next]_vars
  PROVE  UNCHANGED <<state, lookup, restarts, sender, leave, notifier, done,
                     events, loop>>
<1> USE DEF loopVars, taskVars, tokenVars
<1>1. /\ lookup = "exited"
      /\ sender \in {"idle", "exited"}
      /\ notifier # "notify"
      /\ \A stage \in RestartStage : ~(restarts[stage] > 0)
  BY DEF TasksEnd, Background
<1>2. ~Loop
  BY DEF Loop, HandleEvent, HandleInternalAction, HandleTransition,
         IgnoreEvent, ReceiveEvent, ReceiveRestartResult, BeginExit, FinishExit
<1>3. CASE Timers
  BY <1>3 DEF Timers, WaitingTimerFires, WaitingTimerSends,
       WaitingTimerExits, RestartTimerFires, RestartTimerSends,
       RestartTimerExits
<1>4. ~Lookup
  BY <1>1 DEF Lookup, LookupFinds, LookupGivesUp, LookupReportsFound,
       LookupMisses, LookupReportsGone, LookupCancelled
<1>5. ~RestartTask
  BY <1>1 DEF RestartTask, RestartResolves, RestartAttempts,
       RestartSucceeds, RestartBacksOff, RestartFails, RestartTellsHandler,
       RestartHandsOver, RestartReports, RestartCancelled, MoveRestart,
       EndRestart, RestartStage, RestartFailure
<1>6. ~SendTask
  BY <1>1 DEF SendTask, SendResolves, SendCannotResolve, SendAttempts,
       SendSucceeds, SendBacksOff, SendGivesUp, SendCancelled, SenderNotifies,
       NotifierNotifies, SenderStep
<1>7. CASE Environment
  <2>1. CASE Replace
    BY <2>1 DEF Replace
  <2>2. CASE Stop
    BY <2>2 DEF Stop
  <2>3. ~DeadlinePasses /\ \A signal \in Webhooks : ~RouteSfuEvent(signal)
    BY DEF DeadlinePasses, RouteSfuEvent
  <2> QED
    BY <1>7, <2>1, <2>2, <2>3 DEF Environment
<1>8. CASE Terminated \/ UNCHANGED vars
  BY <1>8 DEF Terminated, vars
<1> QED
  BY <1>2, <1>3, <1>4, <1>5, <1>6, <1>7, <1>8 DEF Next

\* Whoever has seen the loop done, as close() does, sees nothing more of the job:
\* no request, no report, no signal.
THEOREM QuietOnceDone == Spec => QuietAfterClose
<1>1. Init => TasksEnd
  BY DEF Init, TasksEnd
<1>2. TypeOK /\ TasksEnd /\ [Next]_vars => TasksEnd'
  <2> SUFFICES ASSUME TypeOK, TasksEnd, [Next]_vars PROVE TasksEnd'
    OBVIOUS
  <2>1. CASE loop = "done"
    BY <2>1, DoneIsQuiet DEF TasksEnd, Background
  <2>2. CASE FinishExit
    BY <2>2 DEF FinishExit, TasksEnd, Background, taskVars
  <2>3. CASE loop # "done" /\ ~FinishExit
    <3>1. loop' # "done"
      <4>1. CASE Loop
        BY <2>3, <4>1 DEF Loop, HandleEvent, HandleInternalAction,
             HandleTransition, IgnoreEvent, ReceiveRestartResult, BeginExit,
             tokenVars
      <4>2. CASE Timers
        BY <2>3, <4>2 DEF Timers, WaitingTimerFires, WaitingTimerSends,
             WaitingTimerExits, RestartTimerFires, RestartTimerSends,
             RestartTimerExits, tokenVars
      <4>3. CASE Lookup
        BY <2>3, <4>3 DEF Lookup, LookupFinds, LookupGivesUp,
             LookupReportsFound, LookupMisses, LookupReportsGone,
             LookupCancelled, LookupUnchanged, tokenVars
      <4>4. CASE RestartTask
        BY <2>3, <4>4 DEF RestartTask, RestartResolves, RestartAttempts,
             RestartSucceeds, RestartBacksOff, RestartFails,
             RestartTellsHandler, RestartHandsOver, RestartReports,
             RestartCancelled, RestartUnchanged, tokenVars
      <4>5. CASE SendTask
        BY <2>3, <4>5 DEF SendTask, SendResolves, SendCannotResolve,
             SendAttempts, SendSucceeds, SendBacksOff, SendGivesUp,
             SendCancelled, SenderNotifies, NotifierNotifies, SenderStep,
             SenderUnchanged, tokenVars
      <4>6. CASE Environment \/ Terminated \/ UNCHANGED vars
        BY <2>3, <4>6 DEF Environment, DeadlinePasses, RouteSfuEvent,
             Replace, Stop, Terminated, vars, tokenVars
      <4> QED
        BY <4>1, <4>2, <4>3, <4>4, <4>5, <4>6 DEF Next
    <3> QED
      BY <3>1 DEF TasksEnd
  <2> QED
    BY <2>1, <2>2, <2>3
<1>3. TypeOK /\ TasksEnd /\ [Next]_vars =>
        [loop = "done" =>
            UNCHANGED <<state, lookup, restarts, sender, leave, notifier,
                        done, events>>]_vars
  BY DoneIsQuiet
<1> QED
  BY <1>1, <1>2, <1>3, TypeCorrect, PTL DEF Spec, QuietAfterClose

=============================================================================
