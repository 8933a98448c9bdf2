--------------------------- MODULE DelayedLeaveProofs ---------------------------
(***************************************************************************)
(* DelayedEventJob implements DelayedLeave, and among a participant, the   *)
(* SFU and a homeserver (DelegatedLeave) it acts on what is so: for every  *)
(* capacity of its event channel, with and without the sanity check,       *)
(* whatever webhooks the handler routes to it and whatever is lost.        *)
(*                                                                         *)
(* EndInv says which task can be at work in which state: a job ends by     *)
(* ActionSend or by the notification of Aborted, never by both, and the    *)
(* loop is over only when the one it had is.  SignInv says that every sign *)
(* of a leave, wherever it is on its way to the loop, is a true one.       *)
(***************************************************************************)
EXTENDS DelegatedLeave, DelayedEventJobProofs

EndInv ==
    /\ leave \in LeaveOutcome
    /\ state \in {"WaitingForInitialConnect", "Connected", "Aborted"} =>
            sender = "idle"
    /\ state \in {"WaitingForInitialConnect", "Connected", "Disconnected"} =>
            notifier = "idle"
    /\ sender = "idle" \/ notifier = "idle"
    /\ sender \in {"idle", "resolving", "ready", "inflight"} => leave = "none"
    /\ loop # "running" => cancelled
    /\ loop = "done" => sender \in {"idle", "exited"} /\ notifier # "notify"

\* What the two see of the job, and the invariant, depends on these variables.
LEMMA SameView ==
  ASSUME UNCHANGED <<state, sender, leave, notifier, done, cancelled, loop>>
  PROVE  UNCHANGED <<Phase, Leaving, Report, done, cancelled, loop = "done">>
BY DEF Phase, Leaving, Report

LEMMA SameViewKeepsInv ==
  ASSUME EndInv,
         UNCHANGED <<state, sender, leave, notifier, done, cancelled, loop>>
  PROVE  EndInv'
BY DEF EndInv

\* The table only leads on, and from an end only to Replaced.
LEMMA TransitionsLeadOn ==
  ASSUME NEW signal, NEW new, <<state, signal, new>> \in fsm_transitions
  PROVE  \/ state = "WaitingForInitialConnect" /\ new = "Connected"
         \/ /\ state \in {"WaitingForInitialConnect", "Connected"}
            /\ new \in {"Disconnected", "Aborted"}
         \/ /\ state \in {"WaitingForInitialConnect", "Connected",
                          "Disconnected", "Aborted"}
            /\ new = "Replaced"
BY DEF fsm_transitions

\* Every step other than those of the two tasks, a transition, a stop and the
\* exit of the loop is a stutter.
LEMMA OtherStepsUnseen ==
  ASSUME \/ Timers \/ Lookup \/ RestartTask \/ ReceiveRestartResult
         \/ DeadlinePasses \/ Replace \/ Terminated \/ UNCHANGED vars
         \/ \E signal \in Webhooks : RouteSfuEvent(signal)
         \/ \E signal \in DelayedEventSignal :
                HandleInternalAction(signal) \/ IgnoreEvent(signal)
  PROVE  UNCHANGED <<state, sender, leave, notifier, done, cancelled, loop>>
<1> USE DEF loopVars, taskVars, tokenVars
<1>1. CASE Timers
  BY <1>1 DEF Timers, WaitingTimerFires, WaitingTimerSends, WaitingTimerExits,
              RestartTimerFires, RestartTimerSends, RestartTimerExits
<1>2. CASE Lookup
  BY <1>2 DEF Lookup, LookupFinds, LookupGivesUp, LookupReportsFound,
              LookupMisses, LookupReportsGone, LookupCancelled, LookupUnchanged
<1>3. CASE RestartTask
  BY <1>3 DEF RestartTask, RestartResolves, RestartAttempts, RestartSucceeds,
              RestartBacksOff, RestartFails, RestartTellsHandler,
              RestartHandsOver, RestartReports, RestartCancelled,
              RestartUnchanged
<1>4. CASE ReceiveRestartResult \/ DeadlinePasses \/ Replace
  BY <1>4 DEF ReceiveRestartResult, DeadlinePasses, Replace
<1>5. CASE Terminated \/ UNCHANGED vars
  BY <1>5 DEF Terminated, vars
<1>6. CASE \E signal \in Webhooks : RouteSfuEvent(signal)
  BY <1>6 DEF RouteSfuEvent
<1>7. CASE \E signal \in DelayedEventSignal :
              HandleInternalAction(signal) \/ IgnoreEvent(signal)
  BY <1>7 DEF HandleInternalAction, IgnoreEvent
<1> QED
  BY <1>1, <1>2, <1>3, <1>4, <1>5, <1>6, <1>7

\* A transition keeps the invariant and connects, ends or replaces the job.
LEMMA TransitionKeepsPromise ==
  ASSUME EndInv, NEW signal \in DelayedEventSignal, HandleTransition(signal)
  PROVE  EndInv' /\ Promise!Next
<1>1. PICK new : /\ <<state, signal, new>> \in fsm_transitions
                 /\ state' = new
                 /\ sender' = IF new = "Disconnected" THEN "resolving" ELSE sender
                 /\ notifier' = IF new = "Aborted" THEN "notify" ELSE notifier
  BY DEF HandleTransition, handle_state_entry_action
<1>2. loop = "running" /\ UNCHANGED <<leave, done, cancelled, loop>>
  BY DEF HandleTransition, ReceiveEvent, tokenVars
<1>3. CASE state = "WaitingForInitialConnect" /\ new = "Connected"
  <2>1. EndInv'
    BY <1>1, <1>2, <1>3 DEF EndInv
  <2>2. Promise!Connect
    BY <1>1, <1>2, <1>3 DEF Promise!Connect, Phase, Leaving, Report
  <2> QED
    BY <2>1, <2>2, <1>2 DEF Promise!Next
<1>4. CASE /\ state \in {"WaitingForInitialConnect", "Connected"}
           /\ new = "Disconnected"
  <2>1. EndInv'
    BY <1>1, <1>2, <1>4 DEF EndInv
  <2>2. Promise!BeginSend
    BY <1>1, <1>2, <1>4 DEF Promise!BeginSend, Phase, Leaving, Report, EndInv
  <2> QED
    BY <2>1, <2>2, <1>2 DEF Promise!Next
<1>5. CASE /\ state \in {"WaitingForInitialConnect", "Connected"}
           /\ new = "Aborted"
  <2>1. EndInv'
    BY <1>1, <1>2, <1>5 DEF EndInv
  <2>2. Promise!Abort
    BY <1>1, <1>2, <1>5 DEF Promise!Abort, Phase, Leaving, Report, EndInv
  <2> QED
    BY <2>1, <2>2, <1>2 DEF Promise!Next
<1>6. CASE /\ state \in {"WaitingForInitialConnect", "Connected",
                         "Disconnected", "Aborted"}
           /\ new = "Replaced"
  <2>1. EndInv'
    BY <1>1, <1>2, <1>6 DEF EndInv
  <2>2. Promise!Replace
    BY <1>1, <1>2, <1>6 DEF Promise!Replace, Phase, Leaving, Report
  <2> QED
    BY <2>1, <2>2, <1>2 DEF Promise!Next
<1> QED
  BY <1>1, <1>3, <1>4, <1>5, <1>6, TransitionsLeadOn

\* A step of ActionSend before its notification goes on with the send or
\* finishes it; the last one, and that of Aborted, tells the handler or not.
LEMMA SendTaskKeepsPromise ==
  ASSUME EndInv, SendTask
  PROVE  EndInv' /\ [Promise!Next]_(Promise!vars)
<1> USE DEF SenderUnchanged, loopVars, tokenVars, EndInv
<1>1. CASE SendResolves \/ SendAttempts \/ SendBacksOff
  <2>1. /\ sender \in {"resolving", "ready", "inflight"}
        /\ sender' \in {"resolving", "ready", "inflight"}
        /\ UNCHANGED <<state, leave, notifier, done, cancelled, loop>>
    BY <1>1 DEF SendResolves, SendAttempts, SendBacksOff, SenderStep
  <2>2. EndInv'
    BY <2>1
  <2>3. UNCHANGED Promise!vars
    BY <2>1 DEF Promise!vars, Phase, Leaving, Report
  <2> QED
    BY <2>2, <2>3
<1>2. CASE SendCannotResolve \/ SendSucceeds \/ SendGivesUp \/ SendCancelled
  <2>1. /\ sender \in {"resolving", "ready", "inflight"}
        /\ sender' = "notify"
        /\ \/ leave' \in {"sent", "unresolved", "gaveup"}
           \/ leave' = "cancelled" /\ cancelled
        /\ UNCHANGED <<state, notifier, done, cancelled, loop>>
    BY <1>2 DEF SendCannotResolve, SendSucceeds, SendGivesUp, SendCancelled,
                SenderStep
  <2>2. EndInv'
    BY <2>1 DEF LeaveOutcome
  <2>3. Promise!FinishSend
    BY <2>1 DEF Promise!FinishSend, Phase, Leaving, Report
  <2> QED
    BY <2>1, <2>2, <2>3 DEF Promise!Next
<1>3. CASE SenderNotifies \/ NotifierNotifies
  <2>1. /\ \/ /\ sender = "notify" /\ sender' = "exited"
              /\ UNCHANGED notifier
           \/ /\ notifier = "notify" /\ notifier' = "exited"
              /\ UNCHANGED sender
        /\ \/ done' = done + 1
           \/ cancelled /\ done' = done
        /\ UNCHANGED <<state, leave, cancelled, loop>>
    BY <1>3 DEF SenderNotifies, NotifierNotifies
  <2>2. EndInv'
    BY <2>1
  <2>3. Report = "owed" /\ Report' = "settled" /\ UNCHANGED <<Phase, Leaving>>
    BY <2>1 DEF Phase, Leaving, Report
  <2>4. Promise!Tell \/ Promise!Drop
    BY <2>1, <2>3 DEF Promise!Tell, Promise!Drop
  <2> QED
    BY <2>1, <2>2, <2>4 DEF Promise!Next
<1> QED
  BY <1>1, <1>2, <1>3 DEF SendTask

\* A stop, and the two steps of the loop's exit.
LEMMA ExitKeepsPromise ==
  ASSUME EndInv, Stop \/ BeginExit \/ FinishExit
  PROVE  EndInv' /\ [Promise!Next]_(Promise!vars)
<1> USE DEF loopVars, taskVars, EndInv
<1>1. CASE Stop
  <2>1. /\ ~cancelled /\ cancelled'
        /\ UNCHANGED <<state, sender, leave, notifier, done, loop>>
    BY <1>1 DEF Stop
  <2>2. EndInv'
    BY <2>1
  <2>3. Promise!Stop
    BY <1>1, <2>1 DEF Stop, Promise!Stop, Phase, Leaving, Report
  <2> QED
    BY <2>1, <2>2, <2>3 DEF Promise!Next
<1>2. CASE BeginExit
  <2>1. /\ cancelled /\ loop = "running" /\ loop' = "draining"
        /\ UNCHANGED <<state, sender, leave, notifier, done, cancelled>>
    BY <1>2 DEF BeginExit
  <2>2. EndInv'
    BY <2>1
  <2>3. UNCHANGED Promise!vars
    BY <2>1 DEF Promise!vars, Phase, Leaving, Report
  <2> QED
    BY <2>2, <2>3
<1>3. CASE FinishExit
  <2>1. /\ loop = "draining" /\ loop' = "done"
        /\ sender \in {"idle", "exited"} /\ notifier # "notify"
        /\ UNCHANGED <<state, sender, leave, notifier, done, cancelled>>
    BY <1>3 DEF FinishExit, Background
  <2>2. EndInv'
    BY <2>1
  <2>3. Promise!Exit
    <3>1. UNCHANGED <<Phase, Leaving, Report>>
      BY <2>1 DEF Phase, Leaving, Report
    <3>2. Leaving # "sending" /\ Report # "owed"
      BY <2>1 DEF Leaving, Report, LeaveOutcome
    <3>3. cancelled /\ (loop = "done")' = TRUE
      BY <2>1
    <3> QED
      BY <2>1, <3>1, <3>2, <3>3 DEF Promise!Exit
  <2> QED
    BY <2>1, <2>2, <2>3 DEF Promise!Next
<1> QED
  BY <1>1, <1>2, <1>3

LEMMA StepKeepsPromise ==
  ASSUME EndInv, [Next]_vars
  PROVE  EndInv' /\ [Promise!Next]_(Promise!vars)
<1>1. CASE \E signal \in DelayedEventSignal : HandleTransition(signal)
  BY <1>1, TransitionKeepsPromise
<1>2. CASE SendTask
  BY <1>2, SendTaskKeepsPromise
<1>3. CASE Stop \/ BeginExit \/ FinishExit
  BY <1>3, ExitKeepsPromise
<1>4. CASE \/ Timers \/ Lookup \/ RestartTask \/ ReceiveRestartResult
           \/ DeadlinePasses \/ Replace \/ Terminated \/ UNCHANGED vars
           \/ \E signal \in Webhooks : RouteSfuEvent(signal)
           \/ \E signal \in DelayedEventSignal :
                  HandleInternalAction(signal) \/ IgnoreEvent(signal)
  BY <1>4, OtherStepsUnseen, SameView, SameViewKeepsInv DEF Promise!vars
<1> QED
  BY <1>1, <1>2, <1>3, <1>4 DEF Next, Loop, HandleEvent, Environment

\* The tasks that end a job exclude each other, in every reachable state.
THEOREM OneEnd == Spec => []EndInv
<1>1. Init => EndInv
  BY DEF Init, EndInv, LeaveOutcome
<1>2. EndInv /\ [Next]_vars => EndInv'
  BY StepKeepsPromise
<1> QED
  BY <1>1, <1>2, PTL DEF Spec

\* The job implements what it promises.
THEOREM ImplementsLeave == Spec => KeepsPromise
<1>1. Init => Promise!Init
  BY DEF Init, Promise!Init, Phase, Leaving, Report
<1>2. EndInv /\ [Next]_vars => [Promise!Next]_(Promise!vars)
  BY StepKeepsPromise
<1> QED
  BY <1>1, <1>2, OneEnd, PTL DEF Spec, KeepsPromise, Promise!Spec

-----------------------------------------------------------------------------
(* The job among the participant, the SFU and the homeserver.               *)

\* The signals by which the job hears that its participant has left.
LeftSignal ==
    {"ParticipantDisconnectedIntentionally", "ParticipantConnectionAborted",
     "SfuParticipantGone"}

NoSign(signals) == \A i \in DOMAIN signals : signals[i] \notin LeftSignal

\* A sign of a leave, on its way from the SFU, in the lookup or in the event
\* channel, is there only of a participant who has left; and the lookup is past
\* its first phase only of one who has joined.
SignInv ==
    /\ participant \in {"absent", "present", "left"}
    /\ lookup \in {"found", "watching", "gone"} => participant # "absent"
    /\ participant # "left" =>
            lookup # "gone" /\ NoSign(events) /\ NoSign(webhooks)

\* A queue has no sign of a leave after another signal was added,
LEMMA AppendSign ==
  ASSUME NEW S, NEW signals \in Seq(S), NEW signal \in S,
         NoSign(signals), signal \notin LeftSignal
  PROVE  NoSign(Append(signals, signal))
<1> SUFFICES ASSUME NEW i \in DOMAIN Append(signals, signal)
             PROVE  Append(signals, signal)[i] \notin LeftSignal
  BY DEF NoSign
<1>1. i \in 1..(Len(signals) + 1)
  OBVIOUS
<1>2. CASE i \in 1..Len(signals)
  BY <1>2 DEF NoSign
<1>3. CASE i = Len(signals) + 1
  BY <1>3
<1> QED
  BY <1>1, <1>2, <1>3

\* or its head taken, which was none either.
LEMMA TailSign ==
  ASSUME NEW S, NEW signals \in Seq(S), signals # <<>>, NoSign(signals)
  PROVE  /\ NoSign(Tail(signals))
         /\ Head(signals) \notin LeftSignal
<1>1. \A i \in DOMAIN Tail(signals) :
        i + 1 \in DOMAIN signals /\ Tail(signals)[i] = signals[i + 1]
  OBVIOUS
<1>2. 1 \in DOMAIN signals /\ Head(signals) = signals[1]
  OBVIOUS
<1> QED
  BY <1>1, <1>2 DEF NoSign

\* Among the others the job takes its own steps, or none.
LEMMA LeaveStepsTheJob ==
  ASSUME webhooks \in Seq(Webhooks), [LeaveNext]_<<vars, environmentVars>>
  PROVE  [Next]_vars
<1>1. CASE JobAlone
  BY <1>1 DEF JobAlone, Next, Lookup, RestartTask, SendTask, Environment
<1>2. CASE FindParticipant \/ MissParticipant
  BY <1>2 DEF FindParticipant, MissParticipant, Next, Lookup
<1>3. CASE RestartAnswered
  <2>1. RestartTask
    BY <1>3 DEF RestartAnswered, RestartTask
  <2> QED
    BY <2>1 DEF Next
<1>4. CASE SendAnswered
  <2>1. SendTask
    BY <1>4 DEF SendAnswered, SendTask
  <2> QED
    BY <2>1 DEF Next
<1>5. CASE RouteWebhook
  <2>1. Head(webhooks) \in Webhooks
    BY <1>5 DEF RouteWebhook
  <2> QED
    BY <1>5, <2>1 DEF RouteWebhook, Next, Environment
<1>6. CASE HandlerStops
  BY <1>6 DEF HandlerStops, Next, Environment
<1>7. CASE Join \/ Leave \/ LoseWebhook \/ DelayPasses \/ HomeserverSends
            \/ OwnerCancels \/ LeaveTerminated
            \/ UNCHANGED <<vars, environmentVars>>
  BY <1>7 DEF Join, Leave, LoseWebhook, DelayPasses, HomeserverSends,
              OwnerCancels, LeaveTerminated
<1> QED
  BY <1>1, <1>2, <1>3, <1>4, <1>5, <1>6, <1>7 DEF LeaveNext

\* The SFU posts the webhooks it may post, and the handler takes them in order.
LEMMA WebhooksStay ==
  ASSUME webhooks \in Seq(Webhooks), [LeaveNext]_<<vars, environmentVars>>
  PROVE  (webhooks \in Seq(Webhooks))'
<1>1. CASE RouteWebhook \/ LoseWebhook
  BY <1>1 DEF RouteWebhook, LoseWebhook
<1>2. CASE Join \/ Leave
  BY <1>2 DEF Join, Leave
<1>3. CASE ~(Join \/ Leave \/ RouteWebhook \/ LoseWebhook)
  BY <1>3 DEF LeaveNext, JobAlone, FindParticipant, MissParticipant,
              RestartAnswered, SendAnswered, DelayPasses, HomeserverSends,
              OwnerCancels, HandlerStops, LeaveTerminated, environmentVars
<1> QED
  BY <1>1, <1>2, <1>3

\* Whatever the participant, the SFU and the homeserver do, the job among them
\* is the job of DelayedEventJob: what is proved of that holds here.
THEOREM RunsTheJob == LeaveSpec => Spec
<1>1. LeaveInit => Init /\ webhooks \in Seq(Webhooks)
  BY DEF LeaveInit
<1>2. /\ webhooks \in Seq(Webhooks)
      /\ [LeaveNext]_<<vars, environmentVars>>
      => (webhooks \in Seq(Webhooks))' /\ [Next]_vars
  BY LeaveStepsTheJob, WebhooksStay
<1> QED
  BY <1>1, <1>2, PTL DEF LeaveSpec, Spec

-----------------------------------------------------------------------------
(* Who hears of a leave, and when. *)

\* The steps of the job that the environment does not decide take signals from
\* the event channel, or add one that is no sign of a leave; the lookup reports
\* what it has seen.
LEMMA JobAloneSignals ==
  ASSUME TypeOK, JobAlone
  PROVE  /\ \/ events' \in {events, <<>>}
            \/ events # <<>> /\ events' = Tail(events)
            \/ \E signal \in DelayedEventSignal :
                  /\ events' = Append(events, signal)
                  /\ signal \in LeftSignal => lookup = "gone"
         /\ \/ lookup' \in {lookup, "exited"}
            \/ lookup = "found" /\ lookup' = "watching"
<1>1. CASE Loop
  BY <1>1 DEF Loop, HandleEvent, HandleInternalAction, HandleTransition,
              IgnoreEvent, ReceiveEvent, ReceiveRestartResult, BeginExit,
              FinishExit, taskVars
<1>2. CASE Timers
  BY <1>2 DEF Timers, WaitingTimerFires, WaitingTimerSends, WaitingTimerExits,
              RestartTimerFires, RestartTimerSends, RestartTimerExits,
              SendEvent, DelayedEventSignal, LeftSignal
<1>3. CASE LookupGivesUp \/ LookupReportsFound \/ LookupReportsGone
            \/ LookupCancelled
  BY <1>3 DEF LookupGivesUp, LookupReportsFound, LookupReportsGone,
              LookupCancelled, SendEvent, DelayedEventSignal, LeftSignal
<1>4. CASE RestartReports
  BY <1>4 DEF RestartReports, RestartUnchanged, SendEvent, DelayedEventSignal,
              RestartFailure, LeftSignal
<1>5. CASE RestartResolves \/ RestartAttempts \/ RestartTellsHandler
            \/ RestartHandsOver \/ RestartCancelled
  BY <1>5 DEF RestartResolves, RestartAttempts, RestartTellsHandler,
              RestartHandsOver, RestartCancelled, RestartUnchanged
<1>6. CASE SendResolves \/ SendCannotResolve \/ SendAttempts \/ SendCancelled
            \/ SenderNotifies \/ NotifierNotifies
  BY <1>6 DEF SendResolves, SendCannotResolve, SendAttempts, SendCancelled,
              SenderNotifies, NotifierNotifies, SenderStep, SenderUnchanged
<1>7. CASE DeadlinePasses
  BY <1>7 DEF DeadlinePasses, taskVars
<1> QED
  BY <1>1, <1>2, <1>3, <1>4, <1>5, <1>6, <1>7 DEF JobAlone

\* The SFU says "present" of a participant who is, and "absent" of no such one.
LEMMA SfuAnswersTruly ==
  ASSUME NEW reply \in SfuAnswers
  PROVE  /\ participant_exists(reply) = "present" => participant = "present"
         /\ participant_exists(reply) = "absent" => participant # "present"
<1>1. twirp_call(reply) = "Ok" => participant = "present"
  BY DEF SfuAnswers, twirp_call
<1>2. twirp_call(reply) = "NotFound" => participant # "present"
  BY DEF SfuAnswers, twirp_call
<1>3. participant_exists(reply) = "present" => twirp_call(reply) = "Ok"
  BY DEF participant_exists, twirp_call
<1>4. participant_exists(reply) = "absent" => twirp_call(reply) = "NotFound"
  BY DEF participant_exists, twirp_call
<1> QED
  BY <1>1, <1>2, <1>3, <1>4

\* Each step: a sign is made by a leave, or by a check of the SFU after it.
LEMMA SignStep ==
  ASSUME TypeOK, SignInv, webhooks \in Seq(Webhooks),
         [LeaveNext]_<<vars, environmentVars>>
  PROVE  SignInv'
<1>1. CASE JobAlone
  <2>1. UNCHANGED <<participant, webhooks>>
    BY <1>1 DEF JobAlone, environmentVars
  <2>2. events \in Seq(DelayedEventSignal)
    BY DEF TypeOK
  <2>3. participant # "left" => NoSign(events')
    <3>1. NoSign(<<>>)
      BY DEF NoSign
    <3> QED
      BY <1>1, <2>2, <3>1, JobAloneSignals, AppendSign, TailSign DEF SignInv
  <2> QED
    BY <1>1, <2>1, <2>3, JobAloneSignals DEF SignInv, NoSign
<1>2. CASE FindParticipant
  <2>1. participant = "present" /\ lookup' = "found"
    BY <1>2, SfuAnswersTruly DEF FindParticipant, LookupFinds
  <2> QED
    BY <1>2, <2>1 DEF SignInv, NoSign, FindParticipant, LookupFinds,
                      environmentVars
<1>3. CASE MissParticipant
  <2>1. participant # "present" /\ lookup = "watching"
    BY <1>3, SfuAnswersTruly DEF MissParticipant, LookupMisses
  <2> QED
    BY <1>3, <2>1 DEF SignInv, MissParticipant, environmentVars
<1>4. CASE RestartAnswered \/ SendAnswered
  <2>1. UNCHANGED <<participant, webhooks>>
    BY <1>4 DEF RestartAnswered, SendAnswered
  <2>2. UNCHANGED <<lookup, events>>
    <3>1. CASE RestartAnswered
      <4>1. RestartSucceeds \/ RestartBacksOff \/ RestartFails
        BY <3>1 DEF RestartAnswered
      <4> QED
        BY <4>1 DEF RestartSucceeds, RestartBacksOff, RestartFails,
                    RestartUnchanged
    <3>2. CASE SendAnswered
      <4>1. SendSucceeds \/ SendBacksOff \/ SendGivesUp
        BY <3>2 DEF SendAnswered
      <4> QED
        BY <4>1 DEF SendSucceeds, SendBacksOff, SendGivesUp, SenderStep,
                    SenderUnchanged
    <3> QED
      BY <1>4, <3>1, <3>2
  <2> QED
    BY <2>1, <2>2 DEF SignInv, NoSign
<1>5. CASE Join
  <2>1. /\ participant = "absent" /\ participant' = "present"
        /\ webhooks' = Append(webhooks, "ParticipantConnected")
        /\ "ParticipantConnected" \in Webhooks
        /\ UNCHANGED <<lookup, events>>
    BY <1>5 DEF Join, vars, taskVars
  <2>2. NoSign(webhooks')
    BY <2>1, AppendSign DEF SignInv, LeftSignal
  <2> QED
    BY <2>1, <2>2 DEF SignInv, NoSign
<1>6. CASE Leave
  BY <1>6 DEF Leave, SignInv
<1>7. CASE RouteWebhook
  <2>1. /\ webhooks # <<>> /\ webhooks' = Tail(webhooks)
        /\ UNCHANGED <<participant, lookup>>
        /\ events' = events \/ events' = Append(events, Head(webhooks))
    BY <1>7 DEF RouteWebhook, RouteSfuEvent, SendEvent, vars, taskVars
  <2>2. Head(webhooks) \in DelayedEventSignal
    BY <2>1, WebhooksAssumption DEF DelayedEventSignal
  <2>3. ASSUME participant # "left"
        PROVE  NoSign(webhooks') /\ NoSign(events')
    <3>1. NoSign(Tail(webhooks)) /\ Head(webhooks) \notin LeftSignal
      BY <2>1, <2>3, TailSign DEF SignInv
    <3>2. events \in Seq(DelayedEventSignal) /\ NoSign(events)
      BY <2>3 DEF SignInv, TypeOK
    <3>3. NoSign(Append(events, Head(webhooks)))
      BY <2>2, <3>1, <3>2, AppendSign
    <3> QED
      BY <2>1, <3>1, <3>2, <3>3
  <2> QED
    BY <2>1, <2>3 DEF SignInv
<1>8. CASE LoseWebhook
  <2>1. /\ webhooks # <<>> /\ webhooks' = Tail(webhooks)
        /\ UNCHANGED <<participant, lookup, events>>
    BY <1>8 DEF LoseWebhook, vars, taskVars
  <2> QED
    BY <2>1, TailSign DEF SignInv, NoSign
<1>9. CASE DelayPasses \/ HomeserverSends \/ OwnerCancels \/ HandlerStops
            \/ LeaveTerminated \/ UNCHANGED <<vars, environmentVars>>
  <2>1. UNCHANGED <<participant, webhooks, lookup, events>>
    BY <1>9 DEF DelayPasses, HomeserverSends, OwnerCancels, HandlerStops, Stop,
                LeaveTerminated, vars, taskVars, environmentVars
  <2> QED
    BY <2>1 DEF SignInv, NoSign
<1> QED
  BY <1>1, <1>2, <1>3, <1>4, <1>5, <1>6, <1>7, <1>8, <1>9 DEF LeaveNext

\* The signals of a leave are true, in every reachable state.
THEOREM SignsAreTrue == LeaveSpec => []SignInv
<1>1. LeaveInit => SignInv /\ webhooks \in Seq(Webhooks)
  BY DEF LeaveInit, Init, SignInv, NoSign
<1>2. /\ TypeOK /\ SignInv /\ webhooks \in Seq(Webhooks)
      /\ [LeaveNext]_<<vars, environmentVars>>
      => SignInv' /\ (webhooks \in Seq(Webhooks))'
  BY SignStep, WebhooksStay
<1> QED
  BY <1>1, <1>2, RunsTheJob, TypeCorrect, PTL DEF LeaveSpec

\* A job that saw its participant connect sends the leave event only once the
\* participant has left: what ends Connected in Disconnected is a sign of it.
THEOREM NeverLeavesEarly == LeaveSpec => ConnectedNeverLeavesEarly
<1>1. ASSUME TypeOK, SignInv, [Next]_vars,
             state = "Connected", state' = "Disconnected"
      PROVE  participant = "left"
  <2>1. PICK signal \in DelayedEventSignal : HandleTransition(signal)
    <3>1. CASE \/ Timers \/ Lookup \/ RestartTask \/ ReceiveRestartResult
               \/ DeadlinePasses \/ Replace \/ Terminated \/ UNCHANGED vars
               \/ \E signal \in Webhooks : RouteSfuEvent(signal)
               \/ \E signal \in DelayedEventSignal :
                      HandleInternalAction(signal) \/ IgnoreEvent(signal)
      BY <1>1, <3>1, OtherStepsUnseen
    <3>2. CASE SendTask \/ Stop \/ BeginExit \/ FinishExit
      BY <1>1, <3>2 DEF SendTask, SendResolves, SendCannotResolve,
           SendAttempts, SendSucceeds, SendBacksOff, SendGivesUp,
           SendCancelled, SenderNotifies, NotifierNotifies, SenderStep,
           SenderUnchanged, Stop, BeginExit, FinishExit, loopVars
    <3> QED
      BY <1>1, <3>1, <3>2 DEF Next, Loop, HandleEvent, Environment
  <2>2. <<"Connected", signal, "Disconnected">> \in fsm_transitions
    BY <1>1, <2>1 DEF HandleTransition
  <2>3. signal \in LeftSignal
    BY <2>2 DEF fsm_transitions, LeftSignal
  <2>4. events # <<>> /\ signal = Head(events)
    BY <2>1 DEF HandleTransition, ReceiveEvent
  <2> QED
    BY <1>1, <2>3, <2>4, TailSign DEF SignInv, TypeOK
<1>2. TypeOK /\ SignInv /\ [Next]_vars =>
        [state = "Connected" /\ state' = "Disconnected"
            => participant = "left"]_vars
  BY <1>1
<1> QED
  BY <1>2, RunsTheJob, TypeCorrect, SignsAreTrue, PTL
     DEF Spec, ConnectedNeverLeavesEarly

-----------------------------------------------------------------------------
(* What the job concludes from the homeserver's answers.                    *)

\* Only an answer adds a restart task that found the event gone,
LEMMA OnlyAnswersAddNotFound ==
  ASSUME TypeOK, [LeaveNext]_<<vars, environmentVars>>, ~RestartAnswered
  PROVE  restarts'["DelayedEventNotFound"] <= restarts["DelayedEventNotFound"]
<1> DEFINE gone == "DelayedEventNotFound"
<1>1. /\ restarts \in [RestartStage -> Nat]
      /\ \A stage \in RestartStage : restarts[stage] \in Nat
      /\ gone \in RestartStage
  BY DEF TypeOK, RestartStage, RestartFailure
<1>2. CASE UNCHANGED restarts
  BY <1>1, <1>2
<1>3. CASE \/ RestartResolves \/ RestartAttempts \/ RestartTellsHandler
           \/ RestartHandsOver \/ RestartReports \/ RestartCancelled
  <2>1. \/ \E from \in RestartStage, to \in RestartStage \ {gone} :
                MoveRestart(from, to)
        \/ \E from \in RestartStage : EndRestart(from)
    BY <1>3 DEF RestartResolves, RestartAttempts, RestartTellsHandler,
                RestartHandsOver, RestartReports, RestartCancelled,
                RestartStage, RestartFailure
  <2>2. CASE \E from \in RestartStage, to \in RestartStage \ {gone} :
                MoveRestart(from, to)
    BY <1>1, <2>2 DEF MoveRestart
  <2>3. CASE \E from \in RestartStage : EndRestart(from)
    BY <1>1, <2>3 DEF EndRestart
  <2> QED
    BY <2>1, <2>2, <2>3
<1>4. CASE \E signal \in DelayedEventSignal :
                HandleInternalAction(signal) \/ HandleTransition(signal)
  <2>1. \/ UNCHANGED restarts
        \/ \E deadline : restarts' = start_delayed_event_restart(deadline)
    BY <1>4 DEF HandleInternalAction, HandleTransition,
                handle_state_entry_action
  <2>2. ASSUME NEW deadline, restarts' = start_delayed_event_restart(deadline)
        PROVE  restarts'[gone] = restarts[gone]
    BY <1>1, <2>2 DEF start_delayed_event_restart
  <2> QED
    BY <1>1, <2>1, <2>2
<1>5. CASE JobAlone
  <2>1. CASE Timers
    BY <1>2, <2>1 DEF Timers, WaitingTimerFires, WaitingTimerSends,
         WaitingTimerExits, RestartTimerFires, RestartTimerSends,
         RestartTimerExits
  <2>2. CASE LookupGivesUp \/ LookupReportsFound \/ LookupReportsGone
              \/ LookupCancelled
    BY <1>2, <2>2 DEF LookupGivesUp, LookupReportsFound, LookupReportsGone,
         LookupCancelled, LookupUnchanged
  <2>3. CASE SendResolves \/ SendCannotResolve \/ SendAttempts
              \/ SendCancelled \/ SenderNotifies \/ NotifierNotifies
    BY <1>2, <2>3 DEF SendResolves, SendCannotResolve, SendAttempts,
         SendCancelled, SenderNotifies, NotifierNotifies, SenderStep,
         SenderUnchanged
  <2>4. CASE \/ ReceiveRestartResult \/ BeginExit \/ FinishExit
             \/ DeadlinePasses
             \/ \E signal \in DelayedEventSignal : IgnoreEvent(signal)
    BY <1>2, <2>4 DEF ReceiveRestartResult, BeginExit, FinishExit,
         DeadlinePasses, IgnoreEvent, taskVars
  <2> QED
    BY <1>3, <1>4, <1>5, <2>1, <2>2, <2>3, <2>4 DEF JobAlone, Loop, HandleEvent
<1>6. CASE SendAnswered
  <2>1. SendSucceeds \/ SendBacksOff \/ SendGivesUp
    BY <1>6 DEF SendAnswered
  <2> QED
    BY <1>2, <2>1 DEF SendSucceeds, SendBacksOff, SendGivesUp, SenderStep,
                      SenderUnchanged
<1>7. CASE FindParticipant \/ MissParticipant
  BY <1>2, <1>7 DEF FindParticipant, MissParticipant, LookupFinds,
                    LookupMisses, LookupUnchanged
<1>8. CASE Join \/ Leave \/ RouteWebhook \/ LoseWebhook \/ DelayPasses
            \/ HomeserverSends \/ OwnerCancels \/ HandlerStops
            \/ LeaveTerminated \/ UNCHANGED <<vars, environmentVars>>
  BY <1>2, <1>8 DEF Join, Leave, RouteWebhook, RouteSfuEvent, LoseWebhook,
       DelayPasses, HomeserverSends, OwnerCancels, HandlerStops, Stop,
       LeaveTerminated,
       vars, taskVars
<1> QED
  BY <1>5, <1>6, <1>7, <1>8 DEF LeaveNext

\* and only an answer lets ActionSend report that the event is sent.
LEMMA OnlyAnswersSend ==
  ASSUME [LeaveNext]_<<vars, environmentVars>>, ~SendAnswered, leave' = "sent"
  PROVE  leave = "sent"
<1>1. CASE JobAlone
  <2>1. CASE Timers
    BY <2>1 DEF Timers, WaitingTimerFires, WaitingTimerSends,
         WaitingTimerExits, RestartTimerFires, RestartTimerSends,
         RestartTimerExits
  <2>2. CASE LookupGivesUp \/ LookupReportsFound \/ LookupReportsGone
              \/ LookupCancelled
    BY <2>2 DEF LookupGivesUp, LookupReportsFound, LookupReportsGone,
         LookupCancelled, LookupUnchanged
  <2>3. CASE SendResolves \/ SendCannotResolve \/ SendAttempts
              \/ SendCancelled \/ SenderNotifies \/ NotifierNotifies
    BY <2>3 DEF SendResolves, SendCannotResolve, SendAttempts, SendCancelled,
         SenderNotifies, NotifierNotifies, SenderStep
  <2>4. CASE Loop
    BY <2>4 DEF Loop, HandleEvent, HandleInternalAction, HandleTransition,
         IgnoreEvent, ReceiveRestartResult, BeginExit, FinishExit, taskVars
  <2>5. CASE \/ RestartResolves \/ RestartAttempts \/ RestartTellsHandler
             \/ RestartHandsOver \/ RestartReports \/ RestartCancelled
             \/ DeadlinePasses
    BY <2>5 DEF RestartResolves, RestartAttempts, RestartTellsHandler,
         RestartHandsOver, RestartReports, RestartCancelled, RestartUnchanged,
         DeadlinePasses, taskVars
  <2> QED
    BY <1>1, <2>1, <2>2, <2>3, <2>4, <2>5 DEF JobAlone
<1>2. CASE RestartAnswered
  <2>1. RestartSucceeds \/ RestartBacksOff \/ RestartFails
    BY <1>2 DEF RestartAnswered
  <2> QED
    BY <2>1 DEF RestartSucceeds, RestartBacksOff, RestartFails,
                RestartUnchanged
<1>3. CASE FindParticipant \/ MissParticipant
  BY <1>3 DEF FindParticipant, MissParticipant, LookupFinds, LookupMisses,
              LookupUnchanged
<1>4. CASE Join \/ Leave \/ RouteWebhook \/ LoseWebhook \/ DelayPasses
            \/ HomeserverSends \/ OwnerCancels \/ HandlerStops
            \/ LeaveTerminated \/ UNCHANGED <<vars, environmentVars>>
  BY <1>4 DEF Join, Leave, RouteWebhook, RouteSfuEvent, LoseWebhook,
       DelayPasses, HomeserverSends, OwnerCancels, HandlerStops, Stop,
       LeaveTerminated,
       vars, taskVars
<1> QED
  BY <1>1, <1>2, <1>3, <1>4 DEF LeaveNext

\* A leave event that was sent or cancelled stays so.
LEMMA FinalisedStays ==
  ASSUME leaveEvent \in Finalised, [LeaveNext]_<<vars, environmentVars>>
  PROVE  leaveEvent' \in Finalised
<1>1. CASE RestartAnswered \/ SendAnswered
  <2>1. leaveEvent \notin Pending
    BY DEF Pending, Finalised
  <2> QED
    BY <1>1, <2>1 DEF RestartAnswered, SendAnswered, HomeserverAnswers
<1>2. CASE HomeserverSends
  BY <1>2 DEF HomeserverSends, Finalised
<1>3. CASE DelayPasses \/ OwnerCancels
  BY <1>3 DEF DelayPasses, OwnerCancels, Finalised
<1>4. CASE ~(\/ RestartAnswered \/ SendAnswered \/ DelayPasses
             \/ HomeserverSends \/ OwnerCancels)
  BY <1>4 DEF LeaveNext, JobAlone, FindParticipant, MissParticipant, Join,
              Leave, RouteWebhook, LoseWebhook, HandlerStops, LeaveTerminated,
              environmentVars
<1> QED
  BY <1>1, <1>2, <1>3, <1>4

\* When ActionSend succeeds, or a restart finds the event gone, it is on an
\* answer of a homeserver that has sent the leave event or where it was cancelled.
LEMMA SuccessIsTrue ==
  ASSUME SendAnswered, leave # "sent", leave' = "sent"
  PROVE  leaveEvent' \in Finalised
<1>1. ~SendBacksOff /\ ~SendGivesUp
  BY DEF SendBacksOff, SendGivesUp, SenderStep
<1>2. PICK reply \in ActionAnswers :
        /\ HomeserverAnswers("send", reply)
        /\ execute_delayed_event_action("send", reply) = "Ok"
  BY <1>1 DEF SendAnswered
<1>3. reply.status \in {200, 204, 404, 409}
  BY <1>2 DEF execute_delayed_event_action
<1> QED
  BY <1>2, <1>3 DEF HomeserverAnswers, Finalised

\* An answer that ends a restart otherwise adds to another count.
LEMMA NotFoundIsTrue ==
  ASSUME TypeOK, RestartAnswered,
         restarts'["DelayedEventNotFound"] > restarts["DelayedEventNotFound"]
  PROVE  leaveEvent' \in Finalised
<1> DEFINE gone == "DelayedEventNotFound"
           late == "DelayedEventTimedOut"
<1>1. /\ restarts \in [RestartStage -> Nat]
      /\ gone \in RestartStage /\ late \in RestartStage
      /\ restarts[gone] \in Nat /\ restarts[late] \in Nat
  BY DEF TypeOK, RestartStage, RestartFailure
<1>2. \A to \in RestartStage \ {gone} : ~MoveRestart("inflight", to)
  BY <1>1 DEF MoveRestart
<1>3. ~RestartSucceeds /\ ~RestartBacksOff
  BY <1>2 DEF RestartSucceeds, RestartBacksOff, RestartStage
<1>4. RestartFails => MoveRestart("inflight", gone)
  BY <1>1, <1>2 DEF RestartFails
<1>5. RestartFails => ~(restarts'[late] > restarts[late])
  BY <1>1, <1>4 DEF MoveRestart
<1>6. PICK reply \in ActionAnswers :
        /\ HomeserverAnswers("restart", reply)
        /\ execute_delayed_event_action("restart", reply) = gone
  BY <1>3, <1>5 DEF RestartAnswered
<1>7. reply.status \in {404, 409}
  BY <1>6 DEF execute_delayed_event_action
<1> QED
  BY <1>6, <1>7 DEF HomeserverAnswers

\* The signal of a restart that found its event gone is made of such a restart:
\* no other step adds it to the event channel.
LEMMA OnlyRestartsReport ==
  ASSUME TypeOK, webhooks \in Seq(Webhooks),
         [LeaveNext]_<<vars, environmentVars>>
  PROVE  \/ events' \in {events, <<>>}
         \/ events # <<>> /\ events' = Tail(events)
         \/ \E signal \in DelayedEventSignal :
               /\ events' = Append(events, signal)
               /\ signal = "DelayedEventNotFound" =>
                    restarts["DelayedEventNotFound"] > 0
<1>1. CASE Loop
  BY <1>1 DEF Loop, HandleEvent, HandleInternalAction, HandleTransition,
              IgnoreEvent, ReceiveEvent, ReceiveRestartResult, BeginExit,
              FinishExit, taskVars
<1>2. CASE Timers
  BY <1>2 DEF Timers, WaitingTimerFires, WaitingTimerSends, WaitingTimerExits,
              RestartTimerFires, RestartTimerSends, RestartTimerExits,
              SendEvent, DelayedEventSignal
<1>3. CASE Lookup
  BY <1>3 DEF Lookup, LookupFinds, LookupGivesUp, LookupReportsFound,
              LookupMisses, LookupReportsGone, LookupCancelled,
              LookupUnchanged, SendEvent, DelayedEventSignal
<1>4. CASE RestartReports
  <2>1. PICK failure \in RestartFailure :
            restarts[failure] > 0 /\ SendEvent(failure)
    BY <1>4 DEF RestartReports, EndRestart
  <2> QED
    BY <2>1 DEF SendEvent, RestartFailure, DelayedEventSignal
<1>5. CASE RestartTask /\ ~RestartReports
  BY <1>5 DEF RestartTask, RestartResolves, RestartAttempts, RestartSucceeds,
              RestartBacksOff, RestartFails, RestartTellsHandler,
              RestartHandsOver, RestartCancelled, RestartUnchanged
<1>6. CASE SendTask
  BY <1>6 DEF SendTask, SendResolves, SendCannotResolve, SendAttempts,
              SendSucceeds, SendBacksOff, SendGivesUp, SendCancelled,
              SenderNotifies, NotifierNotifies, SenderStep, SenderUnchanged
<1>7. CASE RouteWebhook
  <2>1. /\ Head(webhooks) \in Webhooks
        /\ events' = events \/ events' = Append(events, Head(webhooks))
    BY <1>7 DEF RouteWebhook, RouteSfuEvent, SendEvent, vars
  <2>2. /\ Head(webhooks) \in DelayedEventSignal
        /\ Head(webhooks) # "DelayedEventNotFound"
    BY <2>1, WebhooksAssumption DEF DelayedEventSignal, SfuSignal
  <2> QED
    BY <2>1, <2>2
<1>8. CASE DeadlinePasses
  BY <1>8 DEF DeadlinePasses
<1>9. CASE \/ Join \/ Leave \/ LoseWebhook \/ DelayPasses \/ HomeserverSends
           \/ OwnerCancels \/ HandlerStops \/ LeaveTerminated
           \/ UNCHANGED <<vars, environmentVars>>
  BY <1>9 DEF Join, Leave, LoseWebhook, DelayPasses, HomeserverSends,
              OwnerCancels, HandlerStops, Stop, LeaveTerminated, vars
<1>10. CASE JobAlone
  BY <1>1, <1>2, <1>3, <1>4, <1>5, <1>6, <1>8, <1>10
     DEF JobAlone, Lookup, RestartTask, SendTask
<1>11. CASE \/ FindParticipant \/ MissParticipant \/ RestartAnswered
            \/ SendAnswered
  <2>1. Lookup \/ RestartTask \/ SendTask
    BY <1>11 DEF FindParticipant, MissParticipant, RestartAnswered,
                 SendAnswered, Lookup, RestartTask, SendTask
  <2> QED
    BY <1>3, <1>4, <1>5, <1>6, <2>1
<1> QED
  BY <1>7, <1>9, <1>10, <1>11 DEF LeaveNext

\* A queue has no such signal after another one was added, or its head taken.
HasNotFound(signals) ==
    \E i \in DOMAIN signals : signals[i] = "DelayedEventNotFound"

LEMMA AppendNotFound ==
  ASSUME NEW S, NEW signals \in Seq(S), NEW signal \in S,
         HasNotFound(Append(signals, signal))
  PROVE  HasNotFound(signals) \/ signal = "DelayedEventNotFound"
<1>1. PICK i \in DOMAIN Append(signals, signal) :
            Append(signals, signal)[i] = "DelayedEventNotFound"
  BY DEF HasNotFound
<1>2. i \in 1..(Len(signals) + 1)
  OBVIOUS
<1>3. CASE i \in 1..Len(signals)
  BY <1>1, <1>3 DEF HasNotFound
<1>4. CASE i = Len(signals) + 1
  BY <1>1, <1>4
<1> QED
  BY <1>2, <1>3, <1>4

LEMMA TailNotFound ==
  ASSUME NEW S, NEW signals \in Seq(S), signals # <<>>,
         HasNotFound(Tail(signals))
  PROVE  HasNotFound(signals)
<1>1. \A i \in DOMAIN Tail(signals) :
        i + 1 \in DOMAIN signals /\ Tail(signals)[i] = signals[i + 1]
  OBVIOUS
<1> QED
  BY <1>1 DEF HasNotFound

\* What the job concludes from an answer is so, whichever answers were lost
\* before it: ActionSend succeeds, a restart finds the event gone, and its signal
\* waits in the channel, only once the leave event has been sent or cancelled.
THEOREM ConclusionsAreTrue == LeaveSpec => []ReportsAreTrue
<1> DEFINE gone == "DelayedEventNotFound"
<1>1. LeaveInit => ReportsAreTrue
  BY DEF LeaveInit, Init, ReportsAreTrue, RestartStage, RestartFailure
<1>2. ASSUME TypeOK, TypeOK', webhooks \in Seq(Webhooks), ReportsAreTrue,
             [LeaveNext]_<<vars, environmentVars>>
      PROVE  ReportsAreTrue'
  <2>1. leave' = "sent" => leaveEvent' \in Finalised
    BY <1>2, OnlyAnswersSend, SuccessIsTrue, FinalisedStays DEF ReportsAreTrue
  <2>2. restarts[gone] \in Nat /\ restarts'[gone] \in Nat
    BY <1>2 DEF TypeOK, RestartStage, RestartFailure
  <2>3. ASSUME restarts'[gone] > 0
        PROVE  leaveEvent' \in Finalised
    <3>1. CASE restarts[gone] > 0
      BY <1>2, <3>1, FinalisedStays DEF ReportsAreTrue
    <3>2. CASE restarts'[gone] > restarts[gone]
      <4>1. RestartAnswered
        BY <1>2, <2>2, <3>2, OnlyAnswersAddNotFound
      <4> QED
        BY <1>2, <3>2, <4>1, NotFoundIsTrue
    <3> QED
      BY <2>2, <2>3, <3>1, <3>2
  <2>4. ASSUME HasNotFound(events')
        PROVE  leaveEvent' \in Finalised
    <3>1. events \in Seq(DelayedEventSignal)
      BY <1>2 DEF TypeOK
    <3>2. ~HasNotFound(<<>>)
      BY DEF HasNotFound
    <3>3. HasNotFound(events) \/ restarts[gone] > 0
      BY <1>2, <2>4, <3>1, <3>2, OnlyRestartsReport, AppendNotFound,
         TailNotFound
    <3>4. leaveEvent \in Finalised
      BY <1>2, <3>3 DEF ReportsAreTrue, HasNotFound
    <3> QED
      BY <1>2, <3>4, FinalisedStays
  <2> QED
    BY <2>1, <2>3, <2>4 DEF ReportsAreTrue, HasNotFound
<1>3. LeaveInit => webhooks \in Seq(Webhooks)
  BY DEF LeaveInit
<1>4. /\ webhooks \in Seq(Webhooks)
      /\ [LeaveNext]_<<vars, environmentVars>>
      => (webhooks \in Seq(Webhooks))'
  BY WebhooksStay
<1> QED
  BY <1>1, <1>2, <1>3, <1>4, RunsTheJob, TypeCorrect, PTL DEF LeaveSpec

=============================================================================
