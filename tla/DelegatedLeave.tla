---------------------------- MODULE DelegatedLeave ----------------------------
(***************************************************************************)
(* What delegation is for: a job together with the participant whose leave *)
(* event it looks after, the SFU that knows whether the participant is     *)
(* present and posts webhooks, the homeserver that holds the delayed leave *)
(* event and sends it by itself once nobody restarts it in time, and the   *)
(* owner of the event, who may cancel it without telling the service.      *)
(*                                                                         *)
(* One participant, one session, one job: the participant joins at most    *)
(* once and leaves at most once, and the job is neither replaced nor shut  *)
(* down; the handler stops it when it is done.                             *)
(***************************************************************************)
EXTENDS DelayedEventJob, OutboundCalls

CONSTANT
    WebhooksLost    \* whether a webhook may be lost on its way

ASSUME WebhooksLostAssumption == WebhooksLost \in BOOLEAN

VARIABLES
    participant,    \* on the SFU: "absent", "present" or "left"
    webhooks,       \* webhooks not yet routed to the job, in order
    leaveEvent      \* the delayed event: "fresh", "due", "sent" or "cancelled"

environmentVars == <<participant, webhooks, leaveEvent>>

\* MSC4140 calls an event finalised that cannot be sent or restarted any more.
Pending   == {"fresh", "due"}
Finalised == {"sent", "cancelled"}

\* The participant is there before its job, which then hears of it from the
\* lookup only, or joins after.
LeaveInit ==
    /\ Init
    /\ participant \in {"absent", "present"}
    /\ webhooks = <<>>
    /\ leaveEvent = "fresh"

-----------------------------------------------------------------------------
(* The steps of the job that the environment decides. *)

\* GetParticipant answers what the SFU knows, or not at all, or an ingress before
\* the SFU does.
SfuAnswers ==
    {[status |-> 0, body |-> "broken"], [status |-> 200, body |-> "broken"],
     [status |-> 404, body |-> "broken"], [status |-> 503, body |-> "broken"]}
      \cup {IF participant = "present" THEN [status |-> 200, body |-> "info"]
            ELSE [status |-> 404, body |-> "not_found"]}

\* Phase 1 waits for the participant to be present, phase 2 for it to be absent;
\* other answers leave the lookup where it is.
FindParticipant ==
    /\ \E reply \in SfuAnswers : participant_exists(reply) = "present"
    /\ LookupFinds
    /\ UNCHANGED environmentVars

MissParticipant ==
    /\ \E reply \in SfuAnswers : participant_exists(reply) = "absent"
    /\ LookupMisses
    /\ UNCHANGED environmentVars

ActionAnswers ==
    {[status |-> status, hint |-> NoHint] :
        status \in {0, 200, 404, 408, 409, 429, 503}}
      \cup {[status |-> 429, hint |-> [NoHint EXCEPT !.retry_after_ms = 500]]}

\* The homeserver restarts or sends a pending event, and its answer may be lost;
\* one that was sent or cancelled before is gone, or in conflict with the action;
\* or it does nothing, for now.
HomeserverAnswers(action, reply) ==
    \/ /\ leaveEvent \in Pending
       /\ reply.status \in {200, 0}
       /\ leaveEvent' = IF action = "send" THEN "sent" ELSE "fresh"
    \/ /\ leaveEvent \in Finalised
       /\ \/ reply.status = 404
          \/ /\ reply.status = 409
             /\ action = "restart" \/ leaveEvent = "cancelled"
       /\ UNCHANGED leaveEvent
    \/ /\ reply.status \in {0, 408, 429, 503}
       /\ UNCHANGED leaveEvent

\* What an attempt comes to: permanent errors end the retry, others do when the
\* budget is spent.
RestartAnswered ==
    /\ \E reply \in ActionAnswers :
        /\ HomeserverAnswers("restart", reply)
        /\ LET outcome == execute_delayed_event_action("restart", reply)
               FailsWith(failure) ==
                    RestartFails /\ restarts'[failure] > restarts[failure]
           IN \/ outcome = "Ok" /\ RestartSucceeds
              \/ /\ outcome = "DelayedEventNotFound"
                 /\ FailsWith("DelayedEventNotFound")
              \/ /\ outcome \in {"RetryAfter", "Transient"}
                 /\ RestartBacksOff \/ FailsWith("DelayedEventTimedOut")
    /\ UNCHANGED <<participant, webhooks>>

SendAnswered ==
    /\ \E reply \in ActionAnswers :
        /\ HomeserverAnswers("send", reply)
        /\ LET outcome == execute_delayed_event_action("send", reply)
           IN \/ outcome = "Ok" /\ SendSucceeds
              \/ outcome # "Ok" /\ (SendBacksOff \/ SendGivesUp)
    /\ UNCHANGED <<participant, webhooks>>

\* Every other step of the job.
JobAlone ==
    /\ \/ Loop \/ Timers \/ DeadlinePasses
       \/ LookupGivesUp \/ LookupReportsFound \/ LookupReportsGone
       \/ LookupCancelled
       \/ RestartResolves \/ RestartAttempts \/ RestartTellsHandler
       \/ RestartHandsOver \/ RestartReports \/ RestartCancelled
       \/ SendResolves \/ SendCannotResolve \/ SendAttempts \/ SendCancelled
       \/ SenderNotifies \/ NotifierNotifies
    /\ UNCHANGED environmentVars

-----------------------------------------------------------------------------
(* The participant and the SFU. *)

Join ==
    /\ "ParticipantConnected" \in Webhooks
    /\ participant = "absent"
    /\ participant' = "present"
    /\ webhooks' = Append(webhooks, "ParticipantConnected")
    /\ UNCHANGED <<vars, leaveEvent>>

\* sfu_event_from_webhook: "intentionally" when the client initiated it, and
\* "aborted" for any other reason.
Leave ==
    /\ participant = "present"
    /\ participant' = "left"
    /\ \E signal \in Webhooks \ {"ParticipantConnected"} :
            webhooks' = Append(webhooks, signal)
    /\ UNCHANGED <<vars, leaveEvent>>

\* The handler routes the webhook, or has no job to route it to.
RouteWebhook ==
    /\ webhooks # <<>>
    /\ IF cancelled THEN UNCHANGED vars ELSE RouteSfuEvent(Head(webhooks))
    /\ webhooks' = Tail(webhooks)
    /\ UNCHANGED <<participant, leaveEvent>>

LoseWebhook ==
    /\ WebhooksLost
    /\ webhooks # <<>>
    /\ webhooks' = Tail(webhooks)
    /\ UNCHANGED <<vars, participant, leaveEvent>>

-----------------------------------------------------------------------------
(* The homeserver: the delay of a pending event passes, then it is sent. *)

DelayPasses ==
    /\ leaveEvent = "fresh"
    /\ leaveEvent' = "due"
    /\ UNCHANGED <<vars, participant, webhooks>>

HomeserverSends ==
    /\ leaveEvent = "due"
    /\ leaveEvent' = "sent"
    /\ UNCHANGED <<vars, participant, webhooks>>

\* The owner of the event may cancel it at the homeserver, at any time.
OwnerCancels ==
    /\ leaveEvent \in Pending
    /\ leaveEvent' = "cancelled"
    /\ UNCHANGED <<vars, participant, webhooks>>

\* The handler's clean-up of a job that is done.
HandlerStops ==
    /\ done > 0
    /\ Stop
    /\ UNCHANGED environmentVars

-----------------------------------------------------------------------------
LeaveTerminated ==
    /\ participant # "present"
    /\ leaveEvent \in Finalised
    /\ loop = "done"
    /\ UNCHANGED <<vars, environmentVars>>

LeaveNext ==
    \/ JobAlone \/ FindParticipant \/ MissParticipant
    \/ RestartAnswered \/ SendAnswered
    \/ Join \/ Leave \/ RouteWebhook \/ LoseWebhook
    \/ DelayPasses \/ HomeserverSends \/ OwnerCancels \/ HandlerStops
    \/ LeaveTerminated

(***************************************************************************)
(* Fairness: that of the job, and                                          *)
(*   - an enabled sanity check comes round to a participant who has left;  *)
(*   - the handler routes webhooks and stops a job that is done;           *)
(*   - the homeserver sends an event that is not restarted any more; a     *)
(*     restart makes it fresh again, so nothing is asked of it before.     *)
(* Nobody has to join or leave, or to cancel anything.                     *)
(***************************************************************************)
LeaveFairness ==
    /\ Fairness
    /\ WF_vars(participant = "left" /\ LookupMisses)
    /\ SF_<<vars, environmentVars>>(RouteWebhook)
    /\ WF_vars(HandlerStops)
    /\ WF_environmentVars(DelayPasses)
    /\ WF_environmentVars(HomeserverSends)

LeaveSpec == LeaveInit /\ [][LeaveNext]_<<vars, environmentVars>>

LeaveFairSpec == LeaveSpec /\ LeaveFairness

\* Of these, what a watched participant's leave rests on: each check comes round
\* and its signal is sent, restarts end, and the homeserver sends what is due.
WatchFairness ==
    /\ WF_vars(participant = "left" /\ LookupMisses)
    /\ SF_vars(LookupReportsFound \/ LookupReportsGone)
    /\ SF_vars(RestartSucceeds \/ RestartFails)
    /\ WF_environmentVars(DelayPasses)
    /\ WF_environmentVars(HomeserverSends)

WatchSpec == LeaveSpec /\ WatchFairness

-----------------------------------------------------------------------------
(* Properties. *)

\* README: the service "manages delegated delayed leave events to retain
\* accurate session membership", and the sanity check "guards against missed
\* SFU webhooks": once the participant has left, its leave event is sent, by
\* the job or, once the job stops restarting it, by the homeserver, unless its
\* owner cancels it.
LeaveIsSent == participant = "left" ~> leaveEvent \in Finalised

\* With the sanity check and every webhook late or lost, that holds of a
\* participant whom the lookup has seen.  (One that gave up before the connect
\* webhook came never looks again.)
WatchedLeaveIsSent ==
    participant = "left" /\ lookup \in {"found", "watching", "gone"}
        ~> leaveEvent \in Finalised

\* What the job concludes from an answer is so, however many answers were lost
\* before it: ActionSend reports success only of an event that was sent or
\* cancelled, and a restart that found its event gone, or the signal with which
\* it ends the job, is there only of such an event.  A job never stops looking
\* after a pending event in the belief that it is finalised.
ReportsAreTrue ==
    /\ leave = "sent" => leaveEvent \in Finalised
    /\ restarts["DelayedEventNotFound"] > 0 => leaveEvent \in Finalised
    /\ (\E i \in DOMAIN events : events[i] = "DelayedEventNotFound")
            => leaveEvent \in Finalised

\* A job that saw its participant connect never sends the leave event while the
\* participant is on the SFU; the one that waits in vain for it may.
ConnectedNeverLeavesEarly ==
    [][state = "Connected" /\ state' = "Disconnected" => participant = "left"]_vars

=============================================================================
