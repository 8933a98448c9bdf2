----------------------------- MODULE OutboundCalls -----------------------------
(***************************************************************************)
(* What the service makes of the answers to its calls to the SFU, to       *)
(* homeservers and through the federation proxy (helper.rs).  Building the *)
(* requests is left out; each call is an operator from the answer to the   *)
(* result its callers tell apart.                                          *)
(*                                                                         *)
(* An answer is a record of its HTTP status, which is 0 when none came,    *)
(* and of what its body says; a body that breaks off or does not parse is  *)
(* "broken".                                                               *)
(***************************************************************************)
EXTENDS Integers

is_success(status) == status \in 200..299

Readable(reply) == is_success(reply.status) /\ reply.body # "broken"

-----------------------------------------------------------------------------
(* The SFU: RoomService over Twirp, whose errors carry a code in their      *)
(* body.                                                                    *)

\* A mutant goes by the status, which an ingress in between sets, too.
twirp_call_by_status(reply) ==
    IF reply.status = 200 /\ reply.body # "broken" THEN "Ok"
    ELSE IF reply.status = 404 THEN "NotFound" ELSE "Other"

twirp_call(reply) ==
    IF reply.status = 200 /\ reply.body # "broken" THEN "Ok"
    ELSE IF reply.status # 200 /\ reply.body = "not_found" THEN "NotFound"
    ELSE "Other"

\* Ok(true), Ok(false) or an error.
participant_exists(reply) ==
    CASE twirp_call(reply) = "Ok"       -> "present"
      [] twirp_call(reply) = "NotFound" -> "absent"
      [] OTHER                          -> "unknown"

\* Creating a room that exists is no error.
create_room(reply) == twirp_call(reply) = "Ok"

-----------------------------------------------------------------------------
(* Delayed events: "Ok", or the kind of the ActionError.                    *)

\* The seconds a 429 asks for: those of a Retry-After header, as a number or as
\* what is left until a date, or those of retry_after_ms, rounded up.  None is {}.
NoHint == [header |-> {}, retry_after_ms |-> 0]

retry_after_from_response(hint) ==
    IF hint.header # {} THEN {IF s < 0 THEN 0 ELSE s : s \in hint.header}
    ELSE IF hint.retry_after_ms > 0
         THEN {(hint.retry_after_ms + 999) \div 1000}
         ELSE {}

RateLimited(reply) ==
    reply.status = 429 /\ retry_after_from_response(reply.hint) # {}

\* Not found, or finalised already, is what a send wants and the end of a
\* restart; a mutant takes every answer for the end of it.
AnyAnswerEnds(action, reply) ==
    IF reply.status \notin {0} \cup 500..599 THEN "Ok" ELSE "Transient"

execute_delayed_event_action(action, reply) ==
    IF reply.status \in {200, 204} THEN "Ok"
    ELSE IF reply.status \in {404, 409}
         THEN IF action = "send" THEN "Ok" ELSE "DelayedEventNotFound"
    ELSE IF RateLimited(reply) THEN "RetryAfter" ELSE "Transient"

\* The delay is delay_ms, or the delay of earlier revisions.
usable_delay(event) == IF event.delay_ms > 0 THEN event.delay_ms ELSE event.delay

get_delayed_event_delay(room, reply) ==
    IF reply.status = 200
    THEN IF reply.body = "broken" THEN "Transient"
         ELSE IF reply.event.room = room /\ usable_delay(reply.event) > 0
              THEN "Ok" ELSE "DelayedEventNotFound"
    ELSE IF reply.status = 404 THEN "DelayedEventNotFound"
    ELSE IF RateLimited(reply) THEN "RetryAfter" ELSE "Transient"

-----------------------------------------------------------------------------
(* Homeservers. *)

\* The Client-Server API that a .well-known record names, if it does.
discover_client_api(reply) ==
    {url \in {reply.base_url} : Readable(reply) /\ url # ""}

\* The user an OpenID token belongs to, as its homeserver says: {} is an error.
exchange_openid_userinfo(token, reply) ==
    {sub \in {reply.sub} :
        token.access_token # "" /\ token.matrix_server_name # ""
            /\ Readable(reply)}

\* Ok(true), Ok(false) or an error.
is_joined(reply) ==
    IF Readable(reply)
    THEN IF reply.body = "joined" THEN "joined" ELSE "not_joined"
    ELSE "unknown"

-----------------------------------------------------------------------------
(* The federation proxy of our homeserver, which answers with the status    *)
(* and the content that the destination answered with.                      *)

Relayed == [kind |-> "Ok"]
Other   == [kind |-> "Other"]

Destination(status, errcode) ==
    [kind |-> "Destination", status |-> status, errcode |-> errcode]

post_via_fed_proxy(reply) ==
    IF ~Readable(reply) THEN Other
    ELSE IF ~is_success(reply.of.status)
         THEN Destination(reply.of.status, reply.of.errcode)
    ELSE IF reply.of.content = "response" THEN Relayed ELSE Other

\* The destination does not know the stable path, so that the relay is made once
\* more, on the unstable one.  A mutant repeats every relay that failed.
AnyFailure(result) == result.kind # "Ok"
NotRecognised(result) ==
    result \in {Destination(404, ""), Destination(404, "M_UNRECOGNIZED")}

matrix_error_for_federation_token(result) ==
    IF result = Destination(403, "M_FORBIDDEN") THEN 403
    ELSE IF result = Destination(400, "M_INVALID_PARAM") THEN 400
    ELSE 502

=============================================================================
