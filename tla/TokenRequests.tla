---------------------------- MODULE TokenRequests ----------------------------
(***************************************************************************)
(* The endpoints of handler.rs that grant LiveKit tokens, delegate leave   *)
(* events or call a homeserver as its application service, as the programs *)
(* they are: a request passes its checks one await at a time, while users  *)
(* and homeservers join and leave the Matrix room and the service may be   *)
(* shut down.                                                              *)
(*                                                                         *)
(* Abstractions.                                                           *)
(*   - All requests are about one Matrix room and its LiveKit room; each   *)
(*     comes from a user of its own, known by the request.                 *)
(*   - The homeserver answers is_joined as of the moment it is asked; its  *)
(*     answers and those of the SFU and the federation proxy may be lost,  *)
(*     broken or errors, and OutboundCalls says what becomes of them.      *)
(*   - A client may hang up, and its request is dropped where it waits.    *)
(***************************************************************************)
EXTENDS Configuration, OutboundCalls

CONSTANTS
    Requests,       \* requests, and the users who make them
    Servers,        \* homeservers
    Ours,           \* hs_server_name, the homeserver of the application service
    PingTrigger     \* whether it is built with the appservice-ping-trigger

ASSUME PingTriggerAssumption == PingTrigger \in BOOLEAN
ASSUME ServersAssumption == Ours \in Servers
ASSUME SubjectsAssumption == Requests \cap Servers = {}

VARIABLES
    config,     \* how the service is configured; never changes
    request,    \* each request, or NoRequest
    todo,       \* the steps it has still to make
    reply,      \* NoReply, Gone or the HTTP status
    joined,     \* the users and homeservers in the Matrix room
    rooms,      \* requests that have created the LiveKit room, or found it
    jobs,       \* the delegations handed over: owner's request, server, owned
    api,        \* the homeserver whose Client-Server API a request resolved last
    granted,    \* the LiveKit token minted for each request: "none", or one to
                \* "subscribe" or to "publish"
    shutdown,   \* whether the handler is cancelled
    tokenSent,  \* history: who was sent the as_token, for which request
    seenJoined, \* history: who has been in the room since a request arrived
    relayed     \* history: how often a destination acted on a relayed request

vars == <<config, request, todo, reply, joined, rooms, jobs, api, granted,
          shutdown, tokenSent, seenJoined, relayed>>
environmentVars == <<config, request, joined, shutdown, seenJoined>>
effectVars == <<rooms, jobs, api, granted, tokenSent, relayed>>

-----------------------------------------------------------------------------
(* The configuration, as far as it decides, of those parse_config allows.   *)

AppServices ==
    {[as_token |-> t, hs_token |-> t, hs_server_name |-> IF t = "" THEN "" ELSE Ours,
      remote_can_publish_homeservers |-> list] :
        t \in {"", "secret"}, list \in {<<>>, <<"*">>}}

ServerLists ==
    {<<>>, <<"*">>} \cup {<<s>> : s \in Servers}
      \cup {<<s, t>> : s \in Servers, t \in Servers}

Config ==
    [full_access_homeservers : ServerLists, app_service_config : AppServices]

HasAppService == is_set_up(config.app_service_config)

is_full_access_user(server) ==
    server_list_contains(config.full_access_homeservers, server)

may_publish_remotely(origin) ==
    server_list_contains(
        config.app_service_config.remote_can_publish_homeservers, origin)

-----------------------------------------------------------------------------
(* Requests. *)

Standalone == {"sfu_get", "get_token", "delegate"}
Proxied    == {"get_token_cs", "get_token_ss", "delegate_cs"}
Endpoints  == Standalone \cup Proxied \cup {"appservice_ping"}

\* What validate() wants of a body, besides the delayed event.
TokenFields  == {"access_token", "matrix_server_name"}
MemberFields == {"id", "claimed_user_id", "claimed_device_id"}

LegacySfuRequest            == {"room"} \cup TokenFields
SfuRequest                  == {"room_id", "slot_id"} \cup TokenFields \cup MemberFields
DelegateDelayedLeaveRequest == SfuRequest \cup {"delay_id", "delay_timeout"}
GetTokenCsRequest           == {"url", "room_id", "slot_id", "member_id"}
GetTokenSsRequest           == GetTokenCsRequest \cup {"user_id"}
DelegateDelayedLeaveCsRequest == GetTokenCsRequest \cup {"delay_id"}
AppservicePingTriggerRequest  == {"server_name", "appservice_id"}

Required(endpoint) ==
    CASE endpoint = "sfu_get"      -> LegacySfuRequest
      [] endpoint = "get_token"    -> SfuRequest
      [] endpoint = "delegate"     -> DelegateDelayedLeaveRequest
      [] endpoint = "get_token_cs" -> GetTokenCsRequest
      [] endpoint = "get_token_ss" -> GetTokenSsRequest
      [] endpoint = "delegate_cs"  -> DelegateDelayedLeaveCsRequest
      [] endpoint = "appservice_ping" -> AppservicePingTriggerRequest

\* With a delay_id comes a positive delay_timeout, where the event is optional.
validate(q) ==
    /\ Required(q.endpoint) \subseteq q.fields
    /\ q.endpoint \in {"sfu_get", "get_token"} =>
            ("delay_id" \in q.fields <=> "delay_timeout" \in q.fields)

\* A body is the set of its fields that are not empty, or positive, and one that
\* is not JSON has none.
Bodies(endpoint) ==
    LET all == Required(endpoint)
    IN {{}} \cup {all \ {field} : field \in all}
            \cup {all \cup delay : delay \in SUBSET {"delay_id", "delay_timeout"}}

\* Who the sender turns out to be: by the OpenID token, or by the headers that
\* the homeserver sets; "elsewhere" is a user of another server than the one the
\* request names, "another" not the user it claims.
Senders(endpoint) ==
    {"genuine", "none", "malformed"}
      \cup (IF endpoint \in Standalone \cup {"get_token_ss"} THEN {"elsewhere"} ELSE {})
      \cup (IF endpoint \in {"get_token", "delegate"} THEN {"another"} ELSE {})

\* server is the issuer of an OpenID token, the server_name of a C-S request or
\* of a ping, or the origin of an S-S request.
RequestTo(endpoint) ==
    [endpoint : {endpoint}, method : {"POST", "OPTIONS", "GET"},
     authorized : BOOLEAN, fields : Bodies(endpoint), server : Servers,
     sender : Senders(endpoint), urlMatches : BOOLEAN]

Request == UNION {RequestTo(endpoint) : endpoint \in Endpoints}

Delegates(q) == "delay_id" \in q.fields

Accepted(q) ==
    /\ q.method = "POST"
    /\ q.endpoint \in Proxied => q.authorized
    /\ validate(q)

\* Only an application service has the other endpoints than the standalone ones.
\* What an endpoint does not look at, or not before it refuses, has one value.
Received(q) ==
    /\ q.endpoint \notin Standalone =>
            HasAppService /\ q.fields \subseteq Required(q.endpoint)
    /\ q.endpoint \notin Proxied => q.authorized /\ q.urlMatches
    /\ q.endpoint = "appservice_ping" => PingTrigger /\ q.sender = "genuine"
    /\ q.endpoint = "delegate_cs" => q.server = Ours
    /\ ~Accepted(q) =>
            /\ q.sender = "genuine" /\ q.urlMatches /\ q.server = Ours
            /\ q.method # "POST" => q.authorized /\ q.fields = Required(q.endpoint)
            /\ ~q.authorized => q.fields = Required(q.endpoint)

\* The steps of each endpoint, in order, each with at most one await: those of
\* its HTTP handler, then those that make the reply.
LegacyMembershipSteps ==
    IF verifies_legacy_membership(config)
    THEN <<"legacy_resolve", "legacy_member">> ELSE <<>>

\* A mutant creates the LiveKit room before it knows that the leave can be
\* delegated.
RoomFirst(q) == <<"create_room", "resolve", "add_job">>
ResolveFirst(q) == <<"resolve", "create_room", "add_job">>

TokenSteps(q) ==
    <<"gate", "body", "openid">> \o LegacyMembershipSteps \o <<"mint">>
      \o (IF ~is_full_access_user(q.server) THEN <<>>
          ELSE IF Delegates(q) THEN ResolveFirst(q) ELSE <<"create_room">>)

DelegateSteps(q) ==
    <<"gate", "body", "openid">> \o LegacyMembershipSteps
      \o <<"resolve", "add_job">>

ProxiedSteps == <<"gate", "hs_token", "body", "header">>

\* Whether the user is for this service, and not one to relay for.
is_local(q) == q.server = Ours

CsTokenSteps(q) ==
    ProxiedSteps
      \o IF is_local(q)
         THEN <<"url", "user_id", "resolve", "user_joined", "mint", "create_room">>
         ELSE <<"user_id", "resolve", "user_joined", "target_joined", "relay">>

\* A mutant trusts the origin homeserver to have checked its user.
SsTokenStepsTrusting(q) ==
    ProxiedSteps
      \o <<"user_id", "origin", "resolve", "ours_joined", "url", "mint",
           "create_room">>

SsTokenSteps(q) ==
    ProxiedSteps
      \o <<"user_id", "origin", "resolve", "ours_joined", "user_joined", "url",
           "mint", "create_room">>

CsDelegateSteps(q) ==
    ProxiedSteps
      \o <<"url", "user_id", "resolve", "user_joined", "look_up_delay", "add_job">>

Program(q) ==
    CASE q.endpoint \in {"sfu_get", "get_token"} -> TokenSteps(q)
      [] q.endpoint = "delegate"     -> DelegateSteps(q)
      [] q.endpoint = "get_token_cs" -> CsTokenSteps(q)
      [] q.endpoint = "get_token_ss" -> SsTokenSteps(q)
      [] q.endpoint = "delegate_cs"  -> CsDelegateSteps(q)
      [] q.endpoint = "appservice_ping" -> <<"gate", "body", "resolve", "ping">>

Step ==
    {"gate", "hs_token", "body", "openid", "legacy_resolve", "legacy_member",
     "mint", "resolve", "create_room", "add_job", "header", "url", "user_id",
     "origin", "user_joined", "target_joined", "ours_joined", "relay",
     "relay_unstable", "look_up_delay", "ping"}

NoRequest == [endpoint |-> "none"]

NoReply == 0
Ok == 200
Gone == 499      \* nobody waits for the reply any more
Refusals == {400, 401, 403, 405, 500, 502, 503}

Subjects == Requests \cup Servers

NoServer == "none"

TypeOK ==
    /\ config \in Config
    /\ request \in [Requests -> Request \cup {NoRequest}]
    /\ todo \in [Requests -> Seq(Step)]
    /\ reply \in [Requests -> {NoReply, Ok, Gone} \cup Refusals]
    /\ joined \subseteq Subjects
    /\ rooms \subseteq Requests
    /\ jobs \subseteq [of : Requests, server : Servers, owned : BOOLEAN]
    /\ api \in [Requests -> Servers \cup {NoServer}]
    /\ granted \in [Requests -> {"none", "subscribe", "publish"}]
    /\ shutdown \in BOOLEAN
    /\ tokenSent \subseteq [by : Requests, server : Servers \cup {NoServer}]
    /\ seenJoined \in [Requests -> SUBSET Subjects]
    /\ relayed \in [Requests -> 0..2]

Init ==
    /\ config \in Config
    /\ request = [r \in Requests |-> NoRequest]
    /\ todo = [r \in Requests |-> <<>>]
    /\ reply = [r \in Requests |-> NoReply]
    /\ joined \in SUBSET Subjects
    /\ rooms = {}
    /\ jobs = {}
    /\ api = [r \in Requests |-> NoServer]
    /\ granted = [r \in Requests |-> "none"]
    /\ shutdown = FALSE
    /\ tokenSent = {}
    /\ seenJoined = [r \in Requests |-> {}]
    /\ relayed = [r \in Requests |-> 0]

-----------------------------------------------------------------------------
(* The environment. *)

Arrive(r) ==
    /\ request[r] = NoRequest
    /\ \E q \in {q \in Request : Received(q)} :
            /\ request' = [request EXCEPT ![r] = q]
            /\ todo' = [todo EXCEPT ![r] = Program(q)]
    /\ seenJoined' = [seenJoined EXCEPT ![r] = joined]
    /\ UNCHANGED <<config, reply, joined, shutdown, effectVars>>

JoinRoom(s) ==
    /\ s \notin joined
    /\ joined' = joined \cup {s}
    /\ seenJoined' = [r \in Requests |->
                        IF todo[r] # <<>> THEN seenJoined[r] \cup {s}
                        ELSE seenJoined[r]]
    /\ UNCHANGED <<config, request, todo, reply, shutdown, effectVars>>

LeaveRoom(s) ==
    /\ s \in joined
    /\ joined' = joined \ {s}
    /\ UNCHANGED <<config, request, todo, reply, shutdown, seenJoined,
                   effectVars>>

ShutDown ==
    /\ ~shutdown
    /\ shutdown' = TRUE
    /\ UNCHANGED <<config, request, todo, reply, joined, seenJoined, effectVars>>

-----------------------------------------------------------------------------
(* The steps.  A request at a step passes it or is refused. *)

At(r, step) == todo[r] # <<>> /\ Head(todo[r]) = step

Pass(r) ==
    /\ todo' = [todo EXCEPT ![r] = Tail(@)]
    /\ reply' = IF Len(todo[r]) = 1 THEN [reply EXCEPT ![r] = Ok] ELSE reply

Refuse(r, status) ==
    /\ todo' = [todo EXCEPT ![r] = <<>>]
    /\ reply' = [reply EXCEPT ![r] = status]

\* A check without an await, or a call that leaves nothing behind.
Check(r, step, passes, status) ==
    /\ At(r, step)
    /\ IF passes THEN Pass(r) ELSE Refuse(r, status)
    /\ UNCHANGED <<environmentVars, effectVars>>

\* A preflight request has its answer here.
gate_post(r) ==
    Check(r, "gate", request[r].method = "POST",
          IF request[r].method = "OPTIONS" THEN Ok ELSE 405)

verify_hs_token(r) == Check(r, "hs_token", request[r].authorized, 401)

decode_json_body(r) == Check(r, "body", validate(request[r]), 400)

require_non_empty_header(r) == Check(r, "header", request[r].sender # "none", 401)

require_matching_lk_url(r) == Check(r, "url", request[r].urlMatches, 400)

matrix_server_name(r) == Check(r, "user_id", request[r].sender # "malformed", 400)

\* A federated user is on the origin server.
require_origin(r) == Check(r, "origin", request[r].sender # "elsewhere", 403)

\* Only full-access users may delegate on the standalone endpoints; a mutant
\* leaves that to the check that comes before the LiveKit room.
MayDelegateLater(q) == TRUE
MayDelegate(q) == Delegates(q) => is_full_access_user(q.server)

UserInfo(q) ==
    {[status |-> 0, body |-> "broken", sub |-> "none"],
     [status |-> 401, body |-> "error", sub |-> "none"]}
      \cup {[status |-> 200, body |-> b, sub |-> q.sender] :
                b \in IF q.sender = "none" THEN {} ELSE {"userinfo", "broken"}}

verify_openid_token(r) ==
    LET q == request[r]
        token == [access_token |-> "token", matrix_server_name |-> q.server]
    IN  /\ At(r, "openid")
        /\ \E answer \in UserInfo(q) :
             LET subs == exchange_openid_userinfo(token, answer)
             IN Check(r, "openid", subs = {"genuine"} /\ MayDelegate(q),
                      IF subs # {"genuine"} THEN 401
                      ELSE IF q.endpoint = "delegate" THEN 403 ELSE 400)

WellKnown ==
    [status : {0, 404}, body : {"broken"}, base_url : {""}]
      \cup [status : {200}, body : {"record", "broken"}, base_url : {"", "https"}]

\* The homeserver that each endpoint resolves: the standalone ones that of their
\* user, to see that the leave event can be sent there, and the ping the one it
\* names; the others our own, which they then call with the as_token.  A mutant
\* has a federated request resolve its origin.
resolved_for_origin(q, step) ==
    IF q.endpoint \in Standalone \cup {"appservice_ping", "get_token_ss"}
         /\ step = "resolve"
    THEN q.server ELSE Ours
resolved_server(q, step) ==
    IF q.endpoint \in Standalone \cup {"appservice_ping"} /\ step = "resolve"
    THEN q.server ELSE Ours

\* An override or the cache may know the URL.  Not to find one is a bad request,
\* or a bad gateway for a ping and where a standalone endpoint verifies membership.
resolve_cs_api_url(r) ==
    \E step \in {"resolve", "legacy_resolve"}, known \in BOOLEAN, answer \in WellKnown :
        LET q == request[r]
            resolved == known \/ discover_client_api(answer) # {}
        IN /\ At(r, step)
           /\ IF resolved
              THEN Pass(r) /\ api' = [api EXCEPT ![r] = resolved_server(q, step)]
              ELSE /\ Refuse(r, IF step = "legacy_resolve" \/ q.endpoint = "appservice_ping"
                                THEN 502 ELSE 400)
                   /\ UNCHANGED api
           /\ UNCHANGED <<environmentVars, rooms, jobs, granted, tokenSent, relayed>>

\* A mutant leaves it to the SFU, where everybody may publish.
PublishesByDefault(q) == TRUE
can_publish(q) ==
    CASE q.endpoint \in {"sfu_get", "get_token"} -> is_full_access_user(q.server)
      [] q.endpoint = "get_token_ss" -> may_publish_remotely(q.server)
      [] OTHER -> TRUE

get_join_token(r) ==
    /\ At(r, "mint")
    /\ \/ /\ Pass(r)
          /\ granted' = [granted EXCEPT ![r] =
                IF can_publish(request[r]) THEN "publish" ELSE "subscribe"]
       \/ Refuse(r, 500) /\ UNCHANGED granted
    /\ UNCHANGED <<environmentVars, rooms, jobs, api, tokenSent, relayed>>

-----------------------------------------------------------------------------
(* The steps that call a homeserver as the application service, or leave    *)
(* something behind.                                                        *)

AsTokenSteps ==
    {"legacy_member", "user_joined", "target_joined", "ours_joined",
     "look_up_delay", "relay", "relay_unstable", "ping"}

\* The call goes to the URL resolved before, with the as_token.
Sent(r) == [by |-> r, server |-> api[r]]

AsksHomeserver(r) ==
    /\ tokenSent' = tokenSent \cup {Sent(r)}
    /\ UNCHANGED <<environmentVars, rooms, jobs, api, granted>>

\* The answers about a subject, as of now.
Membership(subject) ==
    [status : {0, 403}, body : {"broken"}]
      \cup [status : {200},
            body : {"broken", IF subject \in joined THEN "joined" ELSE "left"}]

require_joined(r, step, subject) ==
    /\ At(r, step)
    /\ \E answer \in Membership(subject) :
            CASE is_joined(answer) = "joined"     -> Pass(r)
              [] is_joined(answer) = "not_joined" -> Refuse(r, 403)
              [] OTHER                            -> Refuse(r, 502)
    /\ AsksHomeserver(r)
    /\ UNCHANGED relayed

RequireJoined(r) ==
    \/ require_joined(r, "user_joined", r)
    \/ require_joined(r, "target_joined", request[r].server)
    \/ require_joined(r, "ours_joined", Ours)

enforce_legacy_membership(r) == require_joined(r, "legacy_member", r)

RoomAnswers ==
    [status : {0}, body : {"broken"}] \cup [status : {200}, body : {"room", "broken"}]
      \cup [status : {503}, body : {"unavailable"}]

\* A call that fails may have created the room all the same.
create_livekit_room(r) ==
    /\ At(r, "create_room")
    /\ \E answer \in RoomAnswers :
            IF create_room(answer)
            THEN Pass(r) /\ rooms' = rooms \cup {r}
            ELSE Refuse(r, 500) /\ rooms' \in {rooms, rooms \cup {r}}
    /\ UNCHANGED <<environmentVars, jobs, api, granted, tokenSent, relayed>>

DelayAnswers ==
    LET none == [room |-> "none", delay_ms |-> 0, delay |-> 0]
    IN [status : {0, 404, 429, 500}, body : {"error"}, event : {none},
        hint : {NoHint, [header |-> {1}, retry_after_ms |-> 0]}]
         \cup [status : {200}, body : {"event", "broken"}, hint : {NoHint},
               event : [room : {"this", "another"}, delay_ms : {0, 8}, delay : {0, 8}]]

look_up_delay_timeout(r) ==
    /\ At(r, "look_up_delay")
    /\ \E answer \in DelayAnswers :
            LET result == get_delayed_event_delay("this", answer)
            IN CASE result = "Ok"                   -> Pass(r)
                 [] result = "DelayedEventNotFound" -> Refuse(r, 400)
                 [] OTHER                           -> Refuse(r, 503)
    /\ AsksHomeserver(r)
    /\ UNCHANGED relayed

\* Whether the job may act as its owner, with the as_token, on its server.
owner_user_id_for(server) == HasAppService /\ server = Ours

\* The delegation that each endpoint hands over: for a user of ours, known by the
\* headers, or for the one of the OpenID token.
DelayedEventJobParams(r) ==
    LET q == request[r]
    IN IF q.endpoint = "delegate_cs"
       THEN [of |-> r, server |-> Ours, owned |-> TRUE]
       ELSE [of |-> r, server |-> q.server, owned |-> owner_user_id_for(q.server)]

\* The loop accepts the job: its delay is positive, since validate() and
\* get_delayed_event_delay refuse any other.
HandOver(r) == jobs' = jobs \cup {DelayedEventJobParams(r)}

matrix_error_for_add_job(err) == IF err = "Shutdown" THEN 503 ELSE 400

\* A cancelled handler may still take the job.
add_delayed_event_job(r) ==
    /\ At(r, "add_job")
    /\ \/ Pass(r) /\ HandOver(r)
       \/ /\ shutdown
          /\ Refuse(r, matrix_error_for_add_job("Shutdown"))
          /\ UNCHANGED jobs
    /\ UNCHANGED <<environmentVars, rooms, api, granted, tokenSent, relayed>>

\* What a destination answers that has acted on the request, or does not know
\* the path of it.
DestinationAnswers(acted) ==
    IF acted
    THEN [status : {200}, errcode : {""}, content : {"response", "other"}]
           \cup [status : {400}, errcode : {"M_INVALID_PARAM", "M_BAD_JSON"}, content : {"error"}]
           \cup [status : {403}, errcode : {"M_FORBIDDEN"}, content : {"error"}]
           \cup [status : {404}, errcode : {"M_NOT_FOUND"}, content : {"error"}]
           \cup [status : {500, 502}, errcode : {"M_UNKNOWN"}, content : {"error"}]
    ELSE [status : {404}, errcode : {"", "M_UNRECOGNIZED"}, content : {"error"}]

\* The answer of the proxy may break off, be lost or be an error of its own.
ProxyAnswers(acted) ==
    [status : {200}, body : {"proxied", "broken"}, of : DestinationAnswers(acted)]
      \cup [status : {0, 502}, body : {"broken"}, of : DestinationAnswers(acted)]

\* The proxy of our homeserver relays the request, and once more, on the unstable
\* path, if its destination does not know the stable one.
request_get_token_via_federation(r) ==
    /\ At(r, "relay") \/ At(r, "relay_unstable")
    /\ \E acted \in BOOLEAN : \E answer \in ProxyAnswers(acted) :
            LET result == post_via_fed_proxy(answer)
            IN /\ relayed' = [relayed EXCEPT ![r] = @ + IF acted THEN 1 ELSE 0]
               /\ CASE result = Relayed -> Pass(r)
                    [] At(r, "relay") /\ NotRecognised(result) ->
                        /\ todo' = [todo EXCEPT ![r] = <<"relay_unstable">>]
                        /\ UNCHANGED reply
                    [] OTHER ->
                        Refuse(r, matrix_error_for_federation_token(result))
    /\ AsksHomeserver(r)

\* A ping makes the homeserver it names call back; its client has the status that
\* the homeserver answers.
trigger_appservice_ping(r) ==
    /\ At(r, "ping")
    /\ Pass(r) \/ \E status \in Refusals : Refuse(r, status)
    /\ AsksHomeserver(r)
    /\ UNCHANGED relayed

\* The client hangs up; what was asked for may still come.
HangUp(r) ==
    /\ todo[r] # <<>>
    /\ todo' = [todo EXCEPT ![r] = <<>>]
    /\ reply' = [reply EXCEPT ![r] = Gone]
    /\ IF At(r, "create_room") THEN rooms' \in {rooms, rooms \cup {r}}
       ELSE UNCHANGED rooms
    /\ \/ At(r, "add_job") /\ HandOver(r)
       \/ UNCHANGED jobs
    /\ IF At(r, "relay") \/ At(r, "relay_unstable")
       THEN relayed' \in {relayed, [relayed EXCEPT ![r] = @ + 1]}
       ELSE UNCHANGED relayed
    /\ IF Head(todo[r]) \in AsTokenSteps
       THEN tokenSent' \in {tokenSent, tokenSent \cup {Sent(r)}}
       ELSE UNCHANGED tokenSent
    /\ UNCHANGED <<environmentVars, api, granted>>

-----------------------------------------------------------------------------
Answered ==
    /\ \A r \in Requests : reply[r] # NoReply
    /\ UNCHANGED vars

Process(r) ==
    \/ gate_post(r) \/ verify_hs_token(r) \/ decode_json_body(r)
    \/ verify_openid_token(r) \/ require_non_empty_header(r)
    \/ require_matching_lk_url(r) \/ matrix_server_name(r) \/ require_origin(r)
    \/ resolve_cs_api_url(r) \/ RequireJoined(r)
    \/ enforce_legacy_membership(r) \/ get_join_token(r)
    \/ create_livekit_room(r) \/ look_up_delay_timeout(r)
    \/ add_delayed_event_job(r) \/ request_get_token_via_federation(r)
    \/ trigger_appservice_ping(r)

Next ==
    \/ \E r \in Requests : Arrive(r) \/ Process(r) \/ HangUp(r)
    \/ \E s \in Subjects : JoinRoom(s) \/ LeaveRoom(s)
    \/ ShutDown
    \/ Answered

Spec == Init /\ [][Next]_vars

-----------------------------------------------------------------------------
(* Properties. *)

\* Whether request r reaches into the room on the word of a member: it creates
\* or joins its LiveKit room, or hands over a leave event.  A preflight request
\* does not.
HasEffect(r) ==
    \/ r \in rooms \/ relayed[r] > 0
    \/ reply[r] = Ok /\ request[r].method # "OPTIONS"

\* Who has to be in the Matrix room for that.
MustBeJoined(r) ==
    LET q == request[r]
    IN  (IF \/ q.endpoint \in Proxied
            \/ q.endpoint \in Standalone /\ verifies_legacy_membership(config)
         THEN {r} ELSE {})
          \cup (IF q.endpoint = "get_token_ss" THEN {Ours} ELSE {})
          \cup (IF q.endpoint = "get_token_cs" /\ ~is_local(q)
                THEN {q.server} ELSE {})

\* "Room membership is verified for every relayed request ... Membership, not
\* the list, is the guard there", and on the other endpoints that verify it:
\* no token, room, relayed request or delegation unless each of those concerned
\* has been in the Matrix room at some time during the request, whatever the
\* others did.
MembershipGuards ==
    \A r \in Requests :
        HasEffect(r) => MustBeJoined(r) \subseteq seenJoined[r]

\* "So that we don't produce lingering rooms in the error case": a request that
\* is refused after it created the LiveKit room either lost the SFU's answer, with
\* its token minted, or met a shutdown before it could hand over the leave event.
NoLingeringRoom ==
    \A r \in Requests :
        reply[r] \in Refusals /\ r \in rooms =>
            \/ reply[r] = 500 /\ granted[r] # "none"
            \/ shutdown /\ reply[r] = 503 /\ Delegates(request[r])

\* "This service never sends its as_token to a server other than the one it's
\* configured for", whichever homeservers its other calls resolve, and the jobs
\* it hands over have it for no other; without an application service nobody is
\* sent it.  Only the trigger of a ping, where it is built in, sends it to the
\* server that its request names.
AsTokenStaysHome ==
    /\ \A sent \in tokenSent :
            /\ HasAppService
            /\ \/ sent.server = Ours
               \/ PingTrigger /\ request[sent.by].endpoint = "appservice_ping"
    /\ \A job \in jobs : job.owned => HasAppService /\ job.server = Ours

\* A job exists only for a user of a full-access homeserver or of ours, whose
\* request was not refused for anything it lacks.
DelegationIsEarned ==
    \A job \in jobs :
        LET q == request[job.of]
        IN /\ reply[job.of] \in {Ok, Gone}
           /\ Accepted(q) /\ Delegates(q) /\ q.sender = "genuine"
           /\ \/ is_full_access_user(job.server)
              \/ job.server = Ours /\ q.endpoint = "delegate_cs"

\* "Restricted users can join existing LiveKit SFU rooms, but cannot auto-create
\* new ones": on the standalone endpoints only a full-access user's request
\* creates a room; and whoever is given a token to publish with has a room to
\* publish in, because a request that could not create it is refused.
PublishersHaveRooms ==
    \A r \in Requests :
        LET q == request[r]
        IN /\ q.endpoint \in Standalone /\ r \in rooms
                => is_full_access_user(q.server)
           /\ reply[r] = Ok /\ granted[r] = "publish" => r \in rooms

\* A destination acts at most once on a request that is relayed to it, although
\* the relay is repeated: one that has created its LiveKit room and then failed,
\* or whose answer is lost, is not asked again.
RelayedAtMostOnce == \A r \in Requests : relayed[r] <= 1

=============================================================================
