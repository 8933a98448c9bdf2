------------------------------- MODULE MCService -------------------------------
(***************************************************************************)
(* Environments for Service: each way to bind, and each way a reader of    *)
(* the configuration takes or fails.                                       *)
(***************************************************************************)
EXTENDS Service

Base ==
    [key |-> "key", secret |-> "secret", key_file |-> Absent,
     key_from_file |-> Absent, secret_from_file |-> Absent,
     livekit_url |-> "url", skip_verify_tls |-> FALSE,
     full_access_homeservers |-> <<"hs.example">>,
     jwt_bind |-> <<>>, jwt_port |-> "",
     can_update_own_metadata |-> FALSE,
     sanity_check_interval_seconds |-> Absent,
     cs_api_url_overrides |-> <<>>,
     hs_server_name |-> "", as_registration_file |-> Absent,
     as_token |-> "", hs_token |-> "",
     remote_can_publish_homeservers |-> Absent,
     redis_url |-> Absent, redis_password |-> ""]

Binds ==
    {[Base EXCEPT !.jwt_bind = <<"/", "socket">>],
     [Base EXCEPT !.jwt_bind = <<"127.0.0.1", ":", "443">>],
     [Base EXCEPT !.jwt_port = "443"],
     [Base EXCEPT !.jwt_bind = <<":", "80">>, !.jwt_port = "443"]}

Registration == [as_token |-> "as", hs_token |-> "hs"]

Readers ==
    {[Base EXCEPT !.key = "blank"],
     [Base EXCEPT !.key_file = Given(<<"key", "secret">>), !.key = ""],
     [Base EXCEPT !.key_file = Given(<<"key", "secret", "more">>)],
     [Base EXCEPT !.secret_from_file = Unreadable],
     [Base EXCEPT !.full_access_homeservers = <<>>],
     [Base EXCEPT !.sanity_check_interval_seconds = Given(-1)],
     [Base EXCEPT !.cs_api_url_overrides = <<<<"hs.example">>>>],
     [Base EXCEPT !.cs_api_url_overrides =
                        <<<<"hs.example", "one">>, <<"hs.example", "two">>>>],
     [Base EXCEPT !.hs_server_name = "hs.example", !.as_token = "as"],
     [Base EXCEPT !.hs_server_name = "hs.example",
                  !.as_registration_file = Given(Registration)],
     [Base EXCEPT !.hs_server_name = "hs.example",
                  !.as_registration_file = Given([as_token |-> "as"])],
     [Base EXCEPT !.redis_url = Given("redis")],
     [Base EXCEPT !.redis_url = Given("redis-without-authority"),
                  !.redis_password = "password"]}

MCEnvironments == {Base} \cup Binds \cup Readers

=============================================================================
