----------------------------- MODULE Configuration -----------------------------
(***************************************************************************)
(* From the process environment to the configuration of the service        *)
(* (config.rs).                                                            *)
(*                                                                         *)
(* A variable that is unset or empty is "" or <<>>; text the code takes    *)
(* apart is a sequence of its parts, with the separators the code splits   *)
(* at as parts of their own.  A file, or a value to be parsed, is a record *)
(* [given, content]: content is {} when it cannot be read or parsed.       *)
(* A reader returns the set of its results: {} is the error, with which    *)
(* the process exits, and otherwise there is exactly one.                  *)
(***************************************************************************)
EXTENDS Integers, Sequences

Absent     == [given |-> FALSE, content |-> {}]
Given(c)   == [given |-> TRUE, content |-> {c}]
Unreadable == [given |-> TRUE, content |-> {}]

\* The blank text is all white space.
Trimmed(text) == IF text = "blank" THEN "" ELSE text

\* The value of a file, or of the variable it takes the place of.
ReadOr(file, default) == IF file.given THEN file.content ELSE {default}

-----------------------------------------------------------------------------
\* LIVEKIT_KEY_FILE holds both, parted by a colon; otherwise each may come from a
\* file of its own.
read_key_secret(env) ==
    LET pairs == IF env.key_file.given
                 THEN {parts \in env.key_file.content : Len(parts) = 2}
                 ELSE ReadOr(env.key_from_file, env.key)
                        \X ReadOr(env.secret_from_file, env.secret)
    IN {<<Trimmed(pair[1]), Trimmed(pair[2])>> : pair \in pairs}

parse_server_list(raw) == SelectSeq(raw, LAMBDA part : part \notin {",", " "})

\* A list of just "*" matches any server.
server_list_contains(list, server) ==
    list = <<"*">> \/ \E i \in DOMAIN list : list[i] = server

-----------------------------------------------------------------------------
is_empty(app) == app.as_token = "" /\ app.hs_token = "" /\ app.hs_server_name = ""

is_set_up(app) == app.as_token # "" /\ app.hs_token # "" /\ app.hs_server_name # ""

\* The tokens of a registration file; it must be a mapping that has both.
read_app_service_registration(file) ==
    {<<Trimmed(fields["as_token"]), Trimmed(fields["hs_token"])>> :
        fields \in {f \in file.content : {"as_token", "hs_token"} \subseteq DOMAIN f}}

\* All of the application service or none of it.  Unset, the list of those who
\* may publish remotely is everybody; set and empty, it is nobody.
read_app_service_config(env) ==
    LET tokens == IF env.as_registration_file.given
                  THEN read_app_service_registration(env.as_registration_file)
                  ELSE {<<Trimmed(env.as_token), Trimmed(env.hs_token)>>}
        remote == IF env.remote_can_publish_homeservers.given
                  THEN {parse_server_list(raw) :
                            raw \in env.remote_can_publish_homeservers.content}
                  ELSE {<<"*">>}
        configs == {[as_token |-> t[1], hs_token |-> t[2],
                     hs_server_name |-> env.hs_server_name,
                     remote_can_publish_homeservers |-> r] :
                        t \in tokens, r \in remote}
    IN {app \in configs : is_empty(app) \/ is_set_up(app)}

\* Entries server=url; of two for one server the last one counts.
read_cs_api_url_overrides(entries) ==
    LET Server(i) == Trimmed(entries[i][1])
        Url(i)    == Trimmed(entries[i][2])
        servers   == {Server(i) : i \in DOMAIN entries}
        Last(s)   == CHOOSE i \in DOMAIN entries :
                        /\ Server(i) = s
                        /\ \A j \in DOMAIN entries : Server(j) = s => j <= i
    IN IF \A i \in DOMAIN entries :
            Len(entries[i]) = 2 /\ Server(i) # "" /\ Url(i) # ""
       THEN {[s \in servers |-> Url(Last(s))]}
       ELSE {}

-----------------------------------------------------------------------------
\* The deprecated port is an error beside a bind address.
parse_bind(env) ==
    IF env.jwt_bind = <<>>
    THEN {<<":", IF env.jwt_port = "" THEN "8080" ELSE env.jwt_port>>}
    ELSE IF env.jwt_port = "" THEN {env.jwt_bind} ELSE {}

read_sanity_check_interval(env) ==
    {secs \in ReadOr(env.sanity_check_interval_seconds, 0) : secs >= 0}

NoRedis == "none"

\* A password without a URL is ignored, and one the URL cannot take an error.
read_redis_url(env) ==
    IF env.redis_url.given
    THEN {url \in env.redis_url.content :
            env.redis_password # "" => url # "redis-without-authority"}
    ELSE {NoRedis}

Settings(env, key, bind, interval, overrides, app, redis) ==
    [key |-> key[1], secret |-> key[2], lk_url |-> env.livekit_url,
     skip_verify_tls |-> env.skip_verify_tls,
     full_access_homeservers |->
            parse_server_list(env.full_access_homeservers),
     lk_jwt_bind |-> bind,
     sanity_check_interval |-> interval,
     cs_api_url_overrides |-> overrides,
     redis_url |-> redis,
     app_service_config |-> app,
     can_update_own_metadata |-> env.can_update_own_metadata]

\* What has to be set.
required(env) ==
    {key \in read_key_secret(env) :
        /\ key[1] # "" /\ key[2] # "" /\ env.livekit_url # ""
        /\ env.full_access_homeservers # <<>>}

parse_config(env) ==
    {Settings(env, key, bind, interval, overrides, app, redis) :
        key \in required(env),
        bind \in parse_bind(env),
        interval \in read_sanity_check_interval(env),
        overrides \in read_cs_api_url_overrides(env.cs_api_url_overrides),
        app \in read_app_service_config(env),
        redis \in read_redis_url(env)}

\* On the legacy endpoints membership can be verified only where the users of the
\* configured homeserver are the only ones who can create rooms.
verifies_legacy_membership(config) ==
    /\ is_set_up(config.app_service_config)
    /\ config.full_access_homeservers
            = <<config.app_service_config.hs_server_name>>

-----------------------------------------------------------------------------
\* The addresses to try, in order: a path is a unix socket, a bare port means the
\* IPv6 wildcard and then the IPv4 one.
is_unix(bind) == bind[1] = "/"

bind_addresses(bind) ==
    IF bind[1] = ":" THEN <<<<"[::]">> \o bind, <<"0.0.0.0">> \o bind>>
                     ELSE <<bind>>

=============================================================================
