-------------------------------- MODULE Service --------------------------------
(***************************************************************************)
(* The life of the service's processes (main.rs) and the health check of   *)
(* the container (bin/healthcheck.rs), which share an environment and      *)
(* nothing else: the check has to find the service at the address the      *)
(* service ended up with.                                                  *)
(*                                                                         *)
(* A process may be killed at any time, and another one started while the  *)
(* first one runs.  What a process does once it serves is the subject of   *)
(* the other modules.                                                      *)
(***************************************************************************)
EXTENDS Configuration

CONSTANTS
    Processes,      \* operating-system processes of the service
    Environments    \* the environments an operator may set up

NoProcess == "nobody"
Stranger  == "stranger"     \* a program of somebody else

ASSUME ProcessesAssumption == {NoProcess, Stranger} \cap Processes = {}

VARIABLES
    env,        \* the environment, of every process and of the health check
    host,       \* what the host offers: [ipv6, dualstack -> BOOLEAN]
    stage,      \* each process: "off", "parsing", "connecting", "creating",
                \* "unlinking", "binding", "serving" or "exited"
    tried,      \* how many bind addresses each process has tried
    bound,      \* who accepts connections at each address
    file,       \* whether the path of the unix socket exists
    check,      \* the health check: [at, next, served, steady]
    crowded     \* two processes have been alive at the same time

vars == <<env, host, stage, tried, bound, file, check, crowded>>

Alive(p) == stage[p] \notin {"off", "exited"}

\* The addresses of the environment.
Addresses ==
    UNION {{bind_addresses(bind)[i] : i \in DOMAIN bind_addresses(bind)} :
                bind \in parse_bind(env)}

AllAddresses ==
    UNION {UNION {{bind_addresses(bind)[i] : i \in DOMAIN bind_addresses(bind)} :
                    bind \in parse_bind(e)} : e \in Environments}

Init ==
    /\ env \in Environments
    /\ host \in [ipv6 : BOOLEAN, dualstack : BOOLEAN]
    /\ stage = [p \in Processes |-> "off"]
    /\ tried = [p \in Processes |-> 0]
    /\ bound \in {b \in [AllAddresses -> {NoProcess, Stranger}] :
                    \A a \in AllAddresses :
                        b[a] = Stranger => a \in Addresses /\ ~is_unix(a)}
    /\ file \in {f \in BOOLEAN : f => \E a \in Addresses : is_unix(a)}
    /\ check = [at |-> "idle", next |-> 1, served |-> FALSE, steady |-> FALSE]
    /\ crowded = FALSE

-----------------------------------------------------------------------------
(* The network of the host.  An IPv6 wildcard that is dual stack takes the  *)
(* IPv4 wildcard, too.                                                      *)

IsIPv6(a) == a[1] = "[::]"
IsIPv4(a) == a[1] = "0.0.0.0"

Taken(a) == bound[a] # NoProcess

Clash(a, b) ==
    \/ a = b
    \/ host.dualstack /\ {a, b} \subseteq {x \in Addresses : IsIPv6(x) \/ IsIPv4(x)}

\* A path that exists cannot be bound, whether anybody listens or not.
CanBind(a) ==
    IF is_unix(a) THEN ~file
    ELSE /\ IsIPv6(a) => host.ipv6
         /\ \A b \in Addresses : Clash(a, b) => ~Taken(b)

\* Who answers a connection to an address; a unix socket answers while its path
\* leads to it.
Answers(a) ==
    IF Taken(a) THEN bound[a]
    ELSE IF IsIPv4(a) /\ host.dualstack
         THEN LET v6 == {b \in Addresses : IsIPv6(b) /\ Taken(b)}
              IN IF v6 = {} THEN NoProcess ELSE bound[CHOOSE b \in v6 : TRUE]
         ELSE NoProcess

-----------------------------------------------------------------------------
(* What a check has seen of the service; kept to state the properties.      *)

Serving(s) == {p \in Processes : s[p] = "serving"}

\* Whether a process was serving at some time of the check, and whether the
\* same one was all the time.
Watched ==
    [check EXCEPT !.served = @ \/ Serving(stage') # {},
                  !.steady = @ /\ Serving(stage') = Serving(stage)]

ProcessUnchanged == UNCHANGED <<env, host>>

Move(p, from, to) ==
    /\ stage[p] = from
    /\ stage' = [stage EXCEPT ![p] = to]
    /\ check' = Watched
    /\ crowded' = (crowded \/ \E q \in Processes \ {p} : Alive(q))
    /\ ProcessUnchanged

-----------------------------------------------------------------------------
(* main. *)

Launch(p) ==
    /\ \/ Move(p, "off", "parsing")
       \/ Move(p, "exited", "parsing")
    /\ tried' = [tried EXCEPT ![p] = 0]
    /\ UNCHANGED <<bound, file>>

\* parse_config, and exit(1) when it fails.
Parse(p) ==
    /\ Move(p, "parsing", IF parse_config(env) = {} THEN "exited"
                                                    ELSE "connecting")
    /\ UNCHANGED <<tried, bound, file>>

\* new_redis_store: opening the URL, connecting and a PING may each fail.
ConnectStore(p) ==
    /\ \/ Move(p, "connecting", "creating")
       \/ /\ \A c \in parse_config(env) : c.redis_url # NoRedis
          /\ Move(p, "connecting", "exited")
    /\ UNCHANGED <<tried, bound, file>>

\* Handler::new: from here on the loop recovers stored jobs, bound or not.
CreateHandler(p) ==
    /\ Move(p, "creating",
            IF \E a \in Addresses : is_unix(a) THEN "unlinking" ELSE "binding")
    /\ UNCHANGED <<tried, bound, file>>

\* remove_file, whose failure is ignored: a path that still leads to a listener
\* leads nowhere afterwards.  A mutant leaves the path alone.
KeepFile(p) ==
    /\ Move(p, "unlinking", "binding")
    /\ UNCHANGED <<tried, bound, file>>

RemoveFile(p) ==
    /\ Move(p, "unlinking", "binding")
    /\ file' = FALSE
    /\ bound' = [a \in DOMAIN bound |->
                    IF is_unix(a) THEN NoProcess ELSE bound[a]]
    /\ UNCHANGED tried

\* The next address in order; without one left, exit(1).
Bind(p) ==
    /\ stage[p] = "binding"
    /\ \E c \in parse_config(env) :
        LET addrs == bind_addresses(c.lk_jwt_bind)
            i     == tried[p] + 1
        IN \/ /\ CanBind(addrs[i])
              /\ Move(p, "binding", "serving")
              /\ bound' = [bound EXCEPT ![addrs[i]] = p]
              /\ file' = (file \/ is_unix(addrs[i]))
              /\ UNCHANGED tried
           \/ /\ ~CanBind(addrs[i])
              /\ Move(p, "binding", IF i = Len(addrs) THEN "exited"
                                                      ELSE "binding")
              /\ tried' = [tried EXCEPT ![p] = i]
              /\ UNCHANGED <<bound, file>>

\* The process is killed, or axum::serve fails.  The path of its socket stays.
Die(p) ==
    /\ Alive(p)
    /\ stage' = [stage EXCEPT ![p] = "off"]
    /\ bound' = [a \in DOMAIN bound |->
                    IF bound[a] = p THEN NoProcess ELSE bound[a]]
    /\ check' = Watched
    /\ UNCHANGED <<tried, file, crowded>>
    /\ ProcessUnchanged

-----------------------------------------------------------------------------
(* The health check, which may be run again and again. *)

CheckUnchanged ==
    /\ UNCHANGED <<stage, tried, bound, file, crowded>>
    /\ ProcessUnchanged

StartCheck ==
    /\ check.at # "requesting"
    /\ check' = [at |-> IF parse_bind(env) = {} THEN "failed" ELSE "requesting",
                 next |-> 1,
                 served |-> Serving(stage) # {},
                 steady |-> Serving(stage) # {}]
    /\ CheckUnchanged

\* The first address that answers decides.  Mutants take any answer for a good
\* one, and try the first address only.
TakesAnyAnswer(who) == TRUE
IsHealthy(who) == who \in Processes

GivesUpAtOnce(addrs) == TRUE
IsLast(addrs) == check.next = Len(addrs)

Request ==
    /\ check.at = "requesting"
    /\ \E bind \in parse_bind(env) :
        LET addrs == bind_addresses(bind)
            who   == Answers(addrs[check.next])
        IN check' =
            IF who # NoProcess
            THEN [check EXCEPT !.at = IF IsHealthy(who) THEN "ok" ELSE "failed"]
            ELSE IF IsLast(addrs) THEN [check EXCEPT !.at = "failed"]
                                  ELSE [check EXCEPT !.next = @ + 1]
    /\ CheckUnchanged

-----------------------------------------------------------------------------
Process(p) ==
    \/ Parse(p) \/ ConnectStore(p) \/ CreateHandler(p) \/ RemoveFile(p)
    \/ Bind(p)

Next ==
    \/ \E p \in Processes : Launch(p) \/ Process(p) \/ Die(p)
    \/ StartCheck
    \/ Request

Spec == Init /\ [][Next]_vars /\ \A p \in Processes : WF_vars(Process(p))

-----------------------------------------------------------------------------
(* Properties. *)

\* A check that succeeds has met the service: some process was serving while the
\* check ran, whoever else may listen on one of the addresses.
HealthyMeansServing == check.at = "ok" => check.served

\* And a check finds a service that serves all along: the address the service
\* fell back to, on a host without IPv6 or with two stacks, is one the check
\* tries.  A program of somebody else on an address tried earlier hides the
\* service, and so does a second process that takes over the unix socket.
ServingIsHealthy ==
    check.at = "failed" /\ check.steady =>
        crowded \/ \E a \in Addresses : bound[a] = Stranger

\* A process that could parse its configuration and reach its store serves,
\* unless it is killed or somebody holds an address of its own: what a killed
\* process has left behind never keeps the next one from serving.
RestartServes ==
    \A p \in Processes :
        stage[p] = "creating" ~>
            \/ stage[p] \in {"serving", "off"}
            \/ crowded
            \/ \E a \in Addresses : bound[a] = Stranger

=============================================================================
