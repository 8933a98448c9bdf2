----------------------------- MODULE ServiceProofs -----------------------------
(***************************************************************************)
(* The health check is right about the service, for any number of          *)
(* processes and every environment: a check that succeeds has met a        *)
(* process that serves, and one that fails has not missed a process that   *)
(* serves all along, unless somebody else is at its address.               *)
(*                                                                         *)
(* Neither is a matter of the check alone.  That the first answer can be   *)
(* trusted takes that nobody accepts connections but a process that serves *)
(* (AcceptsServing); that a silent address may be passed over takes that   *)
(* the service is at one still to be tried (StillAhead), which is so       *)
(* because every process binds, in the same order, an address of the same  *)
(* list.                                                                   *)
(***************************************************************************)
EXTENDS Service, TLAPS

Stages ==
    {"off", "parsing", "connecting", "creating", "unlinking", "binding",
     "serving", "exited"}

\* Whoever listens at an address of the environment without being the service.
StrangerAround == \E a \in Addresses : bound[a] = Stranger

TypeInv ==
    /\ env \in Environments
    /\ stage \in [Processes -> Stages]
    /\ tried \in [Processes -> Nat]
    /\ bound \in [AllAddresses -> {NoProcess, Stranger} \cup Processes]
    /\ check \in [at : {"idle", "requesting", "ok", "failed"}, next : Nat,
                 served : BOOLEAN, steady : BOOLEAN]
    /\ crowded \in BOOLEAN

\* How far a process is with its addresses at each stage.
InRange(p) ==
    /\ stage[p] \in {"parsing", "connecting", "creating", "unlinking"}
            => tried[p] = 0
    /\ stage[p] = "binding" =>
            \A bind \in parse_bind(env) :
                tried[p] + 1 \in DOMAIN bind_addresses(bind)

\* The next address to bind, and to ask, is one of the environment.
NextInRange ==
    /\ \A p \in Processes : InRange(p)
    /\ \A bind \in parse_bind(env) : check.next \in DOMAIN bind_addresses(bind)

\* Nobody accepts connections for the service but a process that serves, and no
\* path is a stranger's.
AcceptsServing ==
    \A a \in AllAddresses :
        /\ bound[a] \in Processes => stage[bound[a]] = "serving"
        /\ bound[a] = Stranger => ~is_unix(a)

\* A process that serves accepts connections at one of its addresses, until
\* another one takes the path away from it.
ServingIsBound ==
    \A p \in Processes :
        stage[p] = "serving" =>
            \/ crowded
            \/ \E bind \in parse_bind(env) :
                \E i \in DOMAIN bind_addresses(bind) :
                    bound[bind_addresses(bind)[i]] = p

\* A check under way has seen who is serving; and if the same process has been
\* serving all along, it is at an address still to be tried.
StillAhead ==
    check.at = "requesting" =>
        /\ parse_bind(env) # {}
        /\ Serving(stage) # {} => check.served
        /\ check.steady =>
            \/ crowded
            \/ StrangerAround
            \/ /\ Serving(stage) # {}
               /\ \E bind \in parse_bind(env) :
                    \E j \in DOMAIN bind_addresses(bind) :
                        /\ j >= check.next
                        /\ bound[bind_addresses(bind)[j]] \in Processes

ServiceInv ==
    /\ TypeInv /\ NextInRange /\ AcceptsServing /\ ServingIsBound /\ StillAhead
    /\ HealthyMeansServing /\ ServingIsHealthy

-----------------------------------------------------------------------------
(* Addresses. *)

LEMMA OneBind ==
  ASSUME NEW e, NEW b \in parse_bind(e), NEW c \in parse_bind(e)
  PROVE  b = c
<1>1. CASE e.jwt_bind = <<>>
  <2>1. parse_bind(e) = {<<":", IF e.jwt_port = "" THEN "8080" ELSE e.jwt_port>>}
    BY <1>1 DEF parse_bind
  <2> QED
    BY <2>1, Zenon
<1>2. CASE e.jwt_bind # <<>>
  BY <1>2 DEF parse_bind
<1> QED
  BY <1>1, <1>2

LEMMA OneOrTwoAddresses ==
  ASSUME NEW bind
  PROVE  /\ DOMAIN bind_addresses(bind) = 1 .. Len(bind_addresses(bind))
         /\ Len(bind_addresses(bind)) \in {1, 2}
<1>1. CASE bind[1] = ":"
  <2>1. bind_addresses(bind) = <<<<"[::]">> \o bind, <<"0.0.0.0">> \o bind>>
    BY <1>1 DEF bind_addresses
  <2> QED
    BY <2>1
<1>2. CASE bind[1] # ":"
  <2>1. bind_addresses(bind) = <<bind>>
    BY <1>2 DEF bind_addresses
  <2> QED
    BY <2>1
<1> QED
  BY <1>1, <1>2

LEMMA AddressesAre ==
  ASSUME TypeInv, NEW bind \in parse_bind(env),
         NEW i \in DOMAIN bind_addresses(bind)
  PROVE  bind_addresses(bind)[i] \in Addresses
BY DEF Addresses

LEMMA AddressesAreKnown ==
  ASSUME TypeInv
  PROVE  Addresses \subseteq AllAddresses
BY DEF TypeInv, Addresses, AllAddresses

LEMMA ConfiguredBind ==
  ASSUME NEW e, NEW c \in parse_config(e)
  PROVE  c.lk_jwt_bind \in parse_bind(e)
<1>1. PICK key \in required(e), bind \in parse_bind(e),
           interval \in read_sanity_check_interval(e),
           overrides \in read_cs_api_url_overrides(e.cs_api_url_overrides),
           app \in read_app_service_config(e),
           redis \in read_redis_url(e) :
        c = Settings(e, key, bind, interval, overrides, app, redis)
  BY DEF parse_config
<1> QED
  BY <1>1 DEF Settings

-----------------------------------------------------------------------------
(* Steps of a process. *)

\* What a move does, whatever becomes of the address.
LEMMA MoveIs ==
  ASSUME TypeInv, NEW p \in Processes, NEW from \in Stages, NEW to \in Stages,
         Move(p, from, to)
  PROVE  /\ stage[p] = from
         /\ stage' \in [Processes -> Stages]
         /\ stage'[p] = to
         /\ \A q \in Processes \ {p} : stage'[q] = stage[q]
         /\ env' = env
         /\ check' = Watched
         /\ crowded' \in BOOLEAN /\ (crowded => crowded')
         /\ \A q \in Processes \ {p} : stage[q] = "serving" => crowded'
BY DEF TypeInv, Move, ProcessUnchanged, Alive

LEMMA WatchedIs ==
  ASSUME TypeInv, check' = Watched
  PROVE  /\ check' \in [at : {"idle", "requesting", "ok", "failed"}, next : Nat,
                        served : BOOLEAN, steady : BOOLEAN]
         /\ check'.at = check.at /\ check'.next = check.next
         /\ check'.served <=> check.served \/ Serving(stage') # {}
         /\ check'.steady => check.steady /\ Serving(stage') = Serving(stage)
BY DEF TypeInv, Watched

\* A step of a process leaves the health check right if nobody but a process that
\* stops serving, or that meets another one, loses an address.
LEMMA CheckStaysRight ==
  ASSUME ServiceInv, env' = env, check' = Watched, crowded => crowded',
         \A a \in Addresses : bound[a] = Stranger => bound'[a] = Stranger,
         \A a \in Addresses :
            bound[a] \in Processes /\ Serving(stage') = Serving(stage)
                => crowded' \/ bound'[a] = bound[a]
  PROVE  StillAhead' /\ HealthyMeansServing' /\ ServingIsHealthy'
<1> USE DEF ServiceInv
<1>1. /\ check'.at = check.at /\ check'.next = check.next
      /\ check'.served <=> check.served \/ Serving(stage') # {}
      /\ check'.steady => check.steady /\ Serving(stage') = Serving(stage)
  BY WatchedIs
<1>2. Addresses' = Addresses /\ parse_bind(env)' = parse_bind(env)
  BY DEF Addresses, parse_bind
<1>3. StrangerAround => StrangerAround'
  BY <1>2 DEF StrangerAround
<1>4. HealthyMeansServing'
  BY <1>1 DEF HealthyMeansServing
<1>5. ServingIsHealthy'
  BY <1>1, <1>2, <1>3 DEF ServingIsHealthy, StrangerAround
<1>6. StillAhead'
  <2> SUFFICES ASSUME check'.at = "requesting"
               PROVE  /\ parse_bind(env') # {}
                      /\ Serving(stage') # {} => check'.served
                      /\ check'.steady =>
                            \/ crowded'
                            \/ StrangerAround'
                            \/ /\ Serving(stage') # {}
                               /\ \E bind \in parse_bind(env') :
                                    \E j \in DOMAIN bind_addresses(bind) :
                                        /\ j >= check'.next
                                        /\ bound'[bind_addresses(bind)[j]]
                                                \in Processes
    BY DEF StillAhead, Serving
  <2>1. parse_bind(env') # {} /\ (Serving(stage') # {} => check'.served)
    BY <1>1 DEF StillAhead
  <2>2. ASSUME check'.steady, ~crowded', ~StrangerAround'
        PROVE  /\ Serving(stage') # {}
               /\ \E bind \in parse_bind(env') :
                    \E j \in DOMAIN bind_addresses(bind) :
                        /\ j >= check'.next
                        /\ bound'[bind_addresses(bind)[j]] \in Processes
    <3>1. /\ Serving(stage') = Serving(stage) /\ Serving(stage) # {}
          /\ \E bind \in parse_bind(env) :
                \E j \in DOMAIN bind_addresses(bind) :
                    /\ j >= check.next
                    /\ bound[bind_addresses(bind)[j]] \in Processes
      BY <1>1, <1>3, <2>2 DEF StillAhead
    <3>2. PICK bind \in parse_bind(env), j \in Nat :
            /\ j \in DOMAIN bind_addresses(bind) /\ j >= check.next
            /\ bound[bind_addresses(bind)[j]] \in Processes
      BY <3>1, OneOrTwoAddresses
    <3>3. bind_addresses(bind)[j] \in Addresses
      BY <3>2, AddressesAre
    <3>4. bound'[bind_addresses(bind)[j]] \in Processes
      BY <2>2, <3>1, <3>2, <3>3
    <3> QED
      BY <1>1, <3>1, <3>2, <3>4
  <2> QED
    BY <2>1, <2>2
<1> QED
  BY <1>4, <1>5, <1>6

LEMMA RangeStays ==
  ASSUME ServiceInv, NEW p \in Processes, env' = env, check'.next = check.next,
         \A q \in Processes \ {p} : tried'[q] = tried[q] /\ stage'[q] = stage[q],
         InRange(p)'
  PROVE  NextInRange'
<1>1. ASSUME NEW q \in Processes \ {p} PROVE InRange(q)'
  BY DEF ServiceInv, NextInRange, InRange
<1> QED
  BY <1>1 DEF ServiceInv, NextInRange

LEMMA OthersAreSilent ==
  ASSUME ServiceInv, NEW p \in Processes, stage[p] # "serving",
         NEW a \in AllAddresses, bound[a] \in Processes
  PROVE  bound[a] # p /\ stage[bound[a]] = "serving"
BY DEF ServiceInv, AcceptsServing

\* A process that does not serve, before or after, and takes no address.
LEMMA MovePreserves ==
  ASSUME ServiceInv, NEW p \in Processes,
         NEW from \in Stages \ {"serving"}, NEW to \in Stages \ {"serving"},
         Move(p, from, to), tried' \in [Processes -> Nat],
         \A q \in Processes \ {p} : tried'[q] = tried[q], InRange(p)',
         \/ bound' = bound
         \/ bound' = [a \in DOMAIN bound |->
                        IF is_unix(a) THEN NoProcess ELSE bound[a]]
  PROVE  ServiceInv'
<1>1. TypeInv /\ AcceptsServing /\ ServingIsBound
  BY DEF ServiceInv
<1>2. /\ stage[p] = from
      /\ stage' \in [Processes -> Stages] /\ stage'[p] = to
      /\ \A q \in Processes \ {p} : stage'[q] = stage[q]
      /\ env' = env /\ check' = Watched
      /\ crowded' \in BOOLEAN /\ (crowded => crowded')
      /\ \A q \in Processes \ {p} : stage[q] = "serving" => crowded'
  BY <1>1, MoveIs
<1>3. /\ check' \in [at : {"idle", "requesting", "ok", "failed"}, next : Nat,
                     served : BOOLEAN, steady : BOOLEAN]
      /\ check'.next = check.next
  BY <1>1, <1>2, WatchedIs
<1>4. /\ bound' \in [AllAddresses -> {NoProcess, Stranger} \cup Processes]
      /\ \A a \in AllAddresses :
            bound'[a] = bound[a] \/ (is_unix(a) /\ bound'[a] = NoProcess)
  BY <1>1 DEF TypeInv
<1>5. TypeInv'
  BY <1>1, <1>2, <1>3, <1>4 DEF TypeInv, AllAddresses
<1>6. NextInRange'
  BY <1>2, <1>3, RangeStays
<1>7. AcceptsServing'
  <2>1. NoProcess \notin Processes /\ NoProcess # Stranger
    BY ProcessesAssumption DEF NoProcess, Stranger
  <2> SUFFICES ASSUME NEW a \in AllAddresses
               PROVE  /\ bound'[a] \in Processes => stage'[bound'[a]] = "serving"
                      /\ bound'[a] = Stranger => ~is_unix(a)
    BY DEF AcceptsServing, AllAddresses
  <2> QED
    BY <1>1, <1>2, <1>4, <2>1 DEF AcceptsServing
<1>8. ServingIsBound'
  <2> SUFFICES ASSUME NEW q \in Processes, stage'[q] = "serving" PROVE crowded'
    BY DEF ServingIsBound
  <2> QED
    BY <1>2
<1>9. ASSUME NEW a \in Addresses
      PROVE  /\ bound[a] = Stranger => bound'[a] = Stranger
             /\ bound[a] \in Processes => crowded'
  <2>1. a \in AllAddresses
    BY <1>1, AddressesAreKnown
  <2>2. bound[a] = Stranger => bound'[a] = Stranger
    BY <1>1, <1>4, <2>1 DEF AcceptsServing
  <2>3. bound[a] \in Processes => crowded'
    BY <1>2, <2>1, OthersAreSilent
  <2> QED
    BY <2>2, <2>3
<1>10. StillAhead' /\ HealthyMeansServing' /\ ServingIsHealthy'
  BY <1>2, <1>9, CheckStaysRight
<1> QED
  BY <1>5, <1>6, <1>7, <1>8, <1>10 DEF ServiceInv

LEMMA LaunchPreserves ==
  ASSUME ServiceInv, NEW p \in Processes, Launch(p)
  PROVE  ServiceInv'
<1>1. tried \in [Processes -> Nat]
  BY DEF ServiceInv, TypeInv
<1>2. /\ tried' \in [Processes -> Nat] /\ tried'[p] = 0
      /\ \A q \in Processes \ {p} : tried'[q] = tried[q]
      /\ bound' = bound
  BY <1>1 DEF Launch
<1>3. PICK from \in {"off", "exited"} : Move(p, from, "parsing")
  BY DEF Launch
<1>4. from \in Stages \ {"serving"} /\ "parsing" \in Stages \ {"serving"}
  BY DEF Stages
<1>5. stage'[p] = "parsing"
  BY <1>3, <1>4, MoveIs DEF ServiceInv
<1> QED
  BY <1>2, <1>3, <1>4, <1>5, MovePreserves DEF InRange

\* From its configuration to its first address.
LEMMA StartUpPreserves ==
  ASSUME ServiceInv, NEW p \in Processes,
         Parse(p) \/ ConnectStore(p) \/ CreateHandler(p) \/ RemoveFile(p)
  PROVE  ServiceInv'
<1>1. /\ tried' = tried
      /\ \/ bound' = bound
         \/ bound' = [a \in DOMAIN bound |->
                        IF is_unix(a) THEN NoProcess ELSE bound[a]]
  BY DEF Parse, ConnectStore, CreateHandler, RemoveFile
<1>2. PICK from \in {"parsing", "connecting", "creating", "unlinking"},
           to \in {"connecting", "creating", "unlinking", "binding", "exited"} :
        Move(p, from, to)
  BY DEF Parse, ConnectStore, CreateHandler, RemoveFile
<1>3. from \in Stages \ {"serving"} /\ to \in Stages \ {"serving"}
  BY DEF Stages
<1>4. /\ stage[p] = from /\ stage'[p] = to /\ env' = env
      /\ tried \in [Processes -> Nat]
  BY <1>2, <1>3, MoveIs DEF ServiceInv, TypeInv
<1>5. InRange(p)'
  <2>1. tried[p] = 0
    BY <1>2, <1>4 DEF ServiceInv, NextInRange, InRange
  <2>2. ASSUME NEW bind PROVE 1 \in DOMAIN bind_addresses(bind)
    BY OneOrTwoAddresses
  <2> QED
    BY <1>1, <1>4, <2>1, <2>2 DEF InRange
<1> QED
  BY <1>1, <1>2, <1>3, <1>4, <1>5, MovePreserves

\* A process that may bind its next address serves there; one that may not tries
\* the address after, or exits.
LEMMA BindPreserves ==
  ASSUME ServiceInv, NEW p \in Processes, Bind(p)
  PROVE  ServiceInv'
<1>1. PICK c \in parse_config(env) :
        LET addrs == bind_addresses(c.lk_jwt_bind)
            i     == tried[p] + 1
        IN \/ /\ CanBind(addrs[i])
              /\ Move(p, "binding", "serving")
              /\ bound' = [bound EXCEPT ![addrs[i]] = p]
              /\ file' = (file \/ is_unix(addrs[i]))
              /\ UNCHANGED tried
           \/ /\ ~CanBind(addrs[i])
              /\ Move(p, "binding", IF i = Len(addrs) THEN "exited"
                                                      ELSE "binding")
              /\ tried' = [tried EXCEPT ![p] = i]
              /\ UNCHANGED <<bound, file>>
  BY DEF Bind
<1> DEFINE bind == c.lk_jwt_bind
           addrs == bind_addresses(bind)
           i == tried[p] + 1
           a == addrs[i]
<1>2. /\ TypeInv /\ AcceptsServing /\ ServingIsBound
      /\ tried \in [Processes -> Nat] /\ stage[p] = "binding"
  BY DEF ServiceInv, TypeInv, Bind
<1>3. bind \in parse_bind(env)
  BY ConfiguredBind
<1> HIDE DEF bind
<1>4. i \in DOMAIN addrs /\ i \in Nat
  BY <1>2, <1>3 DEF ServiceInv, NextInRange, InRange
<1>5. a \in Addresses /\ a \in AllAddresses
  BY <1>2, <1>3, <1>4, AddressesAre, AddressesAreKnown
<1>6. CASE /\ CanBind(a) /\ Move(p, "binding", "serving")
           /\ bound' = [bound EXCEPT ![a] = p] /\ tried' = tried
  <2>1. /\ "binding" \in Stages /\ "serving" \in Stages
    BY DEF Stages
  <2>2. /\ stage' \in [Processes -> Stages] /\ stage'[p] = "serving"
        /\ \A q \in Processes \ {p} : stage'[q] = stage[q]
        /\ env' = env /\ check' = Watched
        /\ crowded' \in BOOLEAN /\ (crowded => crowded')
        /\ \A q \in Processes \ {p} : stage[q] = "serving" => crowded'
    BY <1>2, <1>6, <2>1, MoveIs
  <2>3. /\ check' \in [at : {"idle", "requesting", "ok", "failed"}, next : Nat,
                       served : BOOLEAN, steady : BOOLEAN]
        /\ check'.next = check.next
    BY <1>2, <2>2, WatchedIs
  <2>4. /\ bound' \in [AllAddresses -> {NoProcess, Stranger} \cup Processes]
        /\ bound'[a] = p
        /\ \A b \in AllAddresses \ {a} : bound'[b] = bound[b]
    BY <1>2, <1>5, <1>6 DEF TypeInv
  <2>5. TypeInv'
    BY <1>2, <1>6, <2>2, <2>3, <2>4 DEF TypeInv, AllAddresses
  <2>6. NextInRange'
    BY <1>2, <1>6, <2>2, <2>3, RangeStays DEF InRange
  <2>7. bound[a] # Stranger
    <3>1. CASE is_unix(a)
      BY <1>2, <1>5, <3>1 DEF AcceptsServing
    <3>2. CASE ~is_unix(a)
      BY <1>5, <1>6, <3>2 DEF CanBind, Clash, Taken, Stranger, NoProcess
    <3> QED
      BY <3>1, <3>2
  <2>8. p # Stranger
    BY ProcessesAssumption
  <2>9. AcceptsServing'
    <3> SUFFICES ASSUME NEW b \in AllAddresses
                 PROVE  /\ bound'[b] \in Processes => stage'[bound'[b]] = "serving"
                        /\ bound'[b] = Stranger => ~is_unix(b)
      BY DEF AcceptsServing, AllAddresses
    <3> QED
      BY <1>2, <2>2, <2>4, <2>8 DEF AcceptsServing
  <2>10. ServingIsBound'
    <3> SUFFICES ASSUME NEW q \in Processes, stage'[q] = "serving"
                 PROVE  \/ crowded'
                        \/ \E b \in parse_bind(env') :
                            \E j \in DOMAIN bind_addresses(b) :
                                bound'[bind_addresses(b)[j]] = q
      BY DEF ServingIsBound
    <3>1. CASE q = p
      BY <1>3, <1>4, <2>2, <2>4, <3>1
    <3>2. CASE q # p
      BY <2>2, <3>2
    <3> QED
      BY <3>1, <3>2
  <2>11. ASSUME NEW b \in Addresses
         PROVE  /\ bound[b] = Stranger => bound'[b] = Stranger
                /\ bound[b] \in Processes => crowded'
    <3>1. b \in AllAddresses
      BY <1>2, AddressesAreKnown
    <3> QED
      BY <1>2, <2>2, <2>4, <2>7, <3>1, OthersAreSilent
  <2>12. StillAhead' /\ HealthyMeansServing' /\ ServingIsHealthy'
    BY <2>2, <2>11, CheckStaysRight
  <2> QED
    BY <2>5, <2>6, <2>9, <2>10, <2>12 DEF ServiceInv
<1>7. CASE /\ Move(p, "binding", IF i = Len(addrs) THEN "exited" ELSE "binding")
           /\ tried' = [tried EXCEPT ![p] = i] /\ bound' = bound
  <2> DEFINE to == IF i = Len(addrs) THEN "exited" ELSE "binding"
  <2>1. /\ "binding" \in Stages \ {"serving"} /\ to \in Stages \ {"serving"}
        /\ Move(p, "binding", to)
    BY <1>7 DEF Stages
  <2>2. stage'[p] = to /\ env' = env
    BY <1>2, <2>1, MoveIs
  <2>3. /\ tried' \in [Processes -> Nat] /\ tried'[p] = i
        /\ \A q \in Processes \ {p} : tried'[q] = tried[q]
    BY <1>2, <1>4, <1>7
  <2>4. InRange(p)'
    <3> SUFFICES ASSUME i # Len(addrs), NEW b \in parse_bind(env)
                 PROVE  i + 1 \in DOMAIN bind_addresses(b)
      BY <2>2, <2>3 DEF InRange
    <3>1. b = bind
      BY <1>3, OneBind
    <3> QED
      BY <1>4, <3>1, OneOrTwoAddresses
  <2> HIDE DEF to
  <2> QED
    BY <1>7, <2>1, <2>3, <2>4, MovePreserves
<1> QED
  BY <1>1, <1>6, <1>7 DEF bind

\* A process that dies gives up its addresses and nobody else's.
LEMMA DiePreserves ==
  ASSUME ServiceInv, NEW p \in Processes, Die(p)
  PROVE  ServiceInv'
<1>1. /\ TypeInv /\ AcceptsServing /\ ServingIsBound
      /\ env' = env /\ check' = Watched /\ crowded' = crowded /\ tried' = tried
      /\ stage' = [stage EXCEPT ![p] = "off"]
      /\ bound' = [a \in DOMAIN bound |->
                        IF bound[a] = p THEN NoProcess ELSE bound[a]]
  BY DEF ServiceInv, Die, ProcessUnchanged
<1>2. /\ stage' \in [Processes -> Stages] /\ stage'[p] = "off"
      /\ \A q \in Processes \ {p} : stage'[q] = stage[q]
  BY <1>1 DEF TypeInv, Stages
<1>3. /\ bound' \in [AllAddresses -> {NoProcess, Stranger} \cup Processes]
      /\ \A a \in AllAddresses :
            bound'[a] = IF bound[a] = p THEN NoProcess ELSE bound[a]
  BY <1>1 DEF TypeInv
<1>4. /\ check' \in [at : {"idle", "requesting", "ok", "failed"}, next : Nat,
                     served : BOOLEAN, steady : BOOLEAN]
      /\ check'.next = check.next
  BY <1>1, WatchedIs
<1>5. TypeInv'
  BY <1>1, <1>2, <1>3, <1>4 DEF TypeInv, AllAddresses
<1>6. NextInRange'
  BY <1>1, <1>2, <1>4, RangeStays DEF InRange
<1>7. p # Stranger /\ NoProcess \notin Processes /\ NoProcess # Stranger
  BY ProcessesAssumption DEF NoProcess, Stranger
<1>8. AcceptsServing'
  <2> SUFFICES ASSUME NEW a \in AllAddresses
               PROVE  /\ bound'[a] \in Processes => stage'[bound'[a]] = "serving"
                      /\ bound'[a] = Stranger => ~is_unix(a)
    BY DEF AcceptsServing, AllAddresses
  <2> QED
    BY <1>1, <1>2, <1>3, <1>7 DEF AcceptsServing
<1>9. ServingIsBound'
  <2> SUFFICES ASSUME NEW q \in Processes, stage'[q] = "serving"
               PROVE  \/ crowded'
                      \/ \E bind \in parse_bind(env') :
                            \E j \in DOMAIN bind_addresses(bind) :
                                bound'[bind_addresses(bind)[j]] = q
    BY DEF ServingIsBound
  <2>1. q # p /\ stage[q] = "serving"
    BY <1>2
  <2>2. CASE crowded
    BY <1>1, <2>2
  <2>3. CASE ~crowded
    <3>1. PICK bind \in parse_bind(env) : \E j \in DOMAIN bind_addresses(bind) :
            bound[bind_addresses(bind)[j]] = q
      BY <1>1, <2>1, <2>3 DEF ServingIsBound
    <3>2. PICK j \in DOMAIN bind_addresses(bind) :
            bound[bind_addresses(bind)[j]] = q
      BY <3>1
    <3>3. bind_addresses(bind)[j] \in AllAddresses
      BY <1>1, AddressesAre, AddressesAreKnown
    <3> QED
      BY <1>1, <1>3, <2>1, <3>2, <3>3
  <2> QED
    BY <2>2, <2>3
<1>10. ASSUME NEW a \in Addresses
       PROVE  /\ bound[a] = Stranger => bound'[a] = Stranger
              /\ bound[a] \in Processes /\ Serving(stage') = Serving(stage)
                    => bound'[a] = bound[a]
  <2>1. a \in AllAddresses
    BY <1>1, AddressesAreKnown
  <2>2. bound[a] = p => p \in Serving(stage) /\ p \notin Serving(stage')
    BY <1>1, <1>2, <2>1 DEF AcceptsServing, Serving
  <2> QED
    BY <1>3, <1>7, <2>1, <2>2
<1>11. StillAhead' /\ HealthyMeansServing' /\ ServingIsHealthy'
  BY <1>1, <1>10, CheckStaysRight
<1> QED
  BY <1>5, <1>6, <1>8, <1>9, <1>11 DEF ServiceInv

-----------------------------------------------------------------------------
(* Steps of the health check. *)

\* The check looks and leaves the service alone.
LEMMA ServiceStays ==
  ASSUME ServiceInv, CheckUnchanged
  PROVE  /\ env' = env /\ stage' = stage /\ tried' = tried /\ bound' = bound
         /\ crowded' = crowded
         /\ AcceptsServing' /\ ServingIsBound'
         /\ \A p \in Processes : InRange(p)'
         /\ StrangerAround' <=> StrangerAround
BY DEF ServiceInv, CheckUnchanged, ProcessUnchanged, AcceptsServing,
       AllAddresses, Addresses, ServingIsBound, NextInRange, InRange,
       StrangerAround

LEMMA StartCheckPreserves ==
  ASSUME ServiceInv, StartCheck
  PROVE  ServiceInv'
<1>1. /\ env' = env /\ stage' = stage /\ tried' = tried /\ bound' = bound
      /\ crowded' = crowded
      /\ AcceptsServing' /\ ServingIsBound'
      /\ \A p \in Processes : InRange(p)'
  BY ServiceStays DEF StartCheck
<1>2. check' = [at |-> IF parse_bind(env) = {} THEN "failed" ELSE "requesting",
                next |-> 1,
                served |-> Serving(stage) # {},
                steady |-> Serving(stage) # {}]
  BY DEF StartCheck
<1>3. /\ check'.at = IF parse_bind(env) = {} THEN "failed" ELSE "requesting"
      /\ check'.next = 1
      /\ check'.served <=> Serving(stage) # {}
      /\ check'.steady <=> Serving(stage) # {}
  BY <1>2
<1>4. check' \in [at : {"idle", "requesting", "ok", "failed"}, next : Nat,
                  served : BOOLEAN, steady : BOOLEAN]
  BY <1>2
<1>5. TypeInv'
  BY <1>1, <1>4 DEF ServiceInv, TypeInv, AllAddresses
<1>6. NextInRange'
  <2>1. ASSUME NEW bind PROVE 1 \in DOMAIN bind_addresses(bind)
    BY OneOrTwoAddresses
  <2> QED
    BY <1>1, <1>3, <2>1 DEF NextInRange
<1>7. ASSUME Serving(stage) # {}, ~crowded
      PROVE  \E bind \in parse_bind(env) : \E i \in DOMAIN bind_addresses(bind) :
                i >= 1 /\ bound[bind_addresses(bind)[i]] \in Processes
  <2>1. PICK p \in Processes : stage[p] = "serving"
    BY <1>7 DEF Serving
  <2>2. PICK bind \in parse_bind(env) : \E i \in DOMAIN bind_addresses(bind) :
            bound[bind_addresses(bind)[i]] = p
    BY <1>7, <2>1 DEF ServiceInv, ServingIsBound
  <2> QED
    BY <2>1, <2>2, OneOrTwoAddresses
<1>8. StillAhead'
  BY <1>1, <1>3, <1>7 DEF StillAhead, Serving
<1>9. HealthyMeansServing' /\ ServingIsHealthy'
  BY <1>1, <1>3, <1>7 DEF HealthyMeansServing, ServingIsHealthy
<1> QED
  BY <1>1, <1>5, <1>6, <1>8, <1>9 DEF ServiceInv

\* Whoever answers has an address.
LEMMA AnswersAre ==
  ASSUME TypeInv, NEW a \in Addresses
  PROVE  /\ Answers(a) = NoProcess => bound[a] = NoProcess
         /\ Answers(a) # NoProcess =>
                \E b \in Addresses : Answers(a) = bound[b]
<1>1. CASE Taken(a)
  BY <1>1 DEF Answers, Taken
<1>2. CASE ~Taken(a)
  <2> DEFINE v6 == {b \in Addresses : IsIPv6(b) /\ Taken(b)}
  <2>1. bound[a] = NoProcess
    BY <1>2 DEF Taken
  <2>2. CASE IsIPv4(a) /\ host.dualstack /\ v6 # {}
    <3>1. Answers(a) = bound[CHOOSE b \in v6 : TRUE]
      BY <1>2, <2>2 DEF Answers
    <3>2. (CHOOSE b \in v6 : TRUE) \in v6
      BY <2>2
    <3> QED
      BY <2>1, <3>1, <3>2
  <2>3. CASE ~(IsIPv4(a) /\ host.dualstack /\ v6 # {})
    <3>1. Answers(a) = NoProcess
      BY <1>2, <2>3 DEF Answers
    <3> QED
      BY <2>1, <3>1
  <2> QED
    BY <2>2, <2>3
<1> QED
  BY <1>1, <1>2

LEMMA RequestPreserves ==
  ASSUME ServiceInv, Request
  PROVE  ServiceInv'
<1>1. /\ env' = env /\ stage' = stage /\ tried' = tried /\ bound' = bound
      /\ crowded' = crowded
      /\ AcceptsServing' /\ ServingIsBound'
      /\ \A p \in Processes : InRange(p)'
      /\ StrangerAround' <=> StrangerAround
  BY ServiceStays DEF Request
<1>2. /\ TypeInv /\ AcceptsServing /\ StillAhead /\ check.at = "requesting"
      /\ check \in [at : {"idle", "requesting", "ok", "failed"}, next : Nat,
                    served : BOOLEAN, steady : BOOLEAN]
  BY DEF ServiceInv, TypeInv, Request
<1>3. PICK bind \in parse_bind(env) :
        LET addrs == bind_addresses(bind)
            who   == Answers(addrs[check.next])
        IN check' =
            IF who # NoProcess
            THEN [check EXCEPT !.at = IF IsHealthy(who) THEN "ok" ELSE "failed"]
            ELSE IF IsLast(addrs) THEN [check EXCEPT !.at = "failed"]
                                  ELSE [check EXCEPT !.next = @ + 1]
  BY DEF Request
<1> DEFINE addrs == bind_addresses(bind)
           a     == addrs[check.next]
           who   == Answers(a)
<1>4. /\ check.next \in DOMAIN addrs /\ check.next \in Nat
      /\ DOMAIN addrs = 1 .. Len(addrs) /\ Len(addrs) \in Nat
  BY <1>2, OneOrTwoAddresses DEF ServiceInv, NextInRange
<1>5. a \in Addresses
  BY <1>2, <1>4, AddressesAre
<1>6. /\ who = NoProcess => bound[a] = NoProcess
      /\ who # NoProcess => \E b \in Addresses : who = bound[b]
  BY <1>2, <1>5, AnswersAre
<1>7. \/ /\ who \in Processes
         /\ check' = [check EXCEPT !.at = "ok"]
      \/ /\ who # NoProcess /\ who \notin Processes
         /\ check' = [check EXCEPT !.at = "failed"]
      \/ /\ who = NoProcess /\ check.next = Len(addrs)
         /\ check' = [check EXCEPT !.at = "failed"]
      \/ /\ who = NoProcess /\ check.next # Len(addrs)
         /\ check' = [check EXCEPT !.next = check.next + 1]
  BY <1>3, ProcessesAssumption DEF IsHealthy, IsLast
<1> HIDE DEF who, a, addrs
<1>8. /\ check' \in [at : {"idle", "requesting", "ok", "failed"}, next : Nat,
                     served : BOOLEAN, steady : BOOLEAN]
      /\ check'.served = check.served /\ check'.steady = check.steady
  BY <1>2, <1>4, <1>7
<1>9. TypeInv'
  BY <1>1, <1>2, <1>8 DEF TypeInv, AllAddresses
<1>10. check'.next \in DOMAIN addrs
  BY <1>2, <1>4, <1>7
<1>11. NextInRange'
  <2>1. \A b \in parse_bind(env) : b = bind
    BY OneBind
  <2> QED
    BY <1>1, <1>10, <2>1 DEF NextInRange, addrs
<1>12. NoProcess \notin Processes
  BY ProcessesAssumption
\* The service is not at an address that is silent.
<1>13. ASSUME check.steady, ~crowded, ~StrangerAround
       PROVE  /\ Serving(stage) # {}
              /\ \E j \in DOMAIN addrs : /\ j >= check.next
                                         /\ bound[addrs[j]] \in Processes
                                         /\ who = NoProcess => j # check.next
  <2>1. PICK b \in parse_bind(env) :
            \E j \in DOMAIN bind_addresses(b) :
                j >= check.next /\ bound[bind_addresses(b)[j]] \in Processes
    BY <1>2, <1>13 DEF StillAhead
  <2>2. b = bind
    BY OneBind
  <2>3. PICK j \in DOMAIN addrs :
            j >= check.next /\ bound[addrs[j]] \in Processes
    BY <2>1, <2>2 DEF addrs
  <2>4. who = NoProcess => j # check.next
    BY <1>6, <1>12, <2>3 DEF a
  <2> QED
    BY <1>2, <1>13, <2>3, <2>4 DEF StillAhead
<1>14. ASSUME check'.at = "ok" PROVE check.served
  <2>1. who \in Processes
    BY <1>2, <1>7, <1>14
  <2>2. PICK b \in Addresses : who = bound[b]
    BY <1>6, <1>12, <2>1
  <2>3. who \in Serving(stage)
    BY <1>2, <2>1, <2>2, AddressesAreKnown DEF AcceptsServing, Serving
  <2> QED
    BY <1>2, <2>3 DEF StillAhead
<1>15. ASSUME check'.at = "failed", check.steady, ~crowded PROVE StrangerAround
  <2> SUFFICES ASSUME ~StrangerAround PROVE FALSE
    OBVIOUS
  <2>1. PICK j \in DOMAIN addrs : /\ j >= check.next
                                  /\ who = NoProcess => j # check.next
    BY <1>13, <1>15
  <2>2. CASE who = NoProcess
    BY <1>2, <1>4, <1>7, <1>12, <1>15, <2>1, <2>2
  <2>3. CASE who # NoProcess
    <3>1. PICK b \in Addresses : who = bound[b]
      BY <1>6, <2>3
    <3>2. who = Stranger
      BY <1>2, <1>7, <1>15, <2>3, <3>1, AddressesAreKnown DEF TypeInv
    <3> QED
      BY <3>1, <3>2 DEF StrangerAround
  <2> QED
    BY <2>2, <2>3
<1>16. HealthyMeansServing'
  BY <1>8, <1>14 DEF HealthyMeansServing
<1>17. ServingIsHealthy'
  BY <1>1, <1>8, <1>15 DEF ServingIsHealthy, StrangerAround
<1>18. StillAhead'
  <2> SUFFICES ASSUME check'.at = "requesting" PROVE StillAhead'
    BY DEF StillAhead
  <2>1. who = NoProcess /\ check'.next = check.next + 1
    BY <1>2, <1>7
  <2>2. parse_bind(env') # {} /\ (Serving(stage') # {} => check'.served)
    BY <1>1, <1>2, <1>8 DEF StillAhead
  <2>3. ASSUME check'.steady, ~crowded', ~StrangerAround'
        PROVE  /\ Serving(stage') # {}
               /\ \E b \in parse_bind(env') : \E j \in DOMAIN bind_addresses(b) :
                    /\ j >= check'.next
                    /\ bound'[bind_addresses(b)[j]] \in Processes
    <3>1. PICK j \in DOMAIN addrs : /\ j >= check.next
                                    /\ bound[addrs[j]] \in Processes
                                    /\ j # check.next
      BY <1>1, <1>8, <1>13, <2>1, <2>3
    <3>2. j >= check.next + 1
      BY <1>4, <3>1
    <3> QED
      BY <1>1, <1>8, <1>13, <2>1, <2>3, <3>1, <3>2 DEF addrs
  <2> QED
    BY <2>2, <2>3 DEF StillAhead, Serving
<1> QED
  BY <1>1, <1>9, <1>11, <1>16, <1>17, <1>18 DEF ServiceInv

-----------------------------------------------------------------------------
LEMMA InitIsRight == Init => ServiceInv
<1> SUFFICES ASSUME Init PROVE ServiceInv
  OBVIOUS
<1>1. /\ env \in Environments
      /\ stage = [p \in Processes |-> "off"] /\ tried = [p \in Processes |-> 0]
      /\ bound \in [AllAddresses -> {NoProcess, Stranger}]
      /\ \A a \in AllAddresses : bound[a] = Stranger => ~is_unix(a)
      /\ check = [at |-> "idle", next |-> 1, served |-> FALSE, steady |-> FALSE]
      /\ crowded = FALSE
  BY DEF Init
<1>2. /\ check.at = "idle" /\ check.next = 1
      /\ check \in [at : {"idle", "requesting", "ok", "failed"}, next : Nat,
                    served : BOOLEAN, steady : BOOLEAN]
  BY <1>1
<1>3. TypeInv
  <2>1. bound \in [AllAddresses -> {NoProcess, Stranger} \cup Processes]
    BY <1>1
  <2> QED
    BY <1>1, <1>2, <2>1 DEF TypeInv, Stages
<1>4. NextInRange
  <2>1. ASSUME NEW bind PROVE 1 \in DOMAIN bind_addresses(bind)
    BY OneOrTwoAddresses
  <2> QED
    BY <1>1, <1>2, <2>1 DEF NextInRange, InRange
<1>5. AcceptsServing
  BY <1>1, ProcessesAssumption DEF AcceptsServing
<1>6. ServingIsBound /\ StillAhead
  BY <1>1, <1>2 DEF ServingIsBound, StillAhead
<1>7. HealthyMeansServing /\ ServingIsHealthy
  BY <1>2 DEF HealthyMeansServing, ServingIsHealthy
<1> QED
  BY <1>3, <1>4, <1>5, <1>6, <1>7 DEF ServiceInv

LEMMA StepsKeepItRight == ServiceInv /\ [Next]_vars => ServiceInv'
<1> SUFFICES ASSUME ServiceInv, [Next]_vars PROVE ServiceInv'
  OBVIOUS
<1>1. CASE \E p \in Processes : Launch(p) \/ Process(p) \/ Die(p)
  BY <1>1, LaunchPreserves, StartUpPreserves, BindPreserves, DiePreserves
     DEF Process
<1>2. CASE StartCheck \/ Request
  BY <1>2, StartCheckPreserves, RequestPreserves
<1>3. CASE UNCHANGED vars
  BY <1>3 DEF vars, ServiceInv, TypeInv, AllAddresses, NextInRange, InRange,
              AcceptsServing, ServingIsBound, StillAhead, Serving,
              StrangerAround, Addresses, HealthyMeansServing, ServingIsHealthy
<1> QED
  BY <1>1, <1>2, <1>3 DEF Next

\* A health check that succeeds has met a process that served while it ran
\* (healthcheck.rs; axum::serve in main.rs).
THEOREM HealthyIsTrue == Spec => []HealthyMeansServing
<1>1. ServiceInv => HealthyMeansServing
  BY DEF ServiceInv
<1> QED
  BY <1>1, InitIsRight, StepsKeepItRight, PTL DEF Spec

\* One that fails has not missed a process that served all along, unless a second
\* process or a stranger has got in between: of the addresses the service may have
\* ended up with, it tries every one (bind_addresses in both programs).
THEOREM ServiceIsFound == Spec => []ServingIsHealthy
<1>1. ServiceInv => ServingIsHealthy
  BY DEF ServiceInv
<1> QED
  BY <1>1, InitIsRight, StepsKeepItRight, PTL DEF Spec

=============================================================================
