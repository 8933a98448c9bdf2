-------------------------- MODULE TokenRequestsProofs --------------------------
(***************************************************************************)
(* What the token and delegation endpoints promise, for any number of      *)
(* requests, users and homeservers and for every configuration.            *)
(*                                                                         *)
(* First, every check comes before every effect.  What a reply, a room, a  *)
(* relayed request or a job says of the checks behind it is not to be read *)
(* off the state by itself: SoundInv relates what each request has left    *)
(* behind to the steps it has still to make, and the lemmas on sequences   *)
(* show that the program of each endpoint starts in that relation.  The    *)
(* promises about members, rooms, publishers, relays and delegations       *)
(* follow.                                                                 *)
(*                                                                         *)
(* Second, the as_token stays at home.  A call goes to the API that the    *)
(* request resolved last, whosever that is: TokenInv says of the steps to  *)
(* come that each call follows the step that resolves our homeserver, and  *)
(* that no request with such a step was let in without an application      *)
(* service.                                                                *)
(***************************************************************************)
EXTENDS TokenRequests, TLAPS

LEMMA ConcatOfSteps ==
  ASSUME NEW S, NEW s \in Seq(S), NEW t \in Seq(S)
  PROVE  s \o t \in Seq(S)
OBVIOUS

LEMMA ConcatAssociative ==
  ASSUME NEW s \in Seq(Step), NEW t \in Seq(Step), NEW u \in Seq(Step)
  PROVE  (s \o t) \o u = s \o (t \o u)
OBVIOUS

LEMMA TailOfSteps ==
  ASSUME NEW S, NEW s \in Seq(S), s # <<>>
  PROVE  Head(s) \in S /\ Tail(s) \in Seq(S)
OBVIOUS

-----------------------------------------------------------------------------
(* Every check comes before every effect.                                   *)
(*                                                                          *)
(* What a request has done is remembered, what it has still to do is its     *)
(* program; so a check is either passed, and what it looked at holds, or it  *)
(* is still to come, before all steps that leave something behind, and       *)
(* nothing has been left behind so far.                                      *)

EffectSteps == {"mint", "create_room", "add_job", "relay", "relay_unstable"}

FinalSteps == {"add_job", "relay", "relay_unstable"}

\* The checks of each endpoint.
Checks(q) ==
    {"gate", "body"}
      \cup (IF q.endpoint \in Standalone
            THEN {"openid"}
                   \cup (IF verifies_legacy_membership(config)
                         THEN {"legacy_member"} ELSE {})
            ELSE {})
      \cup (IF q.endpoint \in Proxied
            THEN {"hs_token", "header", "user_id", "user_joined"}
                   \cup (IF q.endpoint = "get_token_cs" /\ ~is_local(q)
                         THEN {"target_joined"} ELSE {"url"})
                   \cup (IF q.endpoint = "get_token_ss"
                         THEN {"origin", "ours_joined"} ELSE {})
            ELSE {})

\* What is known once request r has passed check c.
Holds(r, c) ==
    LET q == request[r]
    IN  /\ c = "gate" => q.method = "POST"
        /\ c = "hs_token" => q.authorized
        /\ c = "body" => validate(q)
        /\ c = "openid" => q.sender = "genuine" /\ MayDelegate(q)
        /\ c = "header" => q.sender # "none"
        /\ c = "user_id" => q.sender # "malformed"
        /\ c = "origin" => q.sender # "elsewhere"
        /\ c = "url" => q.urlMatches
        /\ c \in {"legacy_member", "user_joined"} => r \in seenJoined[r]
        /\ c = "target_joined" => q.server \in seenJoined[r]
        /\ c = "ours_joined" => Ours \in seenJoined[r]

\* Check c is among the steps t, and before those with an effect.
Before(t, c) ==
    \E i \in DOMAIN t :
        t[i] = c /\ \A j \in DOMAIN t : t[j] \in EffectSteps => i < j

Has(t, c) == \E i \in DOMAIN t : t[i] = c

HasJob(r) == \E job \in jobs : job.of = r

Effectless(r) ==
    /\ r \notin rooms /\ ~HasJob(r)
    /\ relayed[r] = 0 /\ granted[r] = "none"
    /\ reply[r] = Ok => request[r].method = "OPTIONS"

Guarded(r) ==
    \A c \in Checks(request[r]) :
        \/ Holds(r, c)
        \/ Effectless(r) /\ (todo[r] = <<>> \/ Before(todo[r], c))

\* The requests that are given a token, when they are given one.
Mints(q) ==
    \/ q.endpoint \in {"sfu_get", "get_token", "get_token_ss"}
    \/ q.endpoint = "get_token_cs" /\ is_local(q)

Publishes(q) == Mints(q) /\ can_publish(q)

\* Where the steps t of request q may have their effects: a hand-over and a relay
\* come last, and a LiveKit room last or just before its hand-over.
Fits(q, t) ==
    \A i \in DOMAIN t :
        /\ t[i] \in FinalSteps => i = Len(t)
        /\ t[i] = "create_room" =>
                /\ \/ i = Len(t)
                   \/ i = Len(t) - 1 /\ t[Len(t)] = "add_job" /\ Delegates(q)
                /\ Mints(q)
                /\ q.endpoint \in Standalone => is_full_access_user(q.server)
        /\ t[i] = "add_job" =>
                \/ q.endpoint \in {"delegate", "delegate_cs"}
                \/ /\ q.endpoint \in Standalone
                   /\ is_full_access_user(q.server) /\ Delegates(q)
        /\ t[i] = "mint" => Mints(q)

\* A request under way has no answer, and if it has a room then only the
\* hand-over is left.
UnderWay(r) ==
    todo[r] # <<>> =>
        /\ reply[r] = NoReply /\ relayed[r] = 0 /\ ~HasJob(r)
        /\ joined \subseteq seenJoined[r]
        /\ r \in rooms => todo[r] = <<"add_job">> /\ Delegates(request[r])
        /\ Publishes(request[r]) =>
                r \in rooms \/ Has(todo[r], "create_room")
        /\ Mints(request[r]) => granted[r] # "none" \/ Has(todo[r], "mint")

\* What is left of a request that has its answer.
Outcome(r) ==
    LET q == request[r]
    IN  /\ reply[r] \in Refusals /\ r \in rooms =>
                \/ reply[r] = 500 /\ granted[r] # "none"
                \/ shutdown /\ reply[r] = 503 /\ Delegates(q)
        /\ r \in rooms /\ q.endpoint \in Standalone => is_full_access_user(q.server)
        /\ granted[r] = "publish" => Publishes(q)
        /\ granted[r] = "publish" /\ reply[r] = Ok => r \in rooms
        /\ HasJob(r) =>
                /\ reply[r] \in {Ok, Gone}
                /\ \/ q.endpoint \in {"delegate", "delegate_cs"}
                   \/ /\ q.endpoint \in Standalone
                      /\ is_full_access_user(q.server) /\ Delegates(q)
        /\ \A job \in jobs : job.of = r => job.server = q.server

\* A request that has not arrived has done nothing.
Untouched(r) ==
    /\ todo[r] = <<>> /\ reply[r] = NoReply
    /\ r \notin rooms /\ ~HasJob(r)
    /\ relayed[r] = 0 /\ granted[r] = "none"

Sound(r) ==
    IF request[r] = NoRequest THEN Untouched(r)
    ELSE /\ request[r] \in Request /\ Received(request[r])
         /\ Fits(request[r], todo[r])
         /\ Guarded(r) /\ UnderWay(r) /\ Outcome(r)
         /\ relayed[r] \in {0, 1}

SoundInv == TypeOK /\ \A r \in Requests : Sound(r)

(* What is left of a program. *)

LEMMA ShortSteps ==
  ASSUME NEW s \in Seq(Step)
  PROVE  /\ Len(s) = 0 => s = <<>>
         /\ Len(s) = 1 => s = <<s[1]>>
OBVIOUS

LEMMA BeforeTail ==
  ASSUME NEW t \in Seq(Step), t # <<>>, NEW c, Before(t, c), Head(t) # c
  PROVE  /\ Tail(t) # <<>> /\ Before(Tail(t), c)
         /\ Head(t) \notin EffectSteps
<1>1. /\ Len(t) \in Nat \ {0} /\ DOMAIN t = 1 .. Len(t) /\ t[1] = Head(t)
      /\ DOMAIN Tail(t) = 1 .. Len(t) - 1
      /\ \A i \in 1 .. Len(t) - 1 : Tail(t)[i] = t[i + 1]
  OBVIOUS
<1>2. PICK i \in DOMAIN t :
        t[i] = c /\ \A j \in DOMAIN t : t[j] \in EffectSteps => i < j
  BY DEF Before
<1>3. i # 1 /\ i - 1 \in DOMAIN Tail(t) /\ Tail(t)[i - 1] = c
  <2>1. i # 1
    BY <1>1, <1>2
  <2>2. i - 1 \in 1 .. Len(t) - 1 /\ (i - 1) + 1 = i
    BY <1>1, <2>1
  <2> QED
    BY <1>1, <1>2, <2>1, <2>2
<1>4. ASSUME NEW j \in DOMAIN Tail(t), Tail(t)[j] \in EffectSteps
      PROVE  i - 1 < j
  <2>1. j + 1 \in DOMAIN t /\ t[j + 1] \in EffectSteps
    BY <1>1, <1>4
  <2> QED
    BY <1>1, <1>2, <2>1
<1>5. Head(t) \notin EffectSteps
  <2>1. 1 \in DOMAIN t /\ ~(i < 1)
    BY <1>1
  <2> QED
    BY <1>1, <1>2, <2>1
<1>6. Before(Tail(t), c)
  BY <1>3, <1>4 DEF Before
<1>7. Tail(t) # <<>>
  BY <1>3
<1> QED
  BY <1>5, <1>6, <1>7

LEMMA HasTail ==
  ASSUME NEW t \in Seq(Step), t # <<>>, NEW c, Has(t, c), Head(t) # c
  PROVE  Tail(t) # <<>> /\ Has(Tail(t), c)
<1>1. /\ Len(t) \in Nat \ {0} /\ DOMAIN t = 1 .. Len(t) /\ t[1] = Head(t)
      /\ DOMAIN Tail(t) = 1 .. Len(t) - 1
      /\ \A i \in 1 .. Len(t) - 1 : Tail(t)[i] = t[i + 1]
  OBVIOUS
<1>2. PICK i \in DOMAIN t : t[i] = c
  BY DEF Has
<1>3. i # 1
  BY <1>1, <1>2
<1>4. i - 1 \in 1 .. Len(t) - 1 /\ (i - 1) + 1 = i
  BY <1>1, <1>3
<1>5. i - 1 \in DOMAIN Tail(t) /\ Tail(t)[i - 1] = c
  BY <1>1, <1>2, <1>4
<1> QED
  BY <1>5 DEF Has

LEMMA TailIs ==
  ASSUME NEW t \in Seq(Step), t # <<>>
  PROVE  /\ Len(t) \in Nat \ {0} /\ DOMAIN t = 1 .. Len(t) /\ t[1] = Head(t)
         /\ Tail(t) \in Seq(Step) /\ Len(Tail(t)) = Len(t) - 1
         /\ DOMAIN Tail(t) = 1 .. Len(t) - 1
         /\ \A i \in 1 .. Len(t) - 1 : Tail(t)[i] = t[i + 1]
OBVIOUS

LEMMA FitsTail ==
  ASSUME NEW q, NEW t \in Seq(Step), t # <<>>, Fits(q, t)
  PROVE  Fits(q, Tail(t))
<1> DEFINE u == Tail(t)
<1>1. /\ Len(t) \in Nat \ {0} /\ DOMAIN t = 1 .. Len(t)
      /\ Len(u) = Len(t) - 1 /\ DOMAIN u = 1 .. Len(t) - 1
      /\ \A i \in 1 .. Len(t) - 1 : u[i] = t[i + 1]
  BY TailIs
<1> HIDE DEF u
<1>2. Fits(q, u)
  <2> SUFFICES ASSUME NEW i \in DOMAIN u
               PROVE  /\ u[i] \in FinalSteps => i = Len(u)
                      /\ u[i] = "create_room" =>
                            /\ \/ i = Len(u)
                               \/ /\ i = Len(u) - 1 /\ u[Len(u)] = "add_job"
                                  /\ Delegates(q)
                            /\ Mints(q)
                            /\ q.endpoint \in Standalone =>
                                    is_full_access_user(q.server)
                      /\ u[i] = "add_job" =>
                            \/ q.endpoint \in {"delegate", "delegate_cs"}
                            \/ /\ q.endpoint \in Standalone
                               /\ is_full_access_user(q.server) /\ Delegates(q)
                      /\ u[i] = "mint" => Mints(q)
    BY DEF Fits
  <2>1. i + 1 \in DOMAIN t /\ u[i] = t[i + 1] /\ i \in Nat
    BY <1>1
  <2>2. i + 1 = Len(t) => i = Len(u)
    BY <1>1, <2>1
  <2>3. i + 1 = Len(t) - 1 => i = Len(u) - 1 /\ u[Len(u)] = t[Len(t)]
    <3>1. Len(u) # 0 => Len(u) \in 1 .. Len(t) - 1 /\ Len(u) + 1 = Len(t)
      BY <1>1
    <3> QED
      BY <1>1, <2>1, <3>1
  <2>4. /\ t[i + 1] \in FinalSteps => i + 1 = Len(t)
        /\ t[i + 1] = "create_room" =>
              /\ \/ i + 1 = Len(t)
                 \/ i + 1 = Len(t) - 1 /\ t[Len(t)] = "add_job" /\ Delegates(q)
              /\ Mints(q)
              /\ q.endpoint \in Standalone => is_full_access_user(q.server)
        /\ t[i + 1] = "add_job" =>
              \/ q.endpoint \in {"delegate", "delegate_cs"}
              \/ /\ q.endpoint \in Standalone
                 /\ is_full_access_user(q.server) /\ Delegates(q)
        /\ t[i + 1] = "mint" => Mints(q)
    BY <2>1 DEF Fits
  <2> QED
    BY <2>1, <2>2, <2>3, <2>4
<1> QED
  BY <1>2 DEF u

\* What follows a step that leaves something behind.
LEMMA FitsHead ==
  ASSUME NEW q, NEW t \in Seq(Step), t # <<>>, Fits(q, t)
  PROVE  /\ Head(t) \in FinalSteps => Tail(t) = <<>>
         /\ Head(t) = "create_room" =>
                /\ Tail(t) = <<>> \/ (Tail(t) = <<"add_job">> /\ Delegates(q))
                /\ Mints(q)
                /\ q.endpoint \in Standalone => is_full_access_user(q.server)
         /\ Head(t) = "add_job" =>
                \/ q.endpoint \in {"delegate", "delegate_cs"}
                \/ /\ q.endpoint \in Standalone
                   /\ is_full_access_user(q.server) /\ Delegates(q)
         /\ Head(t) = "mint" => Mints(q)
<1> DEFINE u == Tail(t)
           h == Head(t)
<1>1. /\ Len(t) \in Nat \ {0} /\ 1 \in DOMAIN t /\ t[1] = h
      /\ u \in Seq(Step) /\ Len(u) = Len(t) - 1
      /\ \A i \in 1 .. Len(t) - 1 : u[i] = t[i + 1]
  BY TailIs
<1> HIDE DEF u, h
<1>2. Len(t) = 1 => u = <<>>
  BY <1>1, ShortSteps
<1>3. Len(t) = 2 => u = <<t[Len(t)]>>
  <2>1. Len(t) = 2 => u[1] = t[Len(t)] /\ u = <<u[1]>>
    BY <1>1, ShortSteps
  <2> QED
    BY <2>1
<1>4. /\ h \in FinalSteps => 1 = Len(t)
      /\ h = "create_room" =>
            /\ 1 = Len(t) \/ (1 = Len(t) - 1 /\ t[Len(t)] = "add_job" /\ Delegates(q))
            /\ Mints(q)
            /\ q.endpoint \in Standalone => is_full_access_user(q.server)
      /\ h = "add_job" =>
            \/ q.endpoint \in {"delegate", "delegate_cs"}
            \/ /\ q.endpoint \in Standalone
               /\ is_full_access_user(q.server) /\ Delegates(q)
      /\ h = "mint" => Mints(q)
  BY <1>1 DEF Fits
<1>5. h = "create_room" => u = <<>> \/ (u = <<"add_job">> /\ Delegates(q))
  BY <1>1, <1>2, <1>3, <1>4
<1> QED
  BY <1>2, <1>4, <1>5 DEF u, h

(* Programs are put together from such parts. *)

LEMMA BeforeInFirst ==
  ASSUME NEW s \in Seq(Step), NEW t \in Seq(Step), NEW c, Before(s, c)
  PROVE  Before(s \o t, c)
<1>1. PICK i \in DOMAIN s :
        s[i] = c /\ \A j \in DOMAIN s : s[j] \in EffectSteps => i < j
  BY DEF Before
<1>2. i \in DOMAIN (s \o t) /\ (s \o t)[i] = c
  BY <1>1
<1>3. ASSUME NEW j \in DOMAIN (s \o t), (s \o t)[j] \in EffectSteps
      PROVE  i < j
  <2>1. CASE j \in DOMAIN s
    BY <1>1, <1>3, <2>1
  <2>2. CASE j \notin DOMAIN s
    BY <2>2
  <2> QED
    BY <2>1, <2>2
<1> QED
  BY <1>2, <1>3 DEF Before

LEMMA BeforeInSecond ==
  ASSUME NEW s \in Seq(Step \ EffectSteps), NEW t \in Seq(Step), NEW c,
         Before(t, c)
  PROVE  Before(s \o t, c)
<1>0. s \in Seq(Step)
  OBVIOUS
<1>1. PICK i \in DOMAIN t :
        t[i] = c /\ \A j \in DOMAIN t : t[j] \in EffectSteps => i < j
  BY DEF Before
<1>2. Len(s) + i \in DOMAIN (s \o t) /\ (s \o t)[Len(s) + i] = c
  BY <1>0, <1>1
<1>3. ASSUME NEW j \in DOMAIN (s \o t), (s \o t)[j] \in EffectSteps
      PROVE  Len(s) + i < j
  <2>1. CASE j \in DOMAIN s
    <3>1. (s \o t)[j] = s[j] /\ s[j] \notin EffectSteps
      BY <1>0, <2>1
    <3> QED
      BY <1>3, <3>1
  <2>2. CASE j \notin DOMAIN s
    <3>1. /\ j - Len(s) \in DOMAIN t
          /\ (s \o t)[j] = t[j - Len(s)]
      BY <1>0, <2>2
    <3> QED
      BY <1>0, <1>1, <1>3, <3>1
  <2> QED
    BY <2>1, <2>2
<1> QED
  BY <1>2, <1>3 DEF Before

LEMMA HasInSecond ==
  ASSUME NEW s \in Seq(Step), NEW t \in Seq(Step), NEW c, Has(t, c)
  PROVE  Has(s \o t, c)
<1>1. PICK i \in DOMAIN t : t[i] = c
  BY DEF Has
<1>2. Len(s) + i \in DOMAIN (s \o t) /\ (s \o t)[Len(s) + i] = c
  BY <1>1
<1> QED
  BY <1>2 DEF Has

LEMMA HasInFirst ==
  ASSUME NEW s \in Seq(Step), NEW t \in Seq(Step), NEW c, Has(s, c)
  PROVE  Has(s \o t, c)
<1>1. PICK i \in DOMAIN s : s[i] = c
  BY DEF Has
<1>2. i \in DOMAIN (s \o t) /\ (s \o t)[i] = c
  BY <1>1
<1> QED
  BY <1>2 DEF Has

\* The steps that may be anywhere in the program of q.
AnywhereSteps(q) ==
    Step \ (FinalSteps \cup {"create_room"}
              \cup (IF Mints(q) THEN {} ELSE {"mint"}))

LEMMA FitsConcat ==
  ASSUME NEW q, NEW s \in Seq(AnywhereSteps(q)), NEW t \in Seq(Step), Fits(q, t)
  PROVE  Fits(q, s \o t)
<1>0. s \in Seq(Step)
  BY DEF AnywhereSteps
<1> DEFINE u == s \o t
<1>1. /\ Len(s) \in Nat /\ Len(t) \in Nat /\ Len(u) = Len(s) + Len(t)
      /\ DOMAIN u = 1 .. Len(s) + Len(t)
      /\ \A i \in 1 .. Len(s) : u[i] = s[i]
      /\ \A i \in 1 .. Len(t) : u[Len(s) + i] = t[i]
  BY <1>0
<1>2. ASSUME NEW i \in 1 .. Len(s)
      PROVE  /\ u[i] \notin FinalSteps /\ u[i] # "create_room"
             /\ u[i] # "add_job" /\ (u[i] = "mint" => Mints(q))
  <2>1. s[i] \in AnywhereSteps(q)
    OBVIOUS
  <2> QED
    BY <1>1, <2>1 DEF AnywhereSteps, FinalSteps
<1>3. ASSUME NEW i \in DOMAIN u, i \notin 1 .. Len(s)
      PROVE  /\ i - Len(s) \in DOMAIN t /\ u[i] = t[i - Len(s)]
             /\ i - Len(s) = Len(t) => i = Len(u)
             /\ i - Len(s) = Len(t) - 1 => i = Len(u) - 1 /\ u[Len(u)] = t[Len(t)]
  <2>1. i - Len(s) \in 1 .. Len(t) /\ Len(s) + (i - Len(s)) = i
    BY <1>1, <1>3
  <2>2. Len(t) \in 1 .. Len(t)
    BY <1>1, <2>1
  <2> QED
    BY <1>1, <2>1, <2>2
<1> HIDE DEF u
<1>4. Fits(q, u)
  BY <1>2, <1>3 DEF Fits
<1> QED
  BY <1>4 DEF u

\* A program of request q that starts as it should.
Starts(q, t) ==
    /\ t \in Seq(Step) /\ t # <<>>
    /\ Fits(q, t)
    /\ \A c \in Checks(q) : Before(t, c)
    /\ Publishes(q) => Has(t, "create_room")
    /\ Mints(q) => Has(t, "mint")

LEMMA NonEmptyConcat ==
  ASSUME NEW s \in Seq(Step), s # <<>>, NEW t \in Seq(Step)
  PROVE  s \o t \in Seq(Step) /\ s \o t # <<>>
OBVIOUS

\* The checks that open the programs of the standalone endpoints.
LEMMA StandaloneOpens ==
  ASSUME NEW q, q.endpoint \in Standalone
  PROVE  LET s == <<"gate", "body", "openid">> \o LegacyMembershipSteps
         IN  /\ s \in Seq(Step \ EffectSteps) /\ s # <<>>
             /\ \A c \in Checks(q) : Before(s, c)
<1> DEFINE u == <<"gate", "body", "openid">>
           v == <<"legacy_resolve", "legacy_member">>
<1>1. /\ u \in Seq(Step) /\ v \in Seq(Step)
      /\ u \in Seq(Step \ EffectSteps) /\ v \in Seq(Step \ EffectSteps)
      /\ u # <<>>
  BY DEF Step, EffectSteps
<1>2. Before(u, "gate") /\ Before(u, "body") /\ Before(u, "openid")
  <2>1. \A j \in DOMAIN u : u[j] \notin EffectSteps
    BY DEF EffectSteps
  <2>2. /\ 1 \in DOMAIN u /\ u[1] = "gate"
        /\ 2 \in DOMAIN u /\ u[2] = "body"
        /\ 3 \in DOMAIN u /\ u[3] = "openid"
    OBVIOUS
  <2> HIDE DEF u
  <2> QED
    BY <2>1, <2>2 DEF Before
<1>3. Before(v, "legacy_member")
  <2>1. \A j \in DOMAIN v : v[j] \notin EffectSteps
    BY DEF EffectSteps
  <2>2. 2 \in DOMAIN v /\ v[2] = "legacy_member"
    OBVIOUS
  <2> HIDE DEF v
  <2> QED
    BY <2>1, <2>2 DEF Before
<1>4. Checks(q) = {"gate", "body", "openid"}
                    \cup (IF verifies_legacy_membership(config)
                          THEN {"legacy_member"} ELSE {})
  BY DEF Checks, Standalone, Proxied
<1>5. CASE verifies_legacy_membership(config)
  <2>1. LegacyMembershipSteps = v
    BY <1>5 DEF LegacyMembershipSteps
  <2> HIDE DEF u, v
  <2>2. u \o v \in Seq(Step \ EffectSteps) /\ u \o v # <<>>
    BY <1>1, ConcatOfSteps, NonEmptyConcat
  <2>3. \A c \in Checks(q) : Before(u \o v, c)
    BY <1>1, <1>2, <1>3, <1>4, BeforeInFirst, BeforeInSecond
  <2> QED
    BY <2>1, <2>2, <2>3 DEF u
<1>6. CASE ~verifies_legacy_membership(config)
  <2>1. u \o LegacyMembershipSteps = u
    BY <1>6 DEF LegacyMembershipSteps
  <2> HIDE DEF u
  <2>2. \A c \in Checks(q) : Before(u, c)
    BY <1>2, <1>4, <1>6
  <2> QED
    BY <1>1, <2>1, <2>2 DEF u
<1> QED
  BY <1>5, <1>6

\* The opening of a program may be followed by whatever fits.
LEMMA OpeningStarts ==
  ASSUME NEW q, NEW s \in Seq(Step \ EffectSteps), s # <<>>,
         NEW t \in Seq(Step), Fits(q, t),
         \A c \in Checks(q) : Before(s, c) \/ Before(t, c),
         Publishes(q) => Has(t, "create_room"), Mints(q) => Has(t, "mint")
  PROVE  Starts(q, s \o t)
<1>1. s \in Seq(AnywhereSteps(q)) /\ s \in Seq(Step)
  BY DEF AnywhereSteps, EffectSteps, FinalSteps
<1>2. s \o t \in Seq(Step) /\ s \o t # <<>>
  BY <1>1, NonEmptyConcat
<1> QED
  BY <1>1, <1>2, FitsConcat, BeforeInFirst, BeforeInSecond, HasInSecond DEF Starts

LEMMA StandaloneStarts ==
  ASSUME NEW q, q.endpoint \in Standalone
  PROVE  Starts(q, Program(q))
<1> DEFINE s == <<"gate", "body", "openid">> \o LegacyMembershipSteps
<1>1. /\ s \in Seq(Step \ EffectSteps) /\ s # <<>>
      /\ \A c \in Checks(q) : Before(s, c)
  BY StandaloneOpens
<1> HIDE DEF s
<1>2. CASE q.endpoint \in {"sfu_get", "get_token"}
  <2> DEFINE room == IF ~is_full_access_user(q.server) THEN <<>>
                     ELSE IF Delegates(q) THEN ResolveFirst(q)
                     ELSE <<"create_room">>
             m == <<"mint">>
  <2>1. Mints(q) /\ (Publishes(q) => is_full_access_user(q.server))
    BY <1>2 DEF Mints, Publishes, can_publish
  <2>2. Program(q) = (s \o m) \o room
    BY <1>2, Zenon DEF Program, TokenSteps, s
  <2>3. \/ /\ ~is_full_access_user(q.server)
           /\ room = <<>>
        \/ /\ is_full_access_user(q.server) /\ Delegates(q)
           /\ room = <<"resolve", "create_room", "add_job">>
        \/ /\ is_full_access_user(q.server)
           /\ room = <<"create_room">>
    <3>1. CASE ~is_full_access_user(q.server)
      BY <3>1, Zenon
    <3>2. CASE is_full_access_user(q.server) /\ Delegates(q)
      BY <3>2 DEF ResolveFirst
    <3>3. CASE is_full_access_user(q.server) /\ ~Delegates(q)
      BY <3>3
    <3> QED
      BY <3>1, <3>2, <3>3
  <2>4. m \in Seq(Step) /\ m \in Seq(AnywhereSteps(q)) /\ Has(m, "mint")
    BY <2>1 DEF Step, AnywhereSteps, FinalSteps, Has
  <2> HIDE DEF room, m
  <2>5. ASSUME ~is_full_access_user(q.server), room = <<>>
        PROVE  /\ room \in Seq(Step) /\ Fits(q, room)
               /\ Publishes(q) => Has(room, "create_room")
    BY <2>1, <2>5 DEF Fits
  <2>6. ASSUME is_full_access_user(q.server), Delegates(q),
               room = <<"resolve", "create_room", "add_job">>
        PROVE  /\ room \in Seq(Step) /\ Fits(q, room)
               /\ Publishes(q) => Has(room, "create_room")
    <3>1. Fits(q, <<"resolve", "create_room", "add_job">>)
      BY <1>2, <2>1, <2>6 DEF Fits, FinalSteps, Standalone
    <3>2. Has(<<"resolve", "create_room", "add_job">>, "create_room")
      BY DEF Has
    <3>3. <<"resolve", "create_room", "add_job">> \in Seq(Step)
      BY DEF Step
    <3> QED
      BY <2>6, <3>1, <3>2, <3>3
  <2>7. ASSUME is_full_access_user(q.server), room = <<"create_room">>
        PROVE  /\ room \in Seq(Step) /\ Fits(q, room)
               /\ Publishes(q) => Has(room, "create_room")
    <3>1. Fits(q, <<"create_room">>)
      BY <1>2, <2>1, <2>7 DEF Fits, FinalSteps, Standalone
    <3>2. Has(<<"create_room">>, "create_room")
      BY DEF Has
    <3>3. <<"create_room">> \in Seq(Step)
      BY DEF Step
    <3> QED
      BY <2>7, <3>1, <3>2, <3>3
  <2>8. /\ room \in Seq(Step) /\ Fits(q, room)
        /\ Publishes(q) => Has(room, "create_room")
    BY <2>3, <2>5, <2>6, <2>7
  <2>9. s \in Seq(Step) /\ s \in Seq(AnywhereSteps(q))
    BY <1>1 DEF AnywhereSteps, EffectSteps, FinalSteps
  <2> DEFINE sm == s \o m
  <2>10. /\ sm \in Seq(Step) /\ sm # <<>> /\ sm \in Seq(AnywhereSteps(q))
         /\ Has(sm, "mint")
    BY <1>1, <2>4, <2>9, ConcatOfSteps, NonEmptyConcat, HasInSecond
  <2>11. \A c \in Checks(q) : Before(sm, c)
    BY <1>1, <2>4, <2>9, BeforeInFirst
  <2> HIDE DEF sm
  <2>12. Starts(q, sm \o room)
    <3>1. sm \o room \in Seq(Step) /\ sm \o room # <<>>
      BY <2>8, <2>10, NonEmptyConcat
    <3>2. Fits(q, sm \o room)
      BY <2>8, <2>10, FitsConcat
    <3>3. \A c \in Checks(q) : Before(sm \o room, c)
      BY <2>8, <2>10, <2>11, BeforeInFirst
    <3>4. Publishes(q) => Has(sm \o room, "create_room")
      BY <2>8, <2>10, HasInSecond
    <3>5. Has(sm \o room, "mint")
      BY <2>8, <2>10, HasInFirst
    <3> QED
      BY <3>1, <3>2, <3>3, <3>4, <3>5 DEF Starts
  <2> QED
    BY <2>2, <2>12 DEF sm
<1>3. CASE q.endpoint = "delegate"
  <2> DEFINE t == <<"resolve", "add_job">>
  <2>1. Program(q) = s \o t
    BY <1>3 DEF Program, DelegateSteps, s
  <2>2. t \in Seq(Step) /\ Fits(q, t) /\ ~Publishes(q) /\ ~Mints(q)
    BY <1>3 DEF Step, Fits, FinalSteps, Publishes, Mints
  <2> HIDE DEF t
  <2> QED
    BY <1>1, <2>1, <2>2, OpeningStarts
<1> QED
  BY <1>2, <1>3 DEF Standalone

LEMMA ProxiedStarts ==
  ASSUME NEW q, q.endpoint \in Proxied
  PROVE  Starts(q, Program(q))
<1> DEFINE s == ProxiedSteps
<1>1. s \in Seq(Step \ EffectSteps) /\ s # <<>>
  BY DEF ProxiedSteps, Step, EffectSteps
<1>2. Before(s, "gate") /\ Before(s, "hs_token") /\ Before(s, "body")
        /\ Before(s, "header")
  <2>1. \A j \in DOMAIN s : s[j] \notin EffectSteps
    BY DEF ProxiedSteps, EffectSteps
  <2>2. /\ 1 \in DOMAIN s /\ s[1] = "gate"
        /\ 2 \in DOMAIN s /\ s[2] = "hs_token"
        /\ 3 \in DOMAIN s /\ s[3] = "body"
        /\ 4 \in DOMAIN s /\ s[4] = "header"
    BY DEF ProxiedSteps
  <2> HIDE DEF s
  <2> QED
    BY <2>1, <2>2 DEF Before
<1> HIDE DEF s
<1>3. q.endpoint \notin Standalone
  BY DEF Standalone, Proxied
<1>4. CASE q.endpoint = "get_token_cs" /\ is_local(q)
  <2> DEFINE t == <<"url", "user_id", "resolve", "user_joined", "mint",
                    "create_room">>
  <2>1. Program(q) = s \o t
    BY <1>4 DEF Program, CsTokenSteps, s
  <2>2. /\ t \in Seq(Step) /\ Fits(q, t)
        /\ Has(t, "create_room") /\ Has(t, "mint")
        /\ Before(t, "url") /\ Before(t, "user_id") /\ Before(t, "user_joined")
    <3>1. t \in Seq(Step)
      BY DEF Step
    <3>2. Fits(q, t)
      BY <1>3, <1>4 DEF Fits, FinalSteps, Mints
    <3>3. \A j \in DOMAIN t : t[j] \in EffectSteps => 4 < j
      BY DEF EffectSteps
    <3>4. /\ 1 \in DOMAIN t /\ t[1] = "url" /\ 2 \in DOMAIN t /\ t[2] = "user_id"
          /\ 4 \in DOMAIN t /\ t[4] = "user_joined"
          /\ 5 \in DOMAIN t /\ t[5] = "mint"
          /\ 6 \in DOMAIN t /\ t[6] = "create_room"
          /\ \A j \in DOMAIN t : j \in Nat
      OBVIOUS
    <3> HIDE DEF t
    <3> QED
      BY <3>1, <3>2, <3>3, <3>4 DEF Before, Has
  <2>3. Checks(q) = {"gate", "body", "hs_token", "header", "user_id",
                     "user_joined", "url"}
    BY <1>3, <1>4 DEF Checks, Proxied
  <2> HIDE DEF t
  <2> QED
    BY <1>1, <1>2, <2>1, <2>2, <2>3, OpeningStarts
<1>5. CASE q.endpoint = "get_token_cs" /\ ~is_local(q)
  <2> DEFINE t == <<"user_id", "resolve", "user_joined", "target_joined", "relay">>
  <2>1. Program(q) = s \o t
    BY <1>5 DEF Program, CsTokenSteps, s
  <2>2. /\ t \in Seq(Step) /\ Fits(q, t)
        /\ Before(t, "user_id") /\ Before(t, "user_joined")
        /\ Before(t, "target_joined")
    <3>1. t \in Seq(Step)
      BY DEF Step
    <3>2. Fits(q, t)
      BY DEF Fits, FinalSteps
    <3>3. \A j \in DOMAIN t : t[j] \in EffectSteps => 4 < j
      BY DEF EffectSteps
    <3>4. /\ 1 \in DOMAIN t /\ t[1] = "user_id"
          /\ 3 \in DOMAIN t /\ t[3] = "user_joined"
          /\ 4 \in DOMAIN t /\ t[4] = "target_joined"
          /\ \A j \in DOMAIN t : j \in Nat
      OBVIOUS
    <3> HIDE DEF t
    <3> QED
      BY <3>1, <3>2, <3>3, <3>4 DEF Before
  <2>3. /\ Checks(q) = {"gate", "body", "hs_token", "header", "user_id",
                        "user_joined", "target_joined"}
        /\ ~Publishes(q) /\ ~Mints(q)
    BY <1>3, <1>5 DEF Checks, Publishes, Mints, Proxied
  <2> HIDE DEF t
  <2> QED
    BY <1>1, <1>2, <2>1, <2>2, <2>3, OpeningStarts
<1>6. CASE q.endpoint = "get_token_ss"
  <2> DEFINE t == <<"user_id", "origin", "resolve", "ours_joined", "user_joined",
                    "url", "mint", "create_room">>
  <2>1. Program(q) = s \o t
    BY <1>6 DEF Program, SsTokenSteps, s
  <2>2. /\ t \in Seq(Step) /\ Fits(q, t)
        /\ Has(t, "create_room") /\ Has(t, "mint")
        /\ Before(t, "url") /\ Before(t, "user_id") /\ Before(t, "user_joined")
        /\ Before(t, "origin") /\ Before(t, "ours_joined")
    <3>1. t \in Seq(Step)
      BY DEF Step
    <3>2. Fits(q, t)
      BY <1>3, <1>6 DEF Fits, FinalSteps, Mints
    <3>3. \A j \in DOMAIN t : t[j] \in EffectSteps => 6 < j
      BY DEF EffectSteps
    <3>4. /\ 1 \in DOMAIN t /\ t[1] = "user_id" /\ 2 \in DOMAIN t /\ t[2] = "origin"
          /\ 4 \in DOMAIN t /\ t[4] = "ours_joined"
          /\ 5 \in DOMAIN t /\ t[5] = "user_joined"
          /\ 6 \in DOMAIN t /\ t[6] = "url"
          /\ 7 \in DOMAIN t /\ t[7] = "mint"
          /\ 8 \in DOMAIN t /\ t[8] = "create_room"
          /\ \A j \in DOMAIN t : j \in Nat
      OBVIOUS
    <3> HIDE DEF t
    <3> QED
      BY <3>1, <3>2, <3>3, <3>4 DEF Before, Has
  <2>3. Checks(q) = {"gate", "body", "hs_token", "header", "user_id",
                     "user_joined", "url", "origin", "ours_joined"}
    BY <1>3, <1>6 DEF Checks, Proxied
  <2> HIDE DEF t
  <2> QED
    BY <1>1, <1>2, <2>1, <2>2, <2>3, OpeningStarts
<1>7. CASE q.endpoint = "delegate_cs"
  <2> DEFINE t == <<"url", "user_id", "resolve", "user_joined", "look_up_delay",
                    "add_job">>
  <2>1. Program(q) = s \o t
    BY <1>7 DEF Program, CsDelegateSteps, s
  <2>2. /\ t \in Seq(Step) /\ Fits(q, t)
        /\ Before(t, "url") /\ Before(t, "user_id") /\ Before(t, "user_joined")
    <3>1. t \in Seq(Step)
      BY DEF Step
    <3>2. Fits(q, t)
      BY <1>7 DEF Fits, FinalSteps
    <3>3. \A j \in DOMAIN t : t[j] \in EffectSteps => 4 < j
      BY DEF EffectSteps
    <3>4. /\ 1 \in DOMAIN t /\ t[1] = "url" /\ 2 \in DOMAIN t /\ t[2] = "user_id"
          /\ 4 \in DOMAIN t /\ t[4] = "user_joined"
          /\ \A j \in DOMAIN t : j \in Nat
      OBVIOUS
    <3> HIDE DEF t
    <3> QED
      BY <3>1, <3>2, <3>3, <3>4 DEF Before
  <2>3. /\ Checks(q) = {"gate", "body", "hs_token", "header", "user_id",
                        "user_joined", "url"}
        /\ ~Publishes(q) /\ ~Mints(q)
    BY <1>3, <1>7 DEF Checks, Publishes, Mints, Proxied
  <2> HIDE DEF t
  <2> QED
    BY <1>1, <1>2, <2>1, <2>2, <2>3, OpeningStarts
<1> QED
  BY <1>4, <1>5, <1>6, <1>7 DEF Proxied

\* A ping leaves nothing behind with this service.
LEMMA PingStarts ==
  ASSUME NEW q, q.endpoint = "appservice_ping"
  PROVE  Starts(q, Program(q))
<1> DEFINE t == <<"gate", "body", "resolve", "ping">>
<1>1. Program(q) = t
  BY DEF Program
<1>2. t \in Seq(Step) /\ t # <<>>
  BY DEF Step
<1>3. Fits(q, t) /\ ~Mints(q) /\ ~Publishes(q)
  BY DEF Fits, FinalSteps, Mints, Publishes
<1>4. Checks(q) = {"gate", "body"}
  BY DEF Checks, Standalone, Proxied
<1>5. \A j \in DOMAIN t : t[j] \notin EffectSteps
  BY DEF EffectSteps
<1>6. /\ 1 \in DOMAIN t /\ t[1] = "gate"
      /\ 2 \in DOMAIN t /\ t[2] = "body"
  OBVIOUS
<1> HIDE DEF t
<1> QED
  BY <1>1, <1>2, <1>3, <1>4, <1>5, <1>6 DEF Starts, Before

(* The steps of a request, one kind at a time. *)

\* What a step of another request, or of the environment, leaves alone.
Aside(s) ==
    /\ todo'[s] = todo[s] /\ reply'[s] = reply[s] /\ request'[s] = request[s]
    /\ granted'[s] = granted[s] /\ relayed'[s] = relayed[s]
    /\ s \in rooms' <=> s \in rooms
    /\ \A job : job.of = s => (job \in jobs' <=> job \in jobs)
    /\ seenJoined[s] \subseteq seenJoined'[s]
    /\ todo[s] # <<>> => joined' \subseteq joined \cup seenJoined'[s]
    /\ config' = config
    /\ shutdown => shutdown'

LEMMA AsideSound ==
  ASSUME NEW s \in Requests, Sound(s), Aside(s)
  PROVE  Sound(s)'
<1>1. CASE request[s] = NoRequest
  BY <1>1 DEF Sound, Aside, Untouched, HasJob
<1>2. CASE request[s] # NoRequest
  <2> DEFINE q == request[s]
             t == todo[s]
  <2>1. /\ request'[s] = q /\ todo'[s] = t /\ q # NoRequest
        /\ HasJob(s)' <=> HasJob(s)
        /\ config' = config
    BY <1>2 DEF Aside, HasJob
  <2>2. /\ q \in Request /\ Received(q) /\ Fits(q, t)
        /\ Guarded(s) /\ UnderWay(s) /\ Outcome(s) /\ relayed[s] \in {0, 1}
    BY <1>2 DEF Sound
  <2>3. /\ Checks(request[s])' = Checks(q)
        /\ Fits(request[s], todo[s])'
        /\ Received(request[s])'
        /\ Publishes(request[s])' <=> Publishes(q)
        /\ Mints(request[s])' <=> Mints(q)
        /\ is_full_access_user(request[s].server)' <=> is_full_access_user(q.server)
        /\ MayDelegate(request[s])' <=> MayDelegate(q)
    BY <2>1, <2>2
       DEF Checks, Fits, Received, HasAppService, Publishes, Mints, can_publish,
           may_publish_remotely, is_full_access_user, MayDelegate
  <2>4. Effectless(s)' <=> Effectless(s)
    BY <2>1 DEF Effectless, Aside
  <2>5. ASSUME NEW c, Holds(s, c) PROVE Holds(s, c)'
    BY <2>1, <2>3, <2>5 DEF Holds, Aside
  <2>6. Guarded(s)'
    <3> SUFFICES ASSUME NEW c \in Checks(q)
                 PROVE  \/ Holds(s, c)'
                        \/ Effectless(s)' /\ (t = <<>> \/ Before(t, c))
      BY <2>1, <2>3 DEF Guarded
    <3> QED
      BY <2>2, <2>4, <2>5 DEF Guarded
  <2>7. UnderWay(s)'
    BY <2>1, <2>2, <2>3 DEF UnderWay, Aside
  <2>8. Outcome(s)'
    BY <2>1, <2>2, <2>3 DEF Outcome, Aside
  <2> QED
    BY <2>1, <2>2, <2>3, <2>6, <2>7, <2>8 DEF Sound, Aside
<1> QED
  BY <1>1, <1>2

\* What is known of a request under way.
LEMMA ActingIs ==
  ASSUME SoundInv, NEW r \in Requests, todo[r] # <<>>
  PROVE  /\ todo[r] \in Seq(Step)
         /\ request[r] # NoRequest /\ request[r] \in Request
         /\ Received(request[r]) /\ Fits(request[r], todo[r])
         /\ Guarded(r) /\ Outcome(r)
         /\ reply[r] = NoReply /\ relayed[r] = 0 /\ ~HasJob(r)
         /\ joined \subseteq seenJoined[r]
         /\ r \in rooms => todo[r] = <<"add_job">> /\ Delegates(request[r])
         /\ Publishes(request[r]) => r \in rooms \/ Has(todo[r], "create_room")
         /\ Mints(request[r]) => granted[r] # "none" \/ Has(todo[r], "mint")
<1>1. todo[r] \in Seq(Step) /\ Sound(r)
  BY DEF SoundInv, TypeOK
<1>2. request[r] # NoRequest
  BY <1>1 DEF Sound, Untouched
<1>3. Fits(request[r], todo[r]) /\ UnderWay(r) /\ Guarded(r) /\ Outcome(r)
  BY <1>1, <1>2 DEF Sound
<1> QED
  BY <1>1, <1>2, <1>3 DEF Sound, UnderWay

\* A step with an effect is the last to go: all checks have been passed.
LEMMA AllChecked ==
  ASSUME SoundInv, NEW r \in Requests, todo[r] # <<>>,
         Head(todo[r]) \in EffectSteps, NEW c \in Checks(request[r])
  PROVE  Holds(r, c)
<1>1. c # Head(todo[r])
  BY DEF Checks, EffectSteps
<1>2. ~Before(todo[r], c)
  BY <1>1, ActingIs, BeforeTail
<1> QED
  BY <1>2, ActingIs DEF Guarded

\* Once the last step of a request is another one, its token to publish has a room.
LEMMA NoRoomLater ==
  ASSUME SoundInv, NEW r \in Requests, todo[r] # <<>>,
         Head(todo[r]) # "create_room", Tail(todo[r]) = <<>>,
         Publishes(request[r])
  PROVE  r \in rooms
BY ActingIs, HasTail

LEMMA PassIs ==
  ASSUME TypeOK, NEW r \in Requests, todo[r] # <<>>, Pass(r)
  PROVE  /\ todo' \in [Requests -> Seq(Step)]
         /\ reply' \in [Requests -> {NoReply, Ok, Gone} \cup Refusals]
         /\ todo'[r] = Tail(todo[r])
         /\ reply'[r] = IF Tail(todo[r]) = <<>> THEN Ok ELSE reply[r]
         /\ \A s \in Requests \ {r} : todo'[s] = todo[s] /\ reply'[s] = reply[s]
<1>1. /\ todo \in [Requests -> Seq(Step)]
      /\ reply \in [Requests -> {NoReply, Ok, Gone} \cup Refusals]
  BY DEF TypeOK
<1>2. Tail(todo[r]) \in Seq(Step) /\ (Len(todo[r]) = 1 <=> Tail(todo[r]) = <<>>)
  <2> DEFINE t == todo[r]
             u == Tail(t)
  <2>1. t \in Seq(Step) /\ t # <<>>
    BY <1>1
  <2>2. Len(t) \in Nat /\ u \in Seq(Step) /\ Len(u) = Len(t) - 1
    BY <2>1, TailIs
  <2> HIDE DEF t, u
  <2>3. u = <<>> => Len(u) = 0
    OBVIOUS
  <2>4. Len(t) = 1 <=> u = <<>>
    BY <2>2, <2>3, ShortSteps
  <2> QED
    BY <2>2, <2>4 DEF t, u
<1> DEFINE Steps == Seq(Step)
<1> HIDE DEF Steps
<1>3. todo \in [Requests -> Steps] /\ Tail(todo[r]) \in Steps
  BY <1>1, <1>2 DEF Steps
<1>4. todo' = [todo EXCEPT ![r] = Tail(todo[r])]
  BY DEF Pass
<1>5. /\ todo' \in [Requests -> Steps] /\ todo'[r] = Tail(todo[r])
      /\ \A s \in Requests \ {r} : todo'[s] = todo[s]
  BY <1>3, <1>4
<1>6. reply' = IF Len(todo[r]) = 1 THEN [reply EXCEPT ![r] = Ok] ELSE reply
  BY DEF Pass
<1> QED
  BY <1>1, <1>2, <1>5, <1>6 DEF Steps

LEMMA RefuseIs ==
  ASSUME TypeOK, NEW r \in Requests,
         NEW status \in {Ok, Gone} \cup Refusals, Refuse(r, status)
  PROVE  /\ todo' \in [Requests -> Seq(Step)]
         /\ reply' \in [Requests -> {NoReply, Ok, Gone} \cup Refusals]
         /\ todo'[r] = <<>>
         /\ reply'[r] = status
         /\ \A s \in Requests \ {r} : todo'[s] = todo[s] /\ reply'[s] = reply[s]
<1>1. /\ todo \in [Requests -> Seq(Step)]
      /\ reply \in [Requests -> {NoReply, Ok, Gone} \cup Refusals]
  BY DEF TypeOK
<1> DEFINE Steps == Seq(Step)
<1>2. <<>> \in Steps
  OBVIOUS
<1> HIDE DEF Steps
<1>3. todo \in [Requests -> Steps]
  BY <1>1 DEF Steps
<1>4. /\ todo' \in [Requests -> Steps] /\ todo'[r] = <<>>
      /\ \A s \in Requests \ {r} : todo'[s] = todo[s]
  BY <1>2, <1>3 DEF Refuse
<1> QED
  BY <1>1, <1>4 DEF Steps, Refuse

\* What stays of a request that makes a step.
LEMMA RequestStays ==
  ASSUME NEW r \in Requests, UNCHANGED environmentVars
  PROVE  /\ request'[r] = request[r]
         /\ Checks(request[r])' = Checks(request[r])
         /\ Received(request[r])' <=> Received(request[r])
         /\ Publishes(request[r])' <=> Publishes(request[r])
         /\ Mints(request[r])' <=> Mints(request[r])
         /\ Fits(request[r], todo[r])' <=> Fits(request[r], todo'[r])
         /\ is_full_access_user(request[r].server)'
                <=> is_full_access_user(request[r].server)
         /\ \A c : Holds(r, c)' <=> Holds(r, c)
BY DEF environmentVars, Checks, Received, HasAppService, Publishes, Mints,
       can_publish, may_publish_remotely, is_full_access_user, Fits, Holds,
       MayDelegate

\* The other requests notice nothing.
LEMMA OthersSound ==
  ASSUME SoundInv, NEW r \in Requests, UNCHANGED environmentVars,
         \A s \in Requests \ {r} :
            /\ todo'[s] = todo[s] /\ reply'[s] = reply[s]
            /\ granted'[s] = granted[s] /\ relayed'[s] = relayed[s]
            /\ s \in rooms' <=> s \in rooms,
         \A job : job.of # r => (job \in jobs' <=> job \in jobs)
  PROVE  \A s \in Requests \ {r} : Sound(s)'
<1> SUFFICES ASSUME NEW s \in Requests \ {r} PROVE Sound(s)'
  OBVIOUS
<1>1. Aside(s)
  BY DEF Aside, environmentVars, SoundInv, UnderWay, Sound
<1> QED
  BY <1>1, AsideSound DEF SoundInv

-----------------------------------------------------------------------------
(* The checks. *)

\* A request that passes a check stays sound, if what the check looks at holds.
LEMMA PassSound ==
  ASSUME SoundInv, NEW r \in Requests, todo[r] # <<>>,
         UNCHANGED environmentVars,
         UNCHANGED <<rooms, jobs, granted, relayed>>,
         Head(todo[r]) \notin EffectSteps,
         Head(todo[r]) \in Checks(request[r]) => Holds(r, Head(todo[r])),
         Pass(r)
  PROVE  Sound(r)'
<1> DEFINE q == request[r]
           t == todo[r]
           h == Head(t)
           u == Tail(t)
<1>1. /\ todo'[r] = u /\ reply'[r] = IF u = <<>> THEN Ok ELSE reply[r]
      /\ request'[r] = q /\ u \in Seq(Step)
  BY PassIs, ActingIs, RequestStays, TailIs DEF SoundInv
<1>2. /\ q # NoRequest /\ q \in Request /\ Received(q)
      /\ t \in Seq(Step) /\ t # <<>> /\ Fits(q, t) /\ Guarded(r) /\ Outcome(r)
      /\ reply[r] = NoReply /\ relayed[r] = 0 /\ ~HasJob(r)
      /\ joined \subseteq seenJoined[r]
      /\ Publishes(q) => r \in rooms \/ Has(t, "create_room")
      /\ Mints(q) => granted[r] # "none" \/ Has(t, "mint")
      /\ r \in rooms => t = <<"add_job">>
  BY ActingIs
<1>3. r \notin rooms
  BY <1>2 DEF EffectSteps
<1>4. Fits(q, u)
  BY <1>2, FitsTail
<1>5. /\ h \notin EffectSteps /\ (h \in Checks(q) => Holds(r, h))
  OBVIOUS
<1>6. Publishes(q) => u # <<>> /\ Has(u, "create_room")
  BY <1>2, <1>3, <1>5, HasTail DEF EffectSteps
<1>0. Mints(q) => granted[r] # "none" \/ Has(u, "mint")
  BY <1>2, <1>5, HasTail DEF EffectSteps
<1>7. /\ Received(request[r])' /\ Fits(request[r], todo[r])'
      /\ Publishes(request[r])' <=> Publishes(q)
      /\ Mints(request[r])' <=> Mints(q)
      /\ is_full_access_user(request[r].server)' <=> is_full_access_user(q.server)
  BY <1>1, <1>2, <1>4, RequestStays
<1>8. HasJob(r)' <=> HasJob(r)
  BY DEF HasJob
<1>9. ASSUME NEW c \in Checks(q), ~Holds(r, c)
      PROVE  Effectless(r) /\ u # <<>> /\ Before(u, c)
  <2>1. Effectless(r) /\ Before(t, c) /\ h # c
    BY <1>2, <1>5, <1>9 DEF Guarded
  <2> QED
    BY <1>2, <2>1, BeforeTail
<1>10. Guarded(r)'
  <2> SUFFICES ASSUME NEW c \in Checks(q), ~Holds(r, c)
               PROVE  Effectless(r)' /\ Before(todo[r], c)'
    BY RequestStays DEF Guarded
  <2>1. Effectless(r) /\ u # <<>> /\ Before(u, c)
    BY <1>9
  <2>2. Effectless(r)'
    BY <1>1, <1>8, <2>1 DEF Effectless
  <2> QED
    BY <1>1, <2>1, <2>2 DEF Before
<1>11. UnderWay(r)'
  <2>1. /\ u # <<>> => reply'[r] = NoReply
        /\ relayed'[r] = 0 /\ ~HasJob(r)' /\ r \notin rooms'
    BY <1>1, <1>2, <1>3, <1>8
  <2>2. (joined \subseteq seenJoined[r])'
    BY <1>2 DEF environmentVars
  <2>3. Publishes(request[r])' => Has(todo[r], "create_room")'
    BY <1>1, <1>6, <1>7 DEF Has
  <2>4. Mints(request[r])' => granted'[r] # "none" \/ Has(todo[r], "mint")'
    BY <1>0, <1>1, <1>7 DEF Has
  <2> QED
    BY <1>1, <2>1, <2>2, <2>3, <2>4 DEF UnderWay
<1>12. Outcome(r)'
  <2>1. /\ reply'[r] \notin Refusals
        /\ r \notin rooms' /\ ~HasJob(r)'
    BY <1>1, <1>2, <1>3, <1>8 DEF Refusals, Ok, NoReply
  <2>2. granted'[r] = "publish" => Publishes(request[r])'
    BY <1>2, <1>7 DEF Outcome
  <2>3. reply'[r] = Ok => u = <<>>
    BY <1>1, <1>2 DEF Ok, NoReply
  <2> QED
    BY <1>6, <1>7, <2>1, <2>2, <2>3 DEF Outcome, HasJob
<1>13. /\ request'[r] # NoRequest /\ request'[r] \in Request
       /\ relayed'[r] = 0
  BY <1>1, <1>2
<1> QED
  BY <1>7, <1>10, <1>11, <1>12, <1>13 DEF Sound

\* A request that is refused before it leaves anything behind stays sound.
LEMMA RefuseSound ==
  ASSUME SoundInv, NEW r \in Requests, todo[r] # <<>>,
         UNCHANGED environmentVars,
         UNCHANGED <<rooms, jobs, granted, relayed>>,
         NEW status \in {Ok} \cup Refusals,
         status = Ok => request[r].method = "OPTIONS",
         r \in rooms => shutdown /\ status = 503,
         Refuse(r, status)
  PROVE  Sound(r)'
<1> DEFINE q == request[r]
<1>1. todo'[r] = <<>> /\ reply'[r] = status /\ request'[r] = q
  <2>1. TypeOK /\ status \in {Ok, Gone} \cup Refusals
    BY DEF SoundInv
  <2>2. todo'[r] = <<>> /\ reply'[r] = status
    BY <2>1, RefuseIs
  <2> QED
    BY <2>2, RequestStays
<1>2. /\ q # NoRequest /\ q \in Request /\ Received(q)
      /\ Guarded(r) /\ Outcome(r)
      /\ relayed[r] = 0 /\ ~HasJob(r) /\ reply[r] = NoReply
      /\ r \in rooms => Delegates(q)
  BY ActingIs
<1>3. /\ Received(request[r])' /\ (Publishes(request[r])' <=> Publishes(q))
      /\ is_full_access_user(request[r].server)' <=> is_full_access_user(q.server)
  BY <1>2, RequestStays
<1>4. Fits(request[r], todo[r])'
  BY <1>1 DEF Fits
<1>5. HasJob(r)' <=> HasJob(r)
  BY DEF HasJob
<1>6. Guarded(r)'
  <2> SUFFICES ASSUME NEW c \in Checks(q), ~Holds(r, c) PROVE Effectless(r)'
    BY <1>1, RequestStays DEF Guarded
  <2>1. Effectless(r)
    BY <1>2 DEF Guarded
  <2> QED
    BY <1>1, <1>5, <2>1 DEF Effectless
<1>7. status = Ok => granted[r] = "none"
  <2> SUFFICES ASSUME status = Ok PROVE granted[r] = "none"
    OBVIOUS
  <2>1. "gate" \in Checks(q) /\ ~Holds(r, "gate")
    BY DEF Checks, Holds
  <2> QED
    BY <1>2, <2>1 DEF Guarded, Effectless
<1>8. UnderWay(r)'
  BY <1>1 DEF UnderWay
<1>9. Outcome(r)'
  <2>1. ~HasJob(r)' /\ (r \in rooms' => r \in rooms /\ Delegates(q))
    BY <1>2, <1>5
  <2>2. /\ granted'[r] = "publish" => Publishes(request[r])'
        /\ reply'[r] = Ok => granted'[r] = "none"
    BY <1>1, <1>2, <1>3, <1>7 DEF Outcome
  <2>3. reply'[r] \in Refusals /\ r \in rooms' =>
            shutdown' /\ reply'[r] = 503
    BY <1>1 DEF environmentVars
  <2>4. r \in rooms' /\ (request[r].endpoint \in Standalone)' =>
            is_full_access_user(request[r].server)'
    BY <1>1, <1>2, <1>3 DEF Outcome
  <2> QED
    BY <1>1, <2>1, <2>2, <2>3, <2>4 DEF Outcome, HasJob
<1>10. /\ request'[r] # NoRequest /\ request'[r] \in Request
       /\ relayed'[r] = 0
  BY <1>1, <1>2
<1> QED
  BY <1>3, <1>4, <1>6, <1>8, <1>9, <1>10 DEF Sound

LEMMA RequestIs ==
  ASSUME NEW q \in Request
  PROVE  q.server \in Servers /\ q.endpoint \in Endpoints
BY DEF Request, RequestTo

\* The servers resolved and those sent the as_token.
TokensTyped ==
    /\ api \in [Requests -> Servers \cup {NoServer}]
    /\ tokenSent \subseteq [by : Requests, server : Servers \cup {NoServer}]

LEMMA SentIs ==
  ASSUME TypeOK, NEW r \in Requests
  PROVE  Sent(r) \in [by : Requests, server : Servers \cup {NoServer}]
BY DEF TypeOK, Sent

LEMMA TypedTokens ==
  ASSUME TypeOK, NEW r \in Requests,
         \/ AsksHomeserver(r)
         \/ UNCHANGED <<api, tokenSent>>
         \/ api' = api /\ tokenSent' \in {tokenSent, tokenSent \cup {Sent(r)}}
  PROVE  TokensTyped'
<1> DEFINE Tokens == [by : Requests, server : Servers \cup {NoServer}]
           sent == Sent(r)
<1>1. sent \in Tokens
  BY SentIs
<1>2. tokenSent \subseteq Tokens /\ api \in [Requests -> Servers \cup {NoServer}]
  BY DEF TypeOK
<1>3. tokenSent' = tokenSent \/ tokenSent' = tokenSent \cup {sent}
  BY DEF AsksHomeserver
<1>4. api' = api
  BY DEF AsksHomeserver
<1> HIDE DEF Tokens, sent
<1>5. tokenSent' \subseteq Tokens
  BY <1>1, <1>2, <1>3
<1> QED
  BY <1>2, <1>4, <1>5 DEF TokensTyped, Tokens

\* A step that leaves nothing behind, and that a request passes only if what it
\* looks at holds.
CheckStep(r) ==
    /\ todo[r] # <<>> /\ Head(todo[r]) \notin EffectSteps
    /\ \/ /\ Pass(r)
          /\ Head(todo[r]) \in Checks(request[r]) => Holds(r, Head(todo[r]))
       \/ \E status \in {Ok} \cup Refusals :
            /\ Refuse(r, status)
            /\ status = Ok => request[r].method = "OPTIONS"
    /\ UNCHANGED environmentVars
    /\ UNCHANGED <<rooms, jobs, granted, relayed>>
    /\ TokensTyped'

LEMMA CheckStepSound ==
  ASSUME SoundInv, NEW r \in Requests, CheckStep(r)
  PROVE  SoundInv'
<1>1. CASE Pass(r) /\ (Head(todo[r]) \in Checks(request[r])
                            => Holds(r, Head(todo[r])))
  <2>1. /\ todo[r] # <<>> /\ Head(todo[r]) \notin EffectSteps
        /\ UNCHANGED environmentVars /\ UNCHANGED <<rooms, jobs, granted, relayed>>
        /\ TokensTyped'
    BY DEF CheckStep
  <2>2. Sound(r)'
    BY <1>1, <2>1, PassSound
  <2>3. /\ todo' \in [Requests -> Seq(Step)]
        /\ reply' \in [Requests -> {NoReply, Ok, Gone} \cup Refusals]
        /\ \A s \in Requests \ {r} : todo'[s] = todo[s] /\ reply'[s] = reply[s]
    BY <1>1, <2>1, PassIs DEF SoundInv
  <2>4. TypeOK'
    BY <2>1, <2>3 DEF SoundInv, TypeOK, environmentVars, TokensTyped
  <2>5. \A s \in Requests \ {r} : Sound(s)'
    BY <2>1, <2>3, OthersSound
  <2> QED
    BY <2>2, <2>4, <2>5 DEF SoundInv
<1>2. ASSUME NEW status \in {Ok} \cup Refusals, Refuse(r, status),
             status = Ok => request[r].method = "OPTIONS"
      PROVE  SoundInv'
  <2>1. /\ todo[r] # <<>> /\ Head(todo[r]) \notin EffectSteps
        /\ UNCHANGED environmentVars /\ UNCHANGED <<rooms, jobs, granted, relayed>>
        /\ TokensTyped'
    BY DEF CheckStep
  <2>2. r \notin rooms
    BY <2>1, ActingIs DEF EffectSteps
  <2>3. Sound(r)'
    BY <1>2, <2>1, <2>2, RefuseSound
  <2>4. TypeOK /\ status \in {Ok, Gone} \cup Refusals
    BY DEF SoundInv
  <2>5. /\ todo' \in [Requests -> Seq(Step)]
        /\ reply' \in [Requests -> {NoReply, Ok, Gone} \cup Refusals]
        /\ \A s \in Requests \ {r} : todo'[s] = todo[s] /\ reply'[s] = reply[s]
    BY <1>2, <2>4, RefuseIs
  <2>6. TypeOK'
    BY <2>1, <2>4, <2>5 DEF TypeOK, environmentVars, TokensTyped
  <2>7. \A s \in Requests \ {r} : Sound(s)'
    BY <2>1, <2>5, OthersSound
  <2> QED
    BY <2>3, <2>6, <2>7 DEF SoundInv
<1> QED
  BY <1>1, <1>2 DEF CheckStep

\* Each check without an await is such a step, and so are the calls that ask
\* where a homeserver is and whose an OpenID token is.
LEMMA CheckIs ==
  ASSUME TypeOK, NEW r \in Requests, NEW step \in Step \ EffectSteps,
         NEW status \in {Ok} \cup Refusals, At(r, step),
         \/ Pass(r) /\ Holds(r, step)
         \/ Pass(r) /\ step \notin Checks(request[r])
         \/ Refuse(r, status) /\ (status = Ok => request[r].method = "OPTIONS"),
         UNCHANGED <<environmentVars, effectVars>>
  PROVE  CheckStep(r)
<1>1. TokensTyped'
  BY TypedTokens DEF effectVars
<1> QED
  BY <1>1 DEF CheckStep, At, effectVars

LEMMA PlainChecks ==
  ASSUME TypeOK, NEW r \in Requests,
         \/ gate_post(r) \/ verify_hs_token(r) \/ decode_json_body(r)
         \/ require_non_empty_header(r) \/ require_matching_lk_url(r)
         \/ matrix_server_name(r) \/ require_origin(r)
  PROVE  CheckStep(r)
<1> USE DEF Step, EffectSteps, Ok, Refusals
<1>1. CASE gate_post(r)
  <2> DEFINE status == IF request[r].method = "OPTIONS" THEN Ok ELSE 405
  <2>1. status \in {Ok} \cup Refusals /\ (status = Ok => request[r].method = "OPTIONS")
    OBVIOUS
  <2>2. /\ At(r, "gate") /\ UNCHANGED <<environmentVars, effectVars>>
        /\ \/ Pass(r) /\ Holds(r, "gate")
           \/ Refuse(r, status)
    BY <1>1 DEF gate_post, Check, Holds
  <2> HIDE DEF status
  <2> QED
    BY <2>1, <2>2, CheckIs
<1>2. CASE verify_hs_token(r)
  <2>1. /\ At(r, "hs_token") /\ UNCHANGED <<environmentVars, effectVars>>
        /\ \/ Pass(r) /\ Holds(r, "hs_token")
           \/ Refuse(r, 401)
    BY <1>2 DEF verify_hs_token, Check, Holds
  <2> QED
    BY <2>1, CheckIs
<1>3. CASE decode_json_body(r)
  <2>1. /\ At(r, "body") /\ UNCHANGED <<environmentVars, effectVars>>
        /\ \/ Pass(r) /\ Holds(r, "body")
           \/ Refuse(r, 400)
    BY <1>3 DEF decode_json_body, Check, Holds
  <2> QED
    BY <2>1, CheckIs
<1>4. CASE require_non_empty_header(r)
  <2>1. /\ At(r, "header") /\ UNCHANGED <<environmentVars, effectVars>>
        /\ \/ Pass(r) /\ Holds(r, "header")
           \/ Refuse(r, 401)
    BY <1>4 DEF require_non_empty_header, Check, Holds
  <2> QED
    BY <2>1, CheckIs
<1>5. CASE require_matching_lk_url(r)
  <2>1. /\ At(r, "url") /\ UNCHANGED <<environmentVars, effectVars>>
        /\ \/ Pass(r) /\ Holds(r, "url")
           \/ Refuse(r, 400)
    BY <1>5 DEF require_matching_lk_url, Check, Holds
  <2> QED
    BY <2>1, CheckIs
<1>6. CASE matrix_server_name(r)
  <2>1. /\ At(r, "user_id") /\ UNCHANGED <<environmentVars, effectVars>>
        /\ \/ Pass(r) /\ Holds(r, "user_id")
           \/ Refuse(r, 400)
    BY <1>6 DEF matrix_server_name, Check, Holds
  <2> QED
    BY <2>1, CheckIs
<1>7. CASE require_origin(r)
  <2>1. /\ At(r, "origin") /\ UNCHANGED <<environmentVars, effectVars>>
        /\ \/ Pass(r) /\ Holds(r, "origin")
           \/ Refuse(r, 403)
    BY <1>7 DEF require_origin, Check, Holds
  <2> QED
    BY <2>1, CheckIs
<1> QED
  BY <1>1, <1>2, <1>3, <1>4, <1>5, <1>6, <1>7

LEMMA OpenidIsCheck ==
  ASSUME TypeOK, NEW r \in Requests, verify_openid_token(r)
  PROVE  CheckStep(r)
<1> DEFINE q == request[r]
           token == [access_token |-> "token", matrix_server_name |-> q.server]
<1>1. PICK answer \in UserInfo(q) :
        LET subs == exchange_openid_userinfo(token, answer)
        IN Check(r, "openid", subs = {"genuine"} /\ MayDelegate(q),
                 IF subs # {"genuine"} THEN 401
                 ELSE IF q.endpoint = "delegate" THEN 403 ELSE 400)
  BY DEF verify_openid_token
<1> DEFINE subs == exchange_openid_userinfo(token, answer)
           status == IF subs # {"genuine"} THEN 401
                     ELSE IF q.endpoint = "delegate" THEN 403 ELSE 400
           passes == subs = {"genuine"} /\ MayDelegate(q)
<1>2. subs = {"genuine"} => q.sender = "genuine"
  <2>1. answer.sub = "none" \/ answer.sub = q.sender
    BY DEF UserInfo
  <2>2. subs \subseteq {answer.sub}
    BY DEF exchange_openid_userinfo
  <2> QED
    BY <2>1, <2>2
<1>3. /\ At(r, "openid") /\ UNCHANGED <<environmentVars, effectVars>>
      /\ \/ Pass(r) /\ passes
         \/ Refuse(r, status)
  BY <1>1 DEF Check
<1>4. status \in Refusals /\ status # Ok
  BY DEF Refusals, Ok
<1>5. passes => Holds(r, "openid")
  BY <1>2 DEF Holds
<1> HIDE DEF subs, status, passes
<1> QED
  BY <1>3, <1>4, <1>5, CheckIs DEF Step, EffectSteps

LEMMA ResolvedIsServer ==
  ASSUME NEW q \in Request, NEW step
  PROVE  resolved_server(q, step) \in Servers
BY RequestIs, ServersAssumption DEF resolved_server

\* What a request does that resolves a homeserver.
LEMMA ResolveIs ==
  ASSUME NEW r \in Requests, resolve_cs_api_url(r)
  PROVE  \E step \in {"resolve", "legacy_resolve"} :
            /\ At(r, step)
            /\ \/ /\ Pass(r)
                  /\ api' = [api EXCEPT ![r] = resolved_server(request[r], step)]
               \/ (Refuse(r, 400) \/ Refuse(r, 502)) /\ UNCHANGED api
            /\ UNCHANGED <<environmentVars, rooms, jobs, granted, tokenSent, relayed>>
BY DEF resolve_cs_api_url

LEMMA ResolveIsCheck ==
  ASSUME SoundInv, NEW r \in Requests, resolve_cs_api_url(r)
  PROVE  CheckStep(r)
<1>1. PICK step \in {"resolve", "legacy_resolve"} :
        /\ At(r, step)
        /\ \/ /\ Pass(r)
              /\ api' = [api EXCEPT ![r] = resolved_server(request[r], step)]
           \/ (Refuse(r, 400) \/ Refuse(r, 502)) /\ UNCHANGED api
        /\ UNCHANGED <<environmentVars, rooms, jobs, granted, tokenSent, relayed>>
  BY ResolveIs, Zenon
<1>2. step \notin Checks(request[r]) /\ step \notin EffectSteps
  BY DEF Checks, EffectSteps
<1>3. TokensTyped'
  <2> DEFINE server == resolved_server(request[r], step)
  <2>1. server \in Servers
    BY <1>1, ActingIs, ResolvedIsServer DEF At
  <2>2. /\ api \in [Requests -> Servers \cup {NoServer}]
        /\ tokenSent \subseteq [by : Requests, server : Servers \cup {NoServer}]
    BY DEF SoundInv, TypeOK
  <2>3. api' = api \/ api' = [api EXCEPT ![r] = server]
    BY <1>1
  <2> HIDE DEF server
  <2>4. api' \in [Requests -> Servers \cup {NoServer}]
    BY <2>1, <2>2, <2>3
  <2> QED
    BY <1>1, <2>2, <2>4 DEF TokensTyped
<1> QED
  BY <1>1, <1>2, <1>3 DEF CheckStep, At, Refusals, Ok

\* Whoever is found in the Matrix room has been there since the request arrived.
LEMMA JoinedIsCheck ==
  ASSUME SoundInv, NEW r \in Requests,
         RequireJoined(r) \/ enforce_legacy_membership(r)
  PROVE  CheckStep(r)
<1>1. PICK step, subject :
        /\ step \in Step \ EffectSteps /\ require_joined(r, step, subject)
        /\ step \in Checks(request[r]) /\ subject \in seenJoined[r]
                => Holds(r, step)
  <2>1. PICK step, subject :
            /\ require_joined(r, step, subject)
            /\ \/ step \in {"user_joined", "legacy_member"} /\ subject = r
               \/ step = "target_joined" /\ subject = request[r].server
               \/ step = "ours_joined" /\ subject = Ours
    BY DEF RequireJoined, enforce_legacy_membership
  <2>2. step \in Step \ EffectSteps
    BY <2>1 DEF Step, EffectSteps
  <2>3. subject \in seenJoined[r] => Holds(r, step)
    BY <2>1 DEF Holds
  <2> QED
    BY <2>1, <2>2, <2>3
<1>2. /\ todo[r] # <<>> /\ Head(todo[r]) = step /\ AsksHomeserver(r)
      /\ relayed' = relayed
  BY <1>1 DEF require_joined, At
<1>3. /\ UNCHANGED environmentVars /\ UNCHANGED <<rooms, jobs, granted>>
      /\ TokensTyped'
  BY <1>2, TypedTokens DEF AsksHomeserver, SoundInv
<1>4. PICK answer \in Membership(subject) :
        CASE is_joined(answer) = "joined"     -> Pass(r)
          [] is_joined(answer) = "not_joined" -> Refuse(r, 403)
          [] OTHER                            -> Refuse(r, 502)
  BY <1>1 DEF require_joined
<1>5. is_joined(answer) = "joined" => subject \in joined
  <2>1. is_joined(answer) = "joined" => answer.body = "joined"
    BY DEF is_joined
  <2> QED
    BY <2>1 DEF Membership
<1>6. \/ Pass(r) /\ subject \in joined
      \/ Refuse(r, 403) \/ Refuse(r, 502)
  BY <1>4, <1>5 DEF is_joined
<1>7. joined \subseteq seenJoined[r]
  BY <1>2, ActingIs
<1>8. \/ Pass(r) /\ (step \in Checks(request[r]) => Holds(r, step))
      \/ Refuse(r, 403) \/ Refuse(r, 502)
  BY <1>1, <1>6, <1>7
<1>9. Head(todo[r]) \notin EffectSteps
  BY <1>1, <1>2
<1> QED
  BY <1>2, <1>3, <1>8, <1>9 DEF CheckStep, Refusals, Ok

LEMMA LookUpIsCheck ==
  ASSUME TypeOK, NEW r \in Requests, look_up_delay_timeout(r)
  PROVE  CheckStep(r)
<1>1. /\ todo[r] # <<>> /\ Head(todo[r]) = "look_up_delay" /\ AsksHomeserver(r)
      /\ relayed' = relayed
  BY DEF look_up_delay_timeout, At
<1>2. Pass(r) \/ Refuse(r, 400) \/ Refuse(r, 503)
  <2>1. PICK answer \in DelayAnswers :
            LET result == get_delayed_event_delay("this", answer)
            IN CASE result = "Ok"                   -> Pass(r)
                 [] result = "DelayedEventNotFound" -> Refuse(r, 400)
                 [] OTHER                           -> Refuse(r, 503)
    BY DEF look_up_delay_timeout
  <2> QED
    BY <2>1
<1>3. /\ UNCHANGED environmentVars /\ UNCHANGED <<rooms, jobs, granted>>
      /\ TokensTyped'
  BY <1>1, TypedTokens DEF AsksHomeserver
<1>4. Head(todo[r]) \notin Checks(request[r]) /\ Head(todo[r]) \notin EffectSteps
  BY <1>1 DEF Checks, EffectSteps
<1> QED
  BY <1>1, <1>2, <1>3, <1>4 DEF CheckStep, Refusals, Ok

LEMMA PingIsCheck ==
  ASSUME TypeOK, NEW r \in Requests, trigger_appservice_ping(r)
  PROVE  CheckStep(r)
<1>1. /\ todo[r] # <<>> /\ Head(todo[r]) = "ping" /\ AsksHomeserver(r)
      /\ relayed' = relayed
      /\ Pass(r) \/ \E status \in Refusals : Refuse(r, status)
  BY DEF trigger_appservice_ping, At
<1>2. /\ UNCHANGED environmentVars /\ UNCHANGED <<rooms, jobs, granted>>
      /\ TokensTyped'
  BY <1>1, TypedTokens DEF AsksHomeserver
<1>3. Head(todo[r]) \notin Checks(request[r]) /\ Head(todo[r]) \notin EffectSteps
  BY <1>1 DEF Checks, EffectSteps
<1> QED
  BY <1>1, <1>2, <1>3 DEF CheckStep, Refusals, Ok

-----------------------------------------------------------------------------
(* The steps that leave something behind. *)

\* Such a step of a request is sound if its outcome is, since all checks are
\* behind it.
LEMMA EffectStepSound ==
  ASSUME SoundInv, NEW r \in Requests, todo[r] # <<>>,
         Head(todo[r]) \in EffectSteps, UNCHANGED environmentVars, TypeOK',
         Fits(request[r], todo'[r]), UnderWay(r)', Outcome(r)',
         relayed'[r] \in {0, 1},
         \A s \in Requests \ {r} :
            /\ todo'[s] = todo[s] /\ reply'[s] = reply[s]
            /\ granted'[s] = granted[s] /\ relayed'[s] = relayed[s]
            /\ s \in rooms' <=> s \in rooms,
         \A job : job.of # r => (job \in jobs' <=> job \in jobs)
  PROVE  SoundInv'
<1>1. request[r] # NoRequest /\ request[r] \in Request /\ Received(request[r])
  BY ActingIs
<1>2. /\ request'[r] = request[r]
      /\ Fits(request[r], todo[r])' /\ Received(request[r])'
  BY <1>1, RequestStays
<1>3. Guarded(r)'
  <2> SUFFICES ASSUME NEW c \in Checks(request[r]) PROVE Holds(r, c)'
    BY RequestStays DEF Guarded
  <2> QED
    BY AllChecked, RequestStays
<1>4. request'[r] # NoRequest /\ request'[r] \in Request
  BY <1>1, <1>2
<1>5. Sound(r)'
  BY <1>2, <1>3, <1>4 DEF Sound
<1>6. \A s \in Requests \ {r} : Sound(s)'
  BY OthersSound
<1> QED
  BY <1>5, <1>6 DEF SoundInv

LEMMA MintSound ==
  ASSUME SoundInv, NEW r \in Requests, get_join_token(r)
  PROVE  SoundInv'
<1> DEFINE q == request[r]
           t == todo[r]
           u == Tail(t)
<1>1. /\ t # <<>> /\ Head(t) = "mint" /\ Head(t) \in EffectSteps
      /\ UNCHANGED environmentVars /\ UNCHANGED <<rooms, jobs, api, tokenSent, relayed>>
  BY DEF get_join_token, At, EffectSteps
<1>2. /\ q # NoRequest /\ q \in Request /\ Received(q)
      /\ t \in Seq(Step) /\ Fits(q, t) /\ Outcome(r)
      /\ reply[r] = NoReply /\ relayed[r] = 0 /\ ~HasJob(r)
      /\ joined \subseteq seenJoined[r]
      /\ Publishes(q) => r \in rooms \/ Has(t, "create_room")
      /\ r \in rooms => t = <<"add_job">>
  BY <1>1, ActingIs
<1>3. r \notin rooms
  BY <1>1, <1>2
<1>4. Mints(q) /\ Fits(q, u)
  BY <1>1, <1>2, FitsHead, FitsTail
<1>5. Publishes(q) => u # <<>> /\ Has(u, "create_room")
  BY <1>1, <1>2, <1>3, HasTail
<1>6. CASE Pass(r) /\ granted' = [granted EXCEPT ![r] =
                IF can_publish(request[r]) THEN "publish" ELSE "subscribe"]
  <2>1. /\ todo' \in [Requests -> Seq(Step)]
        /\ reply' \in [Requests -> {NoReply, Ok, Gone} \cup Refusals]
        /\ todo'[r] = u /\ reply'[r] = IF u = <<>> THEN Ok ELSE NoReply
        /\ \A s \in Requests \ {r} : todo'[s] = todo[s] /\ reply'[s] = reply[s]
    BY <1>1, <1>2, <1>6, PassIs DEF SoundInv
  <2>2. /\ granted' \in [Requests -> {"none", "subscribe", "publish"}]
        /\ granted'[r] # "none" /\ (granted'[r] = "publish" => can_publish(q))
        /\ \A s \in Requests \ {r} : granted'[s] = granted[s]
    BY <1>6 DEF SoundInv, TypeOK
  <2>3. TypeOK'
    BY <1>1, <2>1, <2>2 DEF SoundInv, TypeOK, environmentVars
  <2>4. /\ Publishes(request[r])' <=> Publishes(q)
        /\ HasJob(r)' <=> HasJob(r)
    BY <1>1, RequestStays DEF HasJob
  <2>5. UnderWay(r)'
    <3>1. /\ u # <<>> => reply'[r] = NoReply
          /\ relayed'[r] = 0 /\ ~HasJob(r)' /\ r \notin rooms'
          /\ (joined \subseteq seenJoined[r])'
      BY <1>1, <1>2, <1>3, <2>1, <2>4 DEF environmentVars
    <3>2. Publishes(request[r])' => Has(todo[r], "create_room")'
      BY <1>5, <2>1, <2>4 DEF Has
    <3> QED
      BY <2>1, <2>2, <3>1, <3>2 DEF UnderWay
  <2>6. Outcome(r)'
    <3>1. /\ reply'[r] \notin Refusals
          /\ r \notin rooms' /\ ~HasJob(r)'
      BY <1>1, <1>2, <1>3, <2>1, <2>4 DEF Refusals, Ok, NoReply
    <3>2. granted'[r] = "publish" => Publishes(request[r])'
      BY <1>4, <2>2, <2>4 DEF Publishes
    <3>3. reply'[r] = Ok => u = <<>>
      BY <2>1 DEF Ok, NoReply
    <3> QED
      BY <1>5, <2>4, <3>1, <3>2, <3>3 DEF Outcome, HasJob
  <2>7. Fits(request[r], todo'[r])
    BY <1>4, <2>1
  <2> QED
    BY <1>1, <1>2, <2>1, <2>2, <2>3, <2>5, <2>6, <2>7, EffectStepSound
<1>7. CASE Refuse(r, 500) /\ UNCHANGED granted
  <2>1. 500 \in {Ok} \cup Refusals /\ 500 # Ok
    BY DEF Refusals, Ok
  <2>2. Sound(r)'
    BY <1>1, <1>3, <1>7, <2>1, RefuseSound
  <2>3. TypeOK /\ 500 \in {Ok, Gone} \cup Refusals
    BY <2>1 DEF SoundInv
  <2>4. /\ todo' \in [Requests -> Seq(Step)]
        /\ reply' \in [Requests -> {NoReply, Ok, Gone} \cup Refusals]
        /\ \A s \in Requests \ {r} : todo'[s] = todo[s] /\ reply'[s] = reply[s]
    BY <1>7, <2>3, RefuseIs
  <2>5. TypeOK'
    BY <1>1, <1>7, <2>3, <2>4 DEF TypeOK, environmentVars
  <2>6. \A s \in Requests \ {r} : Sound(s)'
    BY <1>1, <1>7, <2>4, OthersSound
  <2> QED
    BY <2>2, <2>5, <2>6 DEF SoundInv
<1> QED
  BY <1>6, <1>7 DEF get_join_token

LEMMA CreateRoomSound ==
  ASSUME SoundInv, NEW r \in Requests, create_livekit_room(r)
  PROVE  SoundInv'
<1> DEFINE q == request[r]
           t == todo[r]
           u == Tail(t)
<1>1. /\ t # <<>> /\ Head(t) = "create_room" /\ Head(t) \in EffectSteps
      /\ UNCHANGED environmentVars /\ UNCHANGED <<jobs, api, granted, tokenSent, relayed>>
  BY DEF create_livekit_room, At, EffectSteps
<1>2. /\ t \in Seq(Step) /\ Fits(q, t) /\ Outcome(r)
      /\ reply[r] = NoReply /\ relayed[r] = 0 /\ ~HasJob(r)
      /\ joined \subseteq seenJoined[r]
      /\ Mints(q) => granted[r] # "none" \/ Has(t, "mint")
  BY <1>1, ActingIs
<1>3. /\ Fits(q, u) /\ Mints(q)
      /\ u = <<>> \/ (u = <<"add_job">> /\ Delegates(q))
      /\ q.endpoint \in Standalone => is_full_access_user(q.server)
  BY <1>1, <1>2, FitsHead, FitsTail
<1>0. granted[r] # "none"
  <2>1. ~Has(<<>>, "mint") /\ ~Has(<<"add_job">>, "mint")
    BY DEF Has
  <2>2. ~Has(u, "mint")
    BY <1>3, <2>1, Zenon
  <2> QED
    BY <1>1, <1>2, <1>3, <2>2, HasTail
<1>4. /\ request'[r] = q
      /\ HasJob(r)' <=> HasJob(r)
      /\ Publishes(request[r])' <=> Publishes(q)
      /\ is_full_access_user(request[r].server)' <=> is_full_access_user(q.server)
  BY <1>1, RequestStays DEF HasJob
<1>5. granted'[r] = "publish" => Publishes(request[r])'
  BY <1>1, <1>2, <1>4 DEF Outcome
<1>6. CASE Pass(r) /\ rooms' = rooms \cup {r}
  <2>1. /\ todo' \in [Requests -> Seq(Step)]
        /\ reply' \in [Requests -> {NoReply, Ok, Gone} \cup Refusals]
        /\ todo'[r] = u /\ reply'[r] = IF u = <<>> THEN Ok ELSE NoReply
        /\ \A s \in Requests \ {r} : todo'[s] = todo[s] /\ reply'[s] = reply[s]
    BY <1>1, <1>2, <1>6, PassIs DEF SoundInv
  <2>2. TypeOK'
    BY <1>1, <1>6, <2>1 DEF SoundInv, TypeOK, environmentVars
  <2>3. UnderWay(r)'
    BY <1>0, <1>1, <1>2, <1>3, <1>4, <1>6, <2>1
       DEF UnderWay, environmentVars, Delegates
  <2>4. Outcome(r)'
    <3>1. reply'[r] \notin Refusals /\ r \in rooms' /\ ~HasJob(r)'
      BY <1>2, <1>4, <1>6, <2>1 DEF Refusals, Ok, NoReply
    <3> QED
      BY <1>3, <1>4, <1>5, <3>1 DEF Outcome, HasJob
  <2>5. Fits(request[r], todo'[r])
    BY <1>3, <2>1
  <2> QED
    BY <1>1, <1>2, <1>6, <2>1, <2>2, <2>3, <2>4, <2>5, EffectStepSound
<1>7. CASE Refuse(r, 500) /\ rooms' \in {rooms, rooms \cup {r}}
  <2>1. TypeOK /\ 500 \in {Ok, Gone} \cup Refusals
    BY DEF SoundInv, Refusals
  <2>2. /\ todo' \in [Requests -> Seq(Step)]
        /\ reply' \in [Requests -> {NoReply, Ok, Gone} \cup Refusals]
        /\ todo'[r] = <<>> /\ reply'[r] = 500
        /\ \A s \in Requests \ {r} : todo'[s] = todo[s] /\ reply'[s] = reply[s]
    BY <1>7, <2>1, RefuseIs
  <2>3. TypeOK'
    BY <1>1, <1>7, <2>1, <2>2 DEF TypeOK, environmentVars
  <2>4. UnderWay(r)'
    BY <2>2 DEF UnderWay
  <2>5. Outcome(r)'
    <3>1. /\ reply'[r] = 500 /\ reply'[r] # Ok /\ ~HasJob(r)'
          /\ granted'[r] # "none"
      BY <1>0, <1>1, <1>2, <1>4, <2>2 DEF Ok
    <3> QED
      BY <1>3, <1>4, <1>5, <3>1 DEF Outcome, HasJob
  <2>6. Fits(request[r], todo'[r])
    BY <2>2 DEF Fits
  <2>7. /\ \A s \in Requests \ {r} :
              /\ granted'[s] = granted[s] /\ relayed'[s] = relayed[s]
              /\ s \in rooms' <=> s \in rooms
        /\ \A job : job \in jobs' <=> job \in jobs
        /\ relayed'[r] \in {0, 1}
    BY <1>1, <1>2, <1>7
  <2> QED
    BY <1>1, <2>2, <2>3, <2>4, <2>5, <2>6, <2>7, EffectStepSound
<1> QED
  BY <1>6, <1>7 DEF create_livekit_room

\* A hand-over adds a job of this request, on the server of its user.
LEMMA HandOverIs ==
  ASSUME SoundInv, NEW r \in Requests, request[r] \in Request, Received(request[r]),
         ~HasJob(r), HandOver(r)
  PROVE  /\ jobs' \subseteq [of : Requests, server : Servers, owned : BOOLEAN]
         /\ HasJob(r)'
         /\ \A job \in jobs' : job.of = r => job.server = request[r].server
         /\ \A job : job.of # r => (job \in jobs' <=> job \in jobs)
<1> DEFINE new == DelayedEventJobParams(r)
<1>1. jobs' = jobs \cup {new}
  BY DEF HandOver
<1>2. /\ new \in [of : Requests, server : Servers, owned : BOOLEAN]
      /\ new.of = r /\ new.server = request[r].server
  <2> DEFINE q == request[r]
             owned == owner_user_id_for(q.server)
  <2>1. owned \in BOOLEAN /\ q.server \in Servers
    BY RequestIs DEF owner_user_id_for
  <2>2. q.endpoint = "delegate_cs" => q.server = Ours
    BY DEF Received
  <2>3. \/ q.endpoint = "delegate_cs" /\ new = [of |-> r, server |-> Ours, owned |-> TRUE]
        \/ new = [of |-> r, server |-> q.server, owned |-> owned]
    BY DEF DelayedEventJobParams
  <2>4. ASSUME NEW server \in Servers, NEW b \in BOOLEAN,
               new = [of |-> r, server |-> server, owned |-> b]
        PROVE  /\ new \in [of : Requests, server : Servers, owned : BOOLEAN]
               /\ new.of = r /\ new.server = server
    BY <2>4
  <2> HIDE DEF new, owned
  <2>5. CASE new = [of |-> r, server |-> q.server, owned |-> owned]
    BY <2>1, <2>4, <2>5
  <2>6. CASE /\ q.endpoint = "delegate_cs"
             /\ new = [of |-> r, server |-> Ours, owned |-> TRUE]
    BY <2>2, <2>4, <2>6, ServersAssumption
  <2> QED
    BY <2>3, <2>5, <2>6
<1>4. \A job \in jobs : job.of # r
  BY DEF HasJob
<1> HIDE DEF new
<1>5. jobs \subseteq [of : Requests, server : Servers, owned : BOOLEAN]
  BY DEF SoundInv, TypeOK
<1> QED
  BY <1>1, <1>2, <1>4, <1>5 DEF HasJob

LEMMA AddJobSound ==
  ASSUME SoundInv, NEW r \in Requests, add_delayed_event_job(r)
  PROVE  SoundInv'
<1> DEFINE q == request[r]
           t == todo[r]
           u == Tail(t)
<1>1. /\ t # <<>> /\ Head(t) = "add_job" /\ Head(t) \in EffectSteps
      /\ UNCHANGED environmentVars /\ UNCHANGED <<rooms, api, granted, tokenSent, relayed>>
  BY DEF add_delayed_event_job, At, EffectSteps
<1>2. /\ q \in Request /\ Received(q) /\ t \in Seq(Step) /\ Fits(q, t) /\ Outcome(r)
      /\ reply[r] = NoReply /\ relayed[r] = 0 /\ ~HasJob(r)
      /\ r \in rooms => Delegates(q)
  BY <1>1, ActingIs
<1>3. /\ u = <<>>
      /\ \/ q.endpoint \in {"delegate", "delegate_cs"}
         \/ /\ q.endpoint \in Standalone
            /\ is_full_access_user(q.server) /\ Delegates(q)
  BY <1>1, <1>2, FitsHead DEF FinalSteps
<1>4. Publishes(q) => r \in rooms
  BY <1>1, <1>3, NoRoomLater
<1>5. /\ request'[r] = q
      /\ Publishes(request[r])' <=> Publishes(q)
      /\ is_full_access_user(request[r].server)' <=> is_full_access_user(q.server)
  BY <1>1, RequestStays
<1>6. granted'[r] = "publish" => Publishes(request[r])'
  BY <1>1, <1>2, <1>5 DEF Outcome
<1>7. r \in rooms' /\ q.endpoint \in Standalone => is_full_access_user(q.server)
  BY <1>1, <1>2 DEF Outcome
<1>8. CASE Pass(r) /\ HandOver(r)
  <2>1. /\ todo' \in [Requests -> Seq(Step)]
        /\ reply' \in [Requests -> {NoReply, Ok, Gone} \cup Refusals]
        /\ todo'[r] = <<>> /\ reply'[r] = Ok
        /\ \A s \in Requests \ {r} : todo'[s] = todo[s] /\ reply'[s] = reply[s]
    BY <1>1, <1>3, <1>8, PassIs DEF SoundInv
  <2>2. /\ jobs' \subseteq [of : Requests, server : Servers, owned : BOOLEAN]
        /\ HasJob(r)'
        /\ \A job \in jobs' : job.of = r => job.server = q.server
        /\ \A job : job.of # r => (job \in jobs' <=> job \in jobs)
    BY <1>2, <1>8, HandOverIs
  <2>3. TypeOK'
    BY <1>1, <2>1, <2>2 DEF SoundInv, TypeOK, environmentVars
  <2>4. UnderWay(r)'
    BY <2>1 DEF UnderWay
  <2>5. Outcome(r)'
    <3>1. reply'[r] = Ok /\ reply'[r] \notin Refusals
      BY <2>1 DEF Refusals, Ok
    <3>2. Publishes(request[r])' => r \in rooms'
      BY <1>1, <1>4, <1>5
    <3> QED
      BY <1>3, <1>5, <1>6, <1>7, <2>2, <3>1, <3>2 DEF Outcome, Delegates
  <2>6. Fits(request[r], todo'[r])
    BY <2>1 DEF Fits
  <2> QED
    BY <1>1, <1>2, <2>1, <2>2, <2>3, <2>4, <2>5, <2>6, EffectStepSound
<1>9. CASE /\ shutdown /\ UNCHANGED jobs
           /\ Refuse(r, matrix_error_for_add_job("Shutdown"))
  <2>1. 503 \in {Ok} \cup Refusals /\ 503 # Ok
        /\ matrix_error_for_add_job("Shutdown") = 503
    BY DEF Refusals, Ok, matrix_error_for_add_job
  <2>2. Sound(r)'
    BY <1>1, <1>9, <2>1, RefuseSound
  <2>3. TypeOK /\ 503 \in {Ok, Gone} \cup Refusals
    BY <2>1 DEF SoundInv
  <2>4. /\ todo' \in [Requests -> Seq(Step)]
        /\ reply' \in [Requests -> {NoReply, Ok, Gone} \cup Refusals]
        /\ \A s \in Requests \ {r} : todo'[s] = todo[s] /\ reply'[s] = reply[s]
    BY <1>9, <2>1, <2>3, RefuseIs
  <2>5. TypeOK'
    BY <1>1, <1>9, <2>3, <2>4 DEF TypeOK, environmentVars
  <2>6. \A s \in Requests \ {r} : Sound(s)'
    BY <1>1, <1>9, <2>4, OthersSound
  <2> QED
    BY <2>2, <2>5, <2>6 DEF SoundInv
<1> QED
  BY <1>8, <1>9 DEF add_delayed_event_job

\* A destination that has acted on a request knows its path.
LEMMA ActedIsRecognised ==
  ASSUME NEW answer \in ProxyAnswers(TRUE)
  PROVE  ~NotRecognised(post_via_fed_proxy(answer))
<1>1. answer.of \in DestinationAnswers(TRUE)
  BY DEF ProxyAnswers
<1>2. answer.of.status # 404 \/ answer.of.errcode = "M_NOT_FOUND"
  <2> DEFINE Done == [status : {200}, errcode : {""}, content : {"response", "other"}]
             Bad == [status : {400}, errcode : {"M_INVALID_PARAM", "M_BAD_JSON"},
                     content : {"error"}]
             Forbidden == [status : {403}, errcode : {"M_FORBIDDEN"},
                           content : {"error"}]
             NotFound == [status : {404}, errcode : {"M_NOT_FOUND"},
                          content : {"error"}]
             Failed == [status : {500, 502}, errcode : {"M_UNKNOWN"},
                        content : {"error"}]
  <2>1. DestinationAnswers(TRUE)
            = Done \cup Bad \cup Forbidden \cup NotFound \cup Failed
    BY Zenon DEF DestinationAnswers
  <2>2. /\ \A a \in Done : a.status = 200
        /\ \A a \in Bad : a.status = 400
        /\ \A a \in Forbidden : a.status = 403
        /\ \A a \in Failed : a.status \in {500, 502}
    BY Zenon
  <2>3. \A a \in NotFound : a.errcode = "M_NOT_FOUND"
    OBVIOUS
  <2> HIDE DEF Done, Bad, Forbidden, NotFound, Failed
  <2>4. answer.of \in Done \cup Bad \cup Forbidden \cup NotFound \cup Failed
    BY <1>1, <2>1, Zenon
  <2> QED
    BY <2>2, <2>3, <2>4
<1> DEFINE result == post_via_fed_proxy(answer)
<1>3. \/ result.kind \in {"Ok", "Other"}
      \/ result.status = answer.of.status /\ result.errcode = answer.of.errcode
  BY DEF post_via_fed_proxy, Relayed, Other, Destination
<1> HIDE DEF result
<1>4. ASSUME NEW code \in {"", "M_UNRECOGNIZED"}, result = Destination(404, code)
      PROVE  FALSE
  <2>1. /\ result.kind = "Destination"
        /\ result.status = 404 /\ result.errcode = code
    BY <1>4 DEF Destination
  <2> QED
    BY <1>2, <1>3, <2>1
<1> QED
  BY <1>4 DEF NotRecognised, result

LEMMA RelaySound ==
  ASSUME SoundInv, NEW r \in Requests, request_get_token_via_federation(r)
  PROVE  SoundInv'
<1> DEFINE q == request[r]
           t == todo[r]
           u == Tail(t)
<1>1. /\ t # <<>> /\ Head(t) \in {"relay", "relay_unstable"}
      /\ Head(t) \in EffectSteps /\ AsksHomeserver(r)
  BY DEF request_get_token_via_federation, At, EffectSteps
<1>2. /\ UNCHANGED environmentVars /\ UNCHANGED <<rooms, jobs, granted>>
      /\ TokensTyped'
  BY <1>1, TypedTokens DEF AsksHomeserver, SoundInv
<1>3. /\ t \in Seq(Step) /\ Fits(q, t) /\ Outcome(r)
      /\ reply[r] = NoReply /\ relayed[r] = 0 /\ ~HasJob(r)
      /\ joined \subseteq seenJoined[r]
      /\ r \in rooms => t = <<"add_job">>
  BY <1>1, ActingIs
<1>4. u = <<>> /\ r \notin rooms
  BY <1>1, <1>3, FitsHead DEF FinalSteps
<1>5. ~Publishes(q)
  BY <1>1, <1>4, NoRoomLater
<1>15. ~Mints(q) \/ granted[r] # "none"
  BY <1>1, <1>3, <1>4, ActingIs, HasTail
<1>6. /\ HasJob(r)' <=> HasJob(r)
      /\ Publishes(request[r])' <=> Publishes(q)
      /\ Mints(request[r])' <=> Mints(q)
  BY <1>2, RequestStays DEF HasJob
<1>7. granted'[r] # "publish"
  BY <1>2, <1>3, <1>5 DEF Outcome
<1>8. PICK acted \in BOOLEAN : \E answer \in ProxyAnswers(acted) :
        LET result == post_via_fed_proxy(answer)
        IN /\ relayed' = [relayed EXCEPT ![r] = @ + IF acted THEN 1 ELSE 0]
           /\ CASE result = Relayed -> Pass(r)
                [] At(r, "relay") /\ NotRecognised(result) ->
                    /\ todo' = [todo EXCEPT ![r] = <<"relay_unstable">>]
                    /\ UNCHANGED reply
                [] OTHER ->
                    Refuse(r, matrix_error_for_federation_token(result))
  BY DEF request_get_token_via_federation
<1>0. PICK answer \in ProxyAnswers(acted) :
        LET result == post_via_fed_proxy(answer)
        IN /\ relayed' = [relayed EXCEPT ![r] = @ + IF acted THEN 1 ELSE 0]
           /\ CASE result = Relayed -> Pass(r)
                [] At(r, "relay") /\ NotRecognised(result) ->
                    /\ todo' = [todo EXCEPT ![r] = <<"relay_unstable">>]
                    /\ UNCHANGED reply
                [] OTHER ->
                    Refuse(r, matrix_error_for_federation_token(result))
  BY <1>8
<1> DEFINE result == post_via_fed_proxy(answer)
<1>9. /\ relayed' \in [Requests -> 0..2]
      /\ relayed'[r] = IF acted THEN 1 ELSE 0
      /\ \A s \in Requests \ {r} : relayed'[s] = relayed[s]
  <2>1. relayed \in [Requests -> 0..2]
    BY DEF SoundInv, TypeOK
  <2>2. relayed' = [relayed EXCEPT ![r] = IF acted THEN 1 ELSE 0]
    BY <1>0, <1>3
  <2> QED
    BY <2>1, <2>2
<1>10. Outcome(r)' <=> \A job \in jobs' : job.of = r => job.server = q.server
  BY <1>2, <1>3, <1>4, <1>6, <1>7, RequestStays DEF Outcome
<1>11. Outcome(r)'
  BY <1>2, <1>3, <1>10 DEF HasJob
<1>12. CASE result = Relayed /\ Pass(r)
  <2>1. /\ todo' \in [Requests -> Seq(Step)]
        /\ reply' \in [Requests -> {NoReply, Ok, Gone} \cup Refusals]
        /\ todo'[r] = <<>>
        /\ \A s \in Requests \ {r} : todo'[s] = todo[s] /\ reply'[s] = reply[s]
    BY <1>1, <1>4, <1>12, PassIs DEF SoundInv
  <2>2. TypeOK'
    BY <1>2, <1>9, <2>1 DEF SoundInv, TypeOK, environmentVars, TokensTyped
  <2>3. /\ UnderWay(r)' /\ Fits(request[r], todo'[r])
        /\ relayed'[r] \in {0, 1}
    BY <1>9, <2>1 DEF UnderWay, Fits
  <2> QED
    BY <1>1, <1>2, <1>9, <1>11, <2>1, <2>2, <2>3, EffectStepSound
<1>13. CASE /\ NotRecognised(result) /\ UNCHANGED reply
            /\ todo' = [todo EXCEPT ![r] = <<"relay_unstable">>]
  <2> DEFINE last == <<"relay_unstable">>
             Steps == Seq(Step)
  <2>1. /\ last \in Steps /\ last # <<>> /\ DOMAIN last = 1 .. 1 /\ Len(last) = 1
        /\ last[1] = "relay_unstable" /\ last # <<"add_job">>
    BY DEF Step
  <2>2. todo \in [Requests -> Steps]
    BY DEF SoundInv, TypeOK
  <2> HIDE DEF last, Steps
  <2>3. /\ todo' \in [Requests -> Steps] /\ todo'[r] = last
        /\ \A s \in Requests \ {r} : todo'[s] = todo[s]
    BY <1>13, <2>1, <2>2 DEF last
  <2>4. TypeOK'
    BY <1>2, <1>9, <1>13, <2>3 DEF SoundInv, TypeOK, environmentVars, TokensTyped, Steps
  <2>5. ~acted
    BY <1>0, <1>13, ActedIsRecognised
  <2>6. UnderWay(r)'
    BY <1>2, <1>3, <1>4, <1>5, <1>6, <1>9, <1>13, <1>15, <2>5
       DEF UnderWay, environmentVars
  <2>7. Fits(request[r], todo'[r])
    BY <2>1, <2>3 DEF Fits
  <2>8. relayed'[r] \in {0, 1} /\ reply' = reply
    BY <1>9, <1>13
  <2> QED
    BY <1>1, <1>2, <1>9, <1>11, <2>3, <2>4, <2>6, <2>7, <2>8, EffectStepSound
<1>14. CASE Refuse(r, matrix_error_for_federation_token(result))
  <2> DEFINE status == matrix_error_for_federation_token(result)
  <2>1. status \in {Ok, Gone} \cup Refusals /\ TypeOK
    BY DEF matrix_error_for_federation_token, Refusals, SoundInv
  <2>2. Refuse(r, status)
    BY <1>14
  <2> HIDE DEF status
  <2>3. /\ todo' \in [Requests -> Seq(Step)]
        /\ reply' \in [Requests -> {NoReply, Ok, Gone} \cup Refusals]
        /\ todo'[r] = <<>>
        /\ \A s \in Requests \ {r} : todo'[s] = todo[s] /\ reply'[s] = reply[s]
    BY <2>1, <2>2, RefuseIs
  <2>4. TypeOK'
    BY <1>2, <1>9, <2>1, <2>3 DEF TypeOK, environmentVars, TokensTyped
  <2>5. UnderWay(r)' /\ Fits(request[r], todo'[r]) /\ relayed'[r] \in {0, 1}
    BY <1>9, <2>3 DEF UnderWay, Fits
  <2> QED
    BY <1>1, <1>2, <1>9, <1>11, <2>3, <2>4, <2>5, EffectStepSound
<1> QED
  BY <1>0, <1>12, <1>13, <1>14

\* A request that its client gives up has no answer to be wrong about; what it
\* asked for last may come all the same.
LEMMA HangUpSound ==
  ASSUME SoundInv, NEW r \in Requests, HangUp(r)
  PROVE  SoundInv'
<1> DEFINE q == request[r]
           t == todo[r]
<1>1. /\ t # <<>> /\ UNCHANGED environmentVars
      /\ UNCHANGED <<api, granted>> /\ Refuse(r, Gone)
      /\ tokenSent' \in {tokenSent, tokenSent \cup {Sent(r)}}
      /\ \/ relayed' = relayed
         \/ /\ Head(t) \in {"relay", "relay_unstable"}
            /\ relayed' = [relayed EXCEPT ![r] = @ + 1]
  BY DEF HangUp, Refuse, At
<1>2. /\ q # NoRequest /\ q \in Request /\ Received(q)
      /\ t \in Seq(Step) /\ Fits(q, t) /\ Guarded(r) /\ Outcome(r)
      /\ reply[r] = NoReply /\ relayed[r] = 0 /\ ~HasJob(r)
  BY <1>1, ActingIs
<1>3. /\ TypeOK /\ Gone \in {Ok, Gone} \cup Refusals
      /\ Gone # Ok /\ Gone \notin Refusals
  BY DEF SoundInv, Gone, Ok, Refusals
<1>4. /\ todo' \in [Requests -> Seq(Step)]
      /\ reply' \in [Requests -> {NoReply, Ok, Gone} \cup Refusals]
      /\ todo'[r] = <<>> /\ reply'[r] = Gone
      /\ \A s \in Requests \ {r} : todo'[s] = todo[s] /\ reply'[s] = reply[s]
  BY <1>1, <1>3, RefuseIs
<1>5. /\ request'[r] = q
      /\ Received(request[r])'
      /\ Publishes(request[r])' <=> Publishes(q)
      /\ is_full_access_user(request[r].server)' <=> is_full_access_user(q.server)
  BY <1>1, <1>2, RequestStays
<1>6. /\ jobs' \subseteq [of : Requests, server : Servers, owned : BOOLEAN]
      /\ \A job \in jobs' : job.of = r => job.server = q.server
      /\ \A job : job.of # r => (job \in jobs' <=> job \in jobs)
      /\ HasJob(r)' => Head(t) = "add_job"
  <2>1. CASE At(r, "add_job") /\ HandOver(r)
    BY <1>2, <2>1, HandOverIs DEF At
  <2>2. CASE UNCHANGED jobs
    BY <1>2, <1>3, <2>2 DEF HasJob, TypeOK
  <2> QED
    BY <2>1, <2>2 DEF HangUp
<1>7. /\ rooms' \subseteq Requests
      /\ \A s \in Requests \ {r} : s \in rooms' <=> s \in rooms
      /\ r \in rooms' => r \in rooms \/ Head(t) = "create_room"
  BY <1>3 DEF HangUp, At, TypeOK
<1>8. /\ Head(t) = "create_room" /\ q.endpoint \in Standalone
            => is_full_access_user(q.server)
      /\ Head(t) = "add_job" =>
            \/ q.endpoint \in {"delegate", "delegate_cs"}
            \/ /\ q.endpoint \in Standalone
               /\ is_full_access_user(q.server) /\ Delegates(q)
  BY <1>1, <1>2, FitsHead
<1>17. TokensTyped'
  BY <1>1, <1>3, TypedTokens
<1>18. /\ relayed' \in [Requests -> 0..2] /\ relayed'[r] \in {0, 1}
       /\ relayed'[r] = 1 => Head(t) \in {"relay", "relay_unstable"}
       /\ \A s \in Requests \ {r} : relayed'[s] = relayed[s]
  <2>1. relayed \in [Requests -> 0..2] /\ relayed[r] + 1 = 1
    BY <1>2, <1>3 DEF TypeOK
  <2> QED
    BY <1>1, <1>2, <2>1
<1>9. TypeOK'
  BY <1>1, <1>3, <1>4, <1>6, <1>7, <1>17, <1>18
     DEF TypeOK, environmentVars, TokensTyped
<1>10. UnderWay(r)'
  BY <1>4 DEF UnderWay
<1>11. Outcome(r)'
  <2>1. granted'[r] = "publish" => Publishes(request[r])'
    BY <1>1, <1>2, <1>5 DEF Outcome
  <2>2. r \in rooms' /\ q.endpoint \in Standalone => is_full_access_user(q.server)
    BY <1>2, <1>7, <1>8 DEF Outcome
  <2>3. reply'[r] = Gone /\ reply'[r] # Ok /\ reply'[r] \notin Refusals
    BY <1>3, <1>4
  <2> QED
    BY <1>5, <1>6, <1>8, <2>1, <2>2, <2>3 DEF Outcome, Delegates
<1>12. Guarded(r)'
  <2> SUFFICES ASSUME NEW c \in Checks(q), ~Holds(r, c) PROVE Effectless(r)'
    BY <1>1, <1>4, RequestStays DEF Guarded
  <2>1. Effectless(r)
    BY <1>2 DEF Guarded
  <2>2. Head(t) \notin EffectSteps
    BY <1>1, AllChecked
  <2>3. ~HasJob(r)' /\ r \notin rooms' /\ relayed'[r] = 0
    BY <1>6, <1>7, <1>18, <2>1, <2>2 DEF Effectless, EffectSteps
  <2> QED
    BY <1>1, <1>3, <1>4, <2>1, <2>3 DEF Effectless
<1>13. Fits(request[r], todo[r])'
  BY <1>4 DEF Fits
<1>14. request'[r] # NoRequest /\ request'[r] \in Request /\ relayed'[r] \in {0, 1}
  BY <1>1, <1>2, <1>5, <1>18
<1>15. Sound(r)'
  BY <1>5, <1>10, <1>11, <1>12, <1>13, <1>14 DEF Sound
<1>16. \A s \in Requests \ {r} : Sound(s)'
  BY <1>1, <1>4, <1>6, <1>7, <1>18, OthersSound
<1> QED
  BY <1>9, <1>15, <1>16 DEF SoundInv

-----------------------------------------------------------------------------
(* The others. *)

LEMMA ProgramsStart ==
  ASSUME NEW q \in Request
  PROVE  Starts(q, Program(q))
BY RequestIs, StandaloneStarts, ProxiedStarts, PingStarts DEF Endpoints

LEMMA ArriveSound ==
  ASSUME SoundInv, NEW r \in Requests, Arrive(r)
  PROVE  SoundInv'
<1>1. /\ request[r] = NoRequest
      /\ seenJoined' = [seenJoined EXCEPT ![r] = joined]
      /\ UNCHANGED <<config, reply, joined, shutdown>> /\ UNCHANGED effectVars
  BY DEF Arrive
<1>2. PICK q \in Request :
        /\ Received(q) /\ request' = [request EXCEPT ![r] = q]
        /\ todo' = [todo EXCEPT ![r] = Program(q)]
  BY Zenon DEF Arrive
<1> DEFINE t == Program(q)
           Steps == Seq(Step)
<1>3. /\ t \in Steps /\ t # <<>> /\ Fits(q, t)
      /\ \A c \in Checks(q) : Before(t, c)
      /\ Publishes(q) => Has(t, "create_room")
      /\ Mints(q) => Has(t, "mint")
  BY ProgramsStart DEF Starts
<1> HIDE DEF t, Steps
<1>4. TypeOK /\ Untouched(r)
  BY <1>1 DEF SoundInv, Sound
<1>5. /\ todo \in [Requests -> Steps]
      /\ request \in [Requests -> Request \cup {NoRequest}]
      /\ seenJoined \in [Requests -> SUBSET Subjects]
      /\ joined \subseteq Subjects
  BY <1>4 DEF TypeOK, Steps
<1>6. /\ todo' \in [Requests -> Steps] /\ todo'[r] = t
      /\ \A s \in Requests \ {r} : todo'[s] = todo[s]
  BY <1>2, <1>3, <1>5 DEF t
<1>7. /\ request' \in [Requests -> Request \cup {NoRequest}] /\ request'[r] = q
      /\ \A s \in Requests \ {r} : request'[s] = request[s]
  BY <1>2, <1>5
<1>8. /\ seenJoined' \in [Requests -> SUBSET Subjects] /\ seenJoined'[r] = joined
      /\ \A s \in Requests \ {r} : seenJoined'[s] = seenJoined[s]
  BY <1>1, <1>5
<1>9. /\ rooms' = rooms /\ jobs' = jobs /\ granted' = granted
      /\ api' = api /\ tokenSent' = tokenSent /\ relayed' = relayed
      /\ config' = config /\ reply' = reply /\ joined' = joined
      /\ shutdown' = shutdown
  BY <1>1 DEF effectVars
<1>10. TypeOK'
  BY <1>4, <1>6, <1>7, <1>8, <1>9 DEF TypeOK, Steps
<1>11. q # NoRequest
  <2>1. q.endpoint \in Endpoints
    BY RequestIs
  <2>2. NoRequest.endpoint \notin Endpoints
    BY DEF NoRequest, Endpoints, Standalone, Proxied
  <2> QED
    BY <2>1, <2>2
<1>12. /\ Checks(request[r])' = Checks(q)
       /\ Received(request[r])'
       /\ Fits(request[r], todo[r])'
       /\ Publishes(request[r])' <=> Publishes(q)
       /\ Mints(request[r])' <=> Mints(q)
  <2>1. config' = config /\ request'[r] = q /\ todo'[r] = t
    BY <1>6, <1>7, <1>9
  <2> QED
    BY <1>2, <1>3, <2>1
       DEF Checks, Fits, Received, HasAppService, Publishes, Mints, can_publish,
           may_publish_remotely, is_full_access_user
<1>13. /\ r \notin rooms' /\ ~HasJob(r)' /\ relayed'[r] = 0
       /\ granted'[r] = "none" /\ reply'[r] = NoReply
  BY <1>4, <1>9 DEF Untouched, HasJob
<1>14. Guarded(r)'
  <2> SUFFICES ASSUME NEW c \in Checks(q)
               PROVE  Effectless(r)' /\ Before(todo[r], c)'
    BY <1>12 DEF Guarded
  <2>1. Effectless(r)'
    BY <1>13 DEF Effectless, NoReply, Ok
  <2>2. Before(todo[r], c)'
    BY <1>3, <1>6 DEF Before
  <2> QED
    BY <2>1, <2>2
<1>15. UnderWay(r)'
  <2>1. (joined \subseteq seenJoined[r])'
    BY <1>8, <1>9
  <2>2. Publishes(request[r])' => Has(todo[r], "create_room")'
    BY <1>3, <1>6, <1>12 DEF Has
  <2>3. Mints(request[r])' => Has(todo[r], "mint")'
    BY <1>3, <1>6, <1>12 DEF Has
  <2> QED
    BY <1>13, <2>1, <2>2, <2>3 DEF UnderWay
<1>16. Outcome(r)'
  BY <1>13 DEF Outcome, HasJob, NoReply, Refusals
<1>17. Sound(r)'
  <2>1. request'[r] # NoRequest /\ request'[r] \in Request /\ relayed'[r] = 0
    BY <1>7, <1>11, <1>13
  <2> QED
    BY <1>12, <1>14, <1>15, <1>16, <2>1 DEF Sound
<1>18. ASSUME NEW s \in Requests \ {r} PROVE Sound(s)'
  <2>1. Sound(s)
    BY DEF SoundInv
  <2>2. todo[s] # <<>> => joined \subseteq seenJoined[s]
    BY <2>1 DEF Sound, Untouched, UnderWay
  <2>3. Aside(s)
    BY <1>6, <1>7, <1>8, <1>9, <2>2 DEF Aside
  <2> QED
    BY <2>1, <2>3, AsideSound
<1> QED
  BY <1>10, <1>17, <1>18 DEF SoundInv

LEMMA EnvironmentSound ==
  ASSUME SoundInv,
         \/ \E s \in Subjects : JoinRoom(s) \/ LeaveRoom(s)
         \/ ShutDown \/ Answered \/ UNCHANGED vars
  PROVE  SoundInv'
<1>1. /\ config' = config /\ request' = request /\ todo' = todo
      /\ reply' = reply /\ rooms' = rooms /\ jobs' = jobs
      /\ granted' = granted /\ tokenSent' = tokenSent /\ relayed' = relayed
      /\ api' = api
  BY DEF JoinRoom, LeaveRoom, ShutDown, Answered, vars, effectVars
<1>2. /\ joined' \subseteq Subjects /\ shutdown' \in BOOLEAN
      /\ shutdown => shutdown'
      /\ seenJoined' \in [Requests -> SUBSET Subjects]
      /\ \A s \in Requests :
            /\ seenJoined[s] \subseteq seenJoined'[s]
            /\ todo[s] # <<>> => joined' \subseteq joined \cup seenJoined'[s]
  <2>1. /\ joined \subseteq Subjects /\ shutdown \in BOOLEAN
        /\ seenJoined \in [Requests -> SUBSET Subjects]
    BY DEF SoundInv, TypeOK
  <2>2. ASSUME NEW u \in Subjects, JoinRoom(u)
        PROVE  /\ joined' = joined \cup {u} /\ shutdown' = shutdown
               /\ seenJoined' \in [Requests -> SUBSET Subjects]
               /\ \A s \in Requests :
                    seenJoined'[s] = IF todo[s] # <<>> THEN seenJoined[s] \cup {u}
                                     ELSE seenJoined[s]
    BY <2>1, <2>2 DEF JoinRoom
  <2>3. ASSUME NEW u \in Subjects, LeaveRoom(u)
        PROVE  /\ joined' = joined \ {u} /\ shutdown' = shutdown
               /\ seenJoined' = seenJoined
    BY <2>3 DEF LeaveRoom
  <2>4. ASSUME ShutDown \/ Answered \/ UNCHANGED vars
        PROVE  /\ joined' = joined /\ seenJoined' = seenJoined
               /\ shutdown' \in BOOLEAN /\ (shutdown => shutdown')
    BY <2>1, <2>4 DEF ShutDown, Answered, vars
  <2>5. CASE \E u \in Subjects : JoinRoom(u)
    BY <2>1, <2>2, <2>5
  <2>6. CASE \E u \in Subjects : LeaveRoom(u)
    BY <2>1, <2>3, <2>6
  <2>7. CASE ShutDown \/ Answered \/ UNCHANGED vars
    BY <2>1, <2>4, <2>7
  <2> QED
    BY <2>5, <2>6, <2>7
<1>3. TypeOK'
  BY <1>1, <1>2 DEF SoundInv, TypeOK
<1>4. ASSUME NEW s \in Requests PROVE Sound(s)'
  BY <1>1, <1>2, AsideSound DEF SoundInv, Aside
<1> QED
  BY <1>3, <1>4 DEF SoundInv

LEMMA ProcessSound ==
  ASSUME SoundInv, NEW r \in Requests, Process(r)
  PROVE  SoundInv'
<1>1. CASE get_join_token(r)
  BY <1>1, MintSound
<1>2. CASE create_livekit_room(r)
  BY <1>2, CreateRoomSound
<1>3. CASE add_delayed_event_job(r)
  BY <1>3, AddJobSound
<1>4. CASE request_get_token_via_federation(r)
  BY <1>4, RelaySound
<1>5. CASE RequireJoined(r) \/ enforce_legacy_membership(r)
  BY <1>5, JoinedIsCheck, CheckStepSound
<1>6. CASE \/ verify_openid_token(r) \/ resolve_cs_api_url(r)
           \/ look_up_delay_timeout(r) \/ trigger_appservice_ping(r)
  BY <1>6, OpenidIsCheck, ResolveIsCheck, LookUpIsCheck, PingIsCheck,
     CheckStepSound DEF SoundInv
<1>7. CASE \/ gate_post(r) \/ verify_hs_token(r) \/ decode_json_body(r)
           \/ require_non_empty_header(r) \/ require_matching_lk_url(r)
           \/ matrix_server_name(r) \/ require_origin(r)
  BY <1>7, PlainChecks, CheckStepSound DEF SoundInv
<1> QED
  BY <1>1, <1>2, <1>3, <1>4, <1>5, <1>6, <1>7 DEF Process

LEMMA InitSound == Init => SoundInv
<1> SUFFICES ASSUME Init PROVE SoundInv
  OBVIOUS
<1>1. TypeOK
  <2>1. <<>> \in Seq(Step) /\ NoRequest \in Request \cup {NoRequest}
    OBVIOUS
  <2>2. /\ todo \in [Requests -> Seq(Step)]
        /\ request \in [Requests -> Request \cup {NoRequest}]
    BY <2>1 DEF Init
  <2>3. /\ config \in Config /\ joined \subseteq Subjects /\ shutdown \in BOOLEAN
    BY DEF Init
  <2>4. /\ rooms \subseteq Requests
        /\ tokenSent \subseteq [by : Requests, server : Servers \cup {NoServer}]
        /\ api \in [Requests -> Servers \cup {NoServer}]
        /\ jobs \subseteq [of : Requests, server : Servers, owned : BOOLEAN]
    BY DEF Init
  <2>5. /\ reply \in [Requests -> {NoReply, Ok, Gone} \cup Refusals]
        /\ granted \in [Requests -> {"none", "subscribe", "publish"}]
        /\ seenJoined \in [Requests -> SUBSET Subjects]
        /\ relayed \in [Requests -> 0..2]
    BY DEF Init
  <2> QED
    BY <2>2, <2>3, <2>4, <2>5 DEF TypeOK
<1>2. ASSUME NEW r \in Requests PROVE Sound(r)
  BY DEF Init, Sound, Untouched, HasJob
<1> QED
  BY <1>1, <1>2 DEF SoundInv

\* Every request, under way or answered, is sound: it has left nothing behind
\* unless all its checks held, whatever the other requests, the members of the
\* room and the shutdown did in between (the handlers of handler.rs).
THEOREM SoundInvariant == Spec => []SoundInv
<1>1. Init => SoundInv
  BY InitSound
<1>2. SoundInv /\ [Next]_vars => SoundInv'
  BY ArriveSound, ProcessSound, HangUpSound, EnvironmentSound DEF Next
<1> QED
  BY <1>1, <1>2, PTL DEF Spec

-----------------------------------------------------------------------------
(* The as_token goes where the API is that a request resolved last.  That it  *)
(* is ours is a matter of the order of the steps: each call comes after the   *)
(* step that resolves our homeserver, with no other such step in between.     *)

\* The steps that call our homeserver, and those that find one.
AskingSteps == AsTokenSteps \ {"ping"}

Resolves == {"resolve", "legacy_resolve"}

StepsToCome == IF HasAppService THEN Step ELSE Step \ AsTokenSteps

\* Among the steps t of request q, a call of our homeserver follows another one or
\* the step that resolves it, and no endpoint but the one for it has a ping.
Homeward(q, t) ==
    \A i \in DOMAIN t :
        /\ t[i] \in AskingSteps /\ i > 1 =>
                \/ t[i - 1] \in AskingSteps
                \/ t[i - 1] \in Resolves /\ resolved_server(q, t[i - 1]) = Ours
        /\ t[i] = "ping" => q.endpoint = "appservice_ping"

\* A request about to call our homeserver has resolved it.
HomeBound(r) ==
    todo[r] # <<>> =>
        /\ Homeward(request[r], todo[r])
        /\ Head(todo[r]) \in AskingSteps => api[r] = Ours

TokenInv ==
    /\ todo \in [Requests -> Seq(StepsToCome)]
    /\ \A r \in Requests : HomeBound(r)
    /\ AsTokenStaysHome

(* The programs. *)

LEMMA HomewardTail ==
  ASSUME NEW q, NEW t \in Seq(Step), t # <<>>, Homeward(q, t)
  PROVE  /\ Homeward(q, Tail(t))
         /\ Tail(t) # <<>> /\ Head(Tail(t)) \in AskingSteps =>
                \/ Head(t) \in AskingSteps
                \/ Head(t) \in Resolves /\ resolved_server(q, Head(t)) = Ours
         /\ Head(t) = "ping" => q.endpoint = "appservice_ping"
<1> DEFINE u == Tail(t)
<1>1. /\ Len(t) \in Nat \ {0} /\ DOMAIN t = 1 .. Len(t) /\ t[1] = Head(t)
      /\ u \in Seq(Step) /\ DOMAIN u = 1 .. Len(t) - 1
      /\ \A i \in 1 .. Len(t) - 1 : u[i] = t[i + 1]
  BY TailIs
<1>2. u # <<>> => 1 \in DOMAIN u /\ Head(u) = u[1]
  BY <1>1
<1> HIDE DEF u
<1>3. Homeward(q, u)
  <2> SUFFICES ASSUME NEW i \in DOMAIN u
               PROVE  /\ u[i] \in AskingSteps /\ i > 1 =>
                            \/ u[i - 1] \in AskingSteps
                            \/ /\ u[i - 1] \in Resolves
                               /\ resolved_server(q, u[i - 1]) = Ours
                      /\ u[i] = "ping" => q.endpoint = "appservice_ping"
    BY DEF Homeward
  <2>1. /\ i \in Nat /\ i + 1 \in DOMAIN t /\ u[i] = t[i + 1] /\ i + 1 > 1
        /\ (i + 1) - 1 = i
    BY <1>1
  <2>2. i > 1 => u[i - 1] = t[i]
    <3>1. i > 1 => i - 1 \in 1 .. Len(t) - 1 /\ (i - 1) + 1 = i
      BY <1>1
    <3> QED
      BY <1>1, <3>1
  <2> QED
    BY <2>1, <2>2 DEF Homeward
<1>4. u # <<>> /\ Head(u) \in AskingSteps =>
            \/ Head(t) \in AskingSteps
            \/ Head(t) \in Resolves /\ resolved_server(q, Head(t)) = Ours
  <2> SUFFICES ASSUME u # <<>>, Head(u) \in AskingSteps
               PROVE  \/ t[1] \in AskingSteps
                      \/ t[1] \in Resolves /\ resolved_server(q, t[1]) = Ours
    BY <1>1
  <2>1. 1 \in 1 .. Len(t) - 1
    BY <1>1, <1>2
  <2>2. 1 + 1 \in DOMAIN t /\ t[1 + 1] = Head(u) /\ 1 + 1 > 1 /\ (1 + 1) - 1 = 1
    BY <1>1, <1>2, <2>1
  <2> QED
    BY <2>2 DEF Homeward
<1>5. Head(t) = "ping" => q.endpoint = "appservice_ping"
  <2>1. 1 \in DOMAIN t /\ t[1] = Head(t)
    BY <1>1
  <2> QED
    BY <2>1 DEF Homeward
<1> QED
  BY <1>3, <1>4, <1>5 DEF u

LEMMA HomewardConcat ==
  ASSUME NEW q, NEW s \in Seq(Step), NEW t \in Seq(Step),
         Homeward(q, s), Homeward(q, t),
         t # <<>> => Head(t) \notin AskingSteps
  PROVE  Homeward(q, s \o t)
<1> DEFINE u == s \o t
<1>1. /\ Len(s) \in Nat /\ Len(t) \in Nat
      /\ DOMAIN s = 1 .. Len(s) /\ DOMAIN t = 1 .. Len(t)
      /\ DOMAIN u = 1 .. Len(s) + Len(t)
      /\ \A i \in 1 .. Len(s) : u[i] = s[i]
      /\ \A i \in 1 .. Len(t) : u[Len(s) + i] = t[i]
      /\ 1 \in DOMAIN t => t # <<>> /\ Head(t) = t[1]
  OBVIOUS
<1> HIDE DEF u
<1>2. ASSUME NEW i \in DOMAIN u, i \in 1 .. Len(s)
      PROVE  /\ u[i] \in AskingSteps /\ i > 1 =>
                    \/ u[i - 1] \in AskingSteps
                    \/ u[i - 1] \in Resolves /\ resolved_server(q, u[i - 1]) = Ours
             /\ u[i] = "ping" => q.endpoint = "appservice_ping"
  <2>1. /\ u[i] = s[i] /\ i \in DOMAIN s
        /\ i > 1 => u[i - 1] = s[i - 1]
    BY <1>1, <1>2
  <2> QED
    BY <2>1 DEF Homeward
<1>3. ASSUME NEW i \in DOMAIN u, i \notin 1 .. Len(s)
      PROVE  /\ u[i] \in AskingSteps /\ i > 1 =>
                    \/ u[i - 1] \in AskingSteps
                    \/ u[i - 1] \in Resolves /\ resolved_server(q, u[i - 1]) = Ours
             /\ u[i] = "ping" => q.endpoint = "appservice_ping"
  <2> DEFINE k == i - Len(s)
  <2>1. k \in DOMAIN t /\ k \in Nat /\ u[i] = t[k] /\ Len(s) + k = i
    <3>1. i \in Int /\ k \in 1 .. Len(t) /\ Len(s) + k = i
      BY <1>1, <1>3
    <3> QED
      BY <1>1, <3>1
  <2>2. k > 1 => u[i - 1] = t[k - 1]
    <3>1. k > 1 => k - 1 \in 1 .. Len(t) /\ Len(s) + (k - 1) = i - 1
      BY <1>1, <2>1
    <3> QED
      BY <1>1, <3>1
  <2>3. k = 1 => t[k] \notin AskingSteps
    BY <1>1, <2>1
  <2>4. k = 1 \/ k > 1
    BY <1>1, <2>1
  <2> HIDE DEF k
  <2> QED
    BY <2>1, <2>2, <2>3, <2>4 DEF Homeward
<1> QED
  BY <1>2, <1>3 DEF Homeward, u

LEMMA HomewardQuiet ==
  ASSUME NEW q, NEW t \in Seq(Step \ AsTokenSteps)
  PROVE  Homeward(q, t)
BY DEF Homeward, AskingSteps, AsTokenSteps

\* A program that is put together from a quiet beginning and what follows.
LEMMA OpeningHomeward ==
  ASSUME NEW q, NEW s \in Seq(Step \ AsTokenSteps), s # <<>>,
         NEW t \in Seq(Step), Homeward(q, t),
         t # <<>> => Head(t) \notin AskingSteps
  PROVE  Homeward(q, s \o t) /\ Head(s \o t) \notin AskingSteps
<1>1. s \in Seq(Step)
  OBVIOUS
<1>2. Head(s \o t) = Head(s) /\ Head(s) \notin AsTokenSteps
  BY <1>1
<1> QED
  BY <1>1, <1>2, HomewardQuiet, HomewardConcat DEF AskingSteps

\* The standalone endpoints call our homeserver only to verify membership, which
\* they do for an application service.
LEMMA StandaloneSteps ==
  ASSUME NEW q, q.endpoint \in Standalone
  PROVE  /\ Program(q) \in Seq(StepsToCome)
         /\ Homeward(q, Program(q)) /\ Head(Program(q)) \notin AskingSteps
<1> DEFINE S == StepsToCome
           Quiet == Step \ AsTokenSteps
           s == <<"gate", "body", "openid">>
           v == LegacyMembershipSteps
<1>1. /\ "gate" \in Quiet /\ "body" \in Quiet /\ "openid" \in Quiet
      /\ "mint" \in Quiet /\ "resolve" \in Quiet /\ "create_room" \in Quiet
      /\ "add_job" \in Quiet /\ "legacy_resolve" \in Quiet
  BY DEF Step, AsTokenSteps
<1>2. Quiet \subseteq S /\ S \subseteq Step
  BY DEF StepsToCome
<1>3. v \in Seq(S) /\ Homeward(q, v) /\ (v # <<>> => Head(v) \notin AskingSteps)
  <2>1. CASE verifies_legacy_membership(config)
    <3> DEFINE w == <<"legacy_resolve", "legacy_member">>
    <3>1. v = w
      BY <2>1 DEF LegacyMembershipSteps
    <3>2. "legacy_member" \in S /\ "legacy_resolve" \in S
      BY <1>1, <1>2, <2>1
         DEF verifies_legacy_membership, HasAppService, StepsToCome, Step
    <3>3. /\ DOMAIN w = 1 .. 2 /\ w[1] = "legacy_resolve" /\ w[2] = "legacy_member"
          /\ Head(w) = "legacy_resolve"
      OBVIOUS
    <3>4. w \in Seq(S)
      BY <3>2
    <3> HIDE DEF w, v, S
    <3>5. Homeward(q, w)
      BY <3>3 DEF Homeward, AskingSteps, AsTokenSteps, Resolves, resolved_server
    <3> QED
      BY <3>1, <3>3, <3>4, <3>5 DEF AskingSteps, AsTokenSteps
  <2>2. CASE ~verifies_legacy_membership(config)
    BY <2>2 DEF LegacyMembershipSteps, Homeward
  <2> QED
    BY <2>1, <2>2
<1>4. s \in Seq(Quiet) /\ s # <<>>
  BY <1>1
<1> HIDE DEF S, Quiet, s, v
<1>5. ASSUME NEW rest \in Seq(Quiet), Program(q) = s \o (v \o rest)
      PROVE  /\ Program(q) \in Seq(S)
             /\ Homeward(q, Program(q)) /\ Head(Program(q)) \notin AskingSteps
  <2>1. /\ rest \in Seq(S) /\ s \in Seq(S)
        /\ rest \in Seq(Step) /\ v \in Seq(Step)
    BY <1>2, <1>3, <1>4
  <2>2. Homeward(q, rest) /\ (rest # <<>> => Head(rest) \notin AskingSteps)
    BY <1>5, HomewardQuiet, TailOfSteps DEF Quiet, AskingSteps
  <2>3. Homeward(q, v \o rest) /\ v \o rest \in Seq(S) /\ v \o rest \in Seq(Step)
    BY <1>3, <2>1, <2>2, HomewardConcat, ConcatOfSteps
  <2>4. v \o rest # <<>> => Head(v \o rest) \notin AskingSteps
    <3>1. CASE v = <<>>
      BY <2>1, <2>2, <3>1
    <3>2. CASE v # <<>>
      BY <1>3, <2>1, <3>2
    <3> QED
      BY <3>1, <3>2
  <2> QED
    BY <1>4, <1>5, <2>1, <2>3, <2>4, OpeningHomeward, ConcatOfSteps DEF Quiet
<1>6. CASE q.endpoint \in {"sfu_get", "get_token"}
  <2> DEFINE m == <<"mint">>
             room == IF ~is_full_access_user(q.server) THEN <<>>
                     ELSE IF Delegates(q) THEN ResolveFirst(q)
                     ELSE <<"create_room">>
  <2>1. room \in Seq(Quiet) /\ m \in Seq(Quiet)
    BY <1>1 DEF ResolveFirst
  <2>2. Program(q) = ((s \o v) \o m) \o room
    BY <1>6, Zenon DEF Program, TokenSteps, s, v
  <2> HIDE DEF room, m
  <2>3. m \o room \in Seq(Quiet)
    BY <2>1, ConcatOfSteps
  <2>4. Program(q) = s \o (v \o (m \o room))
    <3>1. /\ s \in Seq(Step) /\ v \in Seq(Step)
          /\ m \in Seq(Step) /\ room \in Seq(Step)
      BY <1>2, <1>3, <1>4, <2>1
    <3> DEFINE sv == s \o v
               mr == m \o room
    <3>2. sv \in Seq(Step) /\ mr \in Seq(Step)
      BY <3>1, ConcatOfSteps
    <3>3. s \o (v \o mr) = sv \o mr
      BY <3>1, <3>2, ConcatAssociative
    <3> HIDE DEF sv
    <3>4. (sv \o m) \o room = sv \o mr
      BY <3>1, <3>2, ConcatAssociative
    <3> QED
      BY <2>2, <3>3, <3>4 DEF sv
  <2> QED
    BY <1>5, <2>3, <2>4 DEF S
<1>7. CASE q.endpoint = "delegate"
  <2> DEFINE rest == <<"resolve", "add_job">>
  <2>1. rest \in Seq(Quiet)
    BY <1>1
  <2>2. Program(q) = (s \o v) \o rest
    BY <1>7 DEF Program, DelegateSteps, s, v
  <2> HIDE DEF rest
  <2>3. Program(q) = s \o (v \o rest)
    <3>1. s \in Seq(Step) /\ v \in Seq(Step) /\ rest \in Seq(Step)
      BY <1>2, <1>3, <1>4, <2>1
    <3> QED
      BY <2>2, <3>1, ConcatAssociative
  <2> QED
    BY <1>5, <2>1, <2>3 DEF S
<1> QED
  BY <1>6, <1>7 DEF Standalone

\* The proxied endpoints and the ping exist for an application service only.
LEMMA ProxiedStepsAre ==
  ASSUME NEW q, q.endpoint \in Proxied, HasAppService
  PROVE  /\ Program(q) \in Seq(StepsToCome)
         /\ Homeward(q, Program(q)) /\ Head(Program(q)) \notin AskingSteps
<1>1. StepsToCome = Step
  BY DEF StepsToCome
<1>2. ProxiedSteps \in Seq(Step \ AsTokenSteps) /\ ProxiedSteps # <<>>
  BY DEF ProxiedSteps, Step, AsTokenSteps
<1>3. ASSUME NEW t \in Seq(Step), Program(q) = ProxiedSteps \o t, Homeward(q, t),
             t # <<>> => Head(t) \notin AskingSteps
      PROVE  /\ Program(q) \in Seq(StepsToCome)
             /\ Homeward(q, Program(q)) /\ Head(Program(q)) \notin AskingSteps
  <2>1. ProxiedSteps \in Seq(Step)
    BY <1>2
  <2> QED
    BY <1>1, <1>2, <1>3, <2>1, ConcatOfSteps, OpeningHomeward
<1> USE DEF AskingSteps, AsTokenSteps, Resolves, resolved_server, Standalone
<1>4. CASE q.endpoint = "get_token_cs" /\ is_local(q)
  <2> DEFINE t == <<"url", "user_id", "resolve", "user_joined", "mint",
                    "create_room">>
  <2>1. Program(q) = ProxiedSteps \o t
    BY <1>4 DEF Program, CsTokenSteps
  <2>2. t \in Seq(Step) /\ Head(t) \notin AskingSteps
    BY DEF Step
  <2>3. Homeward(q, t)
    BY <1>4 DEF Homeward
  <2> HIDE DEF t
  <2> QED
    BY <1>3, <2>1, <2>2, <2>3
<1>5. CASE q.endpoint = "get_token_cs" /\ ~is_local(q)
  <2> DEFINE t == <<"user_id", "resolve", "user_joined", "target_joined", "relay">>
  <2>1. Program(q) = ProxiedSteps \o t
    BY <1>5 DEF Program, CsTokenSteps
  <2>2. t \in Seq(Step) /\ Head(t) \notin AskingSteps
    BY DEF Step
  <2>3. Homeward(q, t)
    BY <1>5 DEF Homeward
  <2> HIDE DEF t
  <2> QED
    BY <1>3, <2>1, <2>2, <2>3
<1>6. CASE q.endpoint = "get_token_ss"
  <2> DEFINE t == <<"user_id", "origin", "resolve", "ours_joined", "user_joined",
                    "url", "mint", "create_room">>
  <2>1. Program(q) = ProxiedSteps \o t
    BY <1>6 DEF Program, SsTokenSteps
  <2>2. t \in Seq(Step) /\ Head(t) \notin AskingSteps
    BY DEF Step
  <2>3. Homeward(q, t)
    BY <1>6 DEF Homeward
  <2> HIDE DEF t
  <2> QED
    BY <1>3, <2>1, <2>2, <2>3
<1>7. CASE q.endpoint = "delegate_cs"
  <2> DEFINE t == <<"url", "user_id", "resolve", "user_joined", "look_up_delay",
                    "add_job">>
  <2>1. Program(q) = ProxiedSteps \o t
    BY <1>7 DEF Program, CsDelegateSteps
  <2>2. t \in Seq(Step) /\ Head(t) \notin AskingSteps
    BY DEF Step
  <2>3. Homeward(q, t)
    BY <1>7 DEF Homeward
  <2> HIDE DEF t
  <2> QED
    BY <1>3, <2>1, <2>2, <2>3
<1> QED
  BY <1>4, <1>5, <1>6, <1>7 DEF Proxied

LEMMA PingStepsAre ==
  ASSUME NEW q, q.endpoint = "appservice_ping", HasAppService
  PROVE  /\ Program(q) \in Seq(StepsToCome)
         /\ Homeward(q, Program(q)) /\ Head(Program(q)) \notin AskingSteps
<1> DEFINE t == <<"gate", "body", "resolve", "ping">>
<1>1. Program(q) = t
  BY DEF Program
<1>2. t \in Seq(StepsToCome) /\ Head(t) \notin AskingSteps
  BY DEF StepsToCome, Step, AskingSteps, AsTokenSteps
<1>3. Homeward(q, t)
  BY DEF Homeward, AskingSteps, AsTokenSteps
<1> HIDE DEF t
<1> QED
  BY <1>1, <1>2, <1>3

LEMMA ProgramsKeepToTheConfiguration ==
  ASSUME NEW q \in Request, Received(q)
  PROVE  /\ Program(q) \in Seq(StepsToCome)
         /\ Homeward(q, Program(q)) /\ Head(Program(q)) \notin AskingSteps
<1>1. q.endpoint \in Endpoints
  BY RequestIs
<1>2. q.endpoint \notin Standalone => HasAppService
  BY DEF Received
<1> QED
  BY <1>1, <1>2, StandaloneSteps, ProxiedStepsAre, PingStepsAre
     DEF Endpoints, Standalone, Proxied

(* The steps of a request. *)

\* What a step of request r does to its program, to the API it has resolved, to
\* the as_token and to the delegations.
TokenStep(r) ==
    /\ todo[r] # <<>>
    /\ UNCHANGED environmentVars
    /\ \/ /\ todo' = [todo EXCEPT ![r] = Tail(todo[r])]
          /\ \/ Head(todo[r]) \notin Resolves /\ api' = api
             \/ /\ Head(todo[r]) \in Resolves
                /\ api' = [api EXCEPT ![r] =
                                resolved_server(request[r], Head(todo[r]))]
       \/ todo' = [todo EXCEPT ![r] = <<>>] /\ api' = api
       \/ /\ Head(todo[r]) \in AskingSteps
          /\ todo' = [todo EXCEPT ![r] = <<"relay_unstable">>] /\ api' = api
    /\ \/ tokenSent' = tokenSent
       \/ /\ Head(todo[r]) \in AsTokenSteps
          /\ tokenSent' = tokenSent \cup {Sent(r)}
    /\ jobs' = jobs \/ HandOver(r)

LEMMA ConfigurationStays ==
  ASSUME config' = config
  PROVE  HasAppService' = HasAppService /\ StepsToCome' = StepsToCome
BY DEF HasAppService, StepsToCome

\* A step that calls with the as_token is still to be made only where there is
\* an application service.
LEMMA WhoAsksMay ==
  ASSUME TokenInv, NEW r \in Requests, todo[r] # <<>>,
         Head(todo[r]) \in AsTokenSteps
  PROVE  HasAppService
<1>1. Head(todo[r]) \in StepsToCome
  BY TailOfSteps DEF TokenInv
<1> QED
  BY <1>1 DEF StepsToCome

\* The as_token that is sent now goes home, or with a ping.
LEMMA SentStaysHome ==
  ASSUME SoundInv, TokenInv, NEW r \in Requests, todo[r] # <<>>,
         Head(todo[r]) \in AsTokenSteps
  PROVE  /\ HasAppService
         /\ \/ api[r] = Ours
            \/ PingTrigger /\ request[r].endpoint = "appservice_ping"
<1>1. HomeBound(r) /\ todo[r] \in Seq(Step) /\ Received(request[r])
  BY ActingIs DEF TokenInv
<1>2. CASE Head(todo[r]) = "ping"
  <2>1. request[r].endpoint = "appservice_ping"
    BY <1>1, <1>2, HomewardTail DEF HomeBound
  <2> QED
    BY <1>1, <2>1, WhoAsksMay DEF Received
<1>3. CASE Head(todo[r]) # "ping"
  BY <1>1, <1>3, WhoAsksMay DEF HomeBound, AskingSteps
<1> QED
  BY <1>2, <1>3

\* A delegation has an owner only for users of our homeserver.
LEMMA OwnedAreOurs ==
  ASSUME SoundInv, NEW r \in Requests, todo[r] # <<>>,
         DelayedEventJobParams(r).owned
  PROVE  HasAppService /\ DelayedEventJobParams(r).server = Ours
<1>1. Received(request[r])
  BY ActingIs
<1>2. CASE request[r].endpoint = "delegate_cs"
  BY <1>1, <1>2 DEF DelayedEventJobParams, Received, Standalone
<1>3. CASE request[r].endpoint # "delegate_cs"
  <2> DEFINE job == [of |-> r, server |-> request[r].server,
                     owned |-> owner_user_id_for(request[r].server)]
  <2>1. DelayedEventJobParams(r) = job
    BY <1>3 DEF DelayedEventJobParams
  <2>2. job.owned = owner_user_id_for(request[r].server)
    BY Zenon
  <2>3. job.server = request[r].server
    BY Zenon
  <2> HIDE DEF job
  <2>4. job.owned
    BY <2>1, Zenon
  <2>5. HasAppService /\ request[r].server = Ours
    BY <2>2, <2>4, Zenon DEF owner_user_id_for
  <2> QED
    BY <2>1, <2>3, <2>5
<1> QED
  BY <1>2, <1>3

LEMMA TokensStayHome ==
  ASSUME SoundInv, TokenInv, NEW r \in Requests, TokenStep(r)
  PROVE  AsTokenStaysHome'
<1>1. /\ todo[r] # <<>> /\ request' = request
      /\ HasAppService' = HasAppService
  BY ConfigurationStays DEF TokenStep, environmentVars
<1>2. ASSUME NEW sent \in tokenSent'
      PROVE  /\ HasAppService
             /\ \/ sent.server = Ours
                \/ PingTrigger /\ request[sent.by].endpoint = "appservice_ping"
  <2>1. CASE sent \in tokenSent
    BY <2>1 DEF TokenInv, AsTokenStaysHome
  <2>2. CASE sent \notin tokenSent
    <3>1. Head(todo[r]) \in AsTokenSteps /\ sent = Sent(r)
      BY <1>2, <2>2 DEF TokenStep
    <3>2. sent.by = r /\ sent.server = api[r]
      BY <3>1 DEF Sent
    <3> QED
      BY <1>1, <3>1, <3>2, SentStaysHome
  <2> QED
    BY <2>1, <2>2
<1>3. ASSUME NEW job \in jobs', job.owned
      PROVE  HasAppService /\ job.server = Ours
  <2>1. CASE job \in jobs
    BY <1>3, <2>1 DEF TokenInv, AsTokenStaysHome
  <2>2. CASE job \notin jobs
    <3>1. job = DelayedEventJobParams(r)
      BY <1>3, <2>2, Zenon DEF TokenStep, HandOver
    <3>2. DelayedEventJobParams(r).owned
      BY <1>3, <3>1, Zenon
    <3>3. HasAppService /\ DelayedEventJobParams(r).server = Ours
      BY <1>1, <3>2, OwnedAreOurs
    <3> QED
      BY <3>1, <3>3, Zenon
  <2> QED
    BY <2>1, <2>2
<1> QED
  BY <1>1, <1>2, <1>3 DEF AsTokenStaysHome

\* What a request has still to do after a step.
LEMMA StaysHomeBound ==
  ASSUME SoundInv, TokenInv, NEW r \in Requests, TokenStep(r)
  PROVE  HomeBound(r)'
<1> DEFINE t == todo[r]
           h == Head(t)
           u == Tail(t)
           q == request[r]
<1>1. /\ t \in Seq(Step) /\ t # <<>> /\ request'[r] = q
      /\ Homeward(q, t) /\ (h \in AskingSteps => api[r] = Ours)
  BY ActingIs DEF TokenInv, HomeBound, TokenStep, environmentVars
<1>2. /\ todo \in [Requests -> Seq(StepsToCome)]
      /\ api \in [Requests -> Servers \cup {NoServer}]
  BY DEF SoundInv, TypeOK, TokenInv
<1>3. /\ Homeward(q, u)
      /\ u # <<>> /\ Head(u) \in AskingSteps =>
            \/ h \in AskingSteps
            \/ h \in Resolves /\ resolved_server(q, h) = Ours
  BY <1>1, HomewardTail
<1>4. h \in Resolves => h \notin AskingSteps
  BY DEF Resolves, AskingSteps, AsTokenSteps
<1> HIDE DEF u, h, q
<1>5. ASSUME NEW v, todo' = [todo EXCEPT ![r] = v], Homeward(q, v),
             v # <<>> /\ Head(v) \in AskingSteps => api'[r] = Ours
      PROVE  HomeBound(r)'
  <2>1. todo'[r] = v
    BY <1>2, <1>5
  <2>2. Homeward(request[r], todo[r])' <=> Homeward(q, v)
    BY <1>1, <2>1 DEF Homeward, resolved_server
  <2> QED
    BY <1>5, <2>1, <2>2 DEF HomeBound
<1>6. CASE /\ todo' = [todo EXCEPT ![r] = u]
           /\ h \notin Resolves /\ api' = api
  BY <1>1, <1>3, <1>5, <1>6
<1>7. CASE /\ todo' = [todo EXCEPT ![r] = u]
           /\ h \in Resolves
           /\ api' = [api EXCEPT ![r] = resolved_server(q, h)]
  <2>1. api'[r] = resolved_server(q, h)
    BY <1>2, <1>7
  <2> QED
    BY <1>3, <1>4, <1>5, <1>7, <2>1
<1>8. CASE todo' = [todo EXCEPT ![r] = <<>>]
  <2>1. Homeward(q, <<>>)
    BY DEF Homeward
  <2> QED
    BY <1>5, <1>8, <2>1
<1>9. CASE /\ h \in AskingSteps /\ api' = api
           /\ todo' = [todo EXCEPT ![r] = <<"relay_unstable">>]
  <2>1. Homeward(q, <<"relay_unstable">>)
    BY DEF Homeward
  <2> QED
    BY <1>1, <1>5, <1>9, <2>1
<1> QED
  BY <1>6, <1>7, <1>8, <1>9 DEF TokenStep, u, h, q

LEMMA FewerSteps ==
  ASSUME SoundInv, TokenInv, NEW r \in Requests, TokenStep(r)
  PROVE  /\ todo' \in [Requests -> Seq(StepsToCome)]
         /\ \A s \in Requests \ {r} : todo'[s] = todo[s] /\ api'[s] = api[s]
<1> DEFINE Steps == Seq(StepsToCome)
           last == <<"relay_unstable">>
<1>1. todo \in [Requests -> Steps] /\ api \in [Requests -> Servers \cup {NoServer}]
  BY DEF TokenInv, SoundInv, TypeOK
<1>2. Tail(todo[r]) \in Steps
  BY <1>1, TailOfSteps DEF TokenStep
<1>3. <<>> \in Steps
  OBVIOUS
<1>4. Head(todo[r]) \in AskingSteps => last \in Steps
  <2>1. Head(todo[r]) \in AskingSteps => StepsToCome = Step
    BY WhoAsksMay DEF TokenStep, AskingSteps, StepsToCome
  <2> QED
    BY <2>1 DEF Step
<1> HIDE DEF Steps, last
<1>5. todo' \in [Requests -> Steps]
  BY <1>1, <1>2, <1>3, <1>4 DEF TokenStep, last
<1>6. \A s \in Requests \ {r} : todo'[s] = todo[s] /\ api'[s] = api[s]
  BY <1>1 DEF TokenStep
<1> QED
  BY <1>5, <1>6 DEF Steps

\* A request that neither acts nor arrives keeps its place.
LEMMA OthersHomeBound ==
  ASSUME NEW s \in Requests, HomeBound(s), request'[s] = request[s],
         todo'[s] = todo[s], api'[s] = api[s]
  PROVE  HomeBound(s)'
BY DEF HomeBound, Homeward, resolved_server

LEMMA TokenStepPreserves ==
  ASSUME SoundInv, TokenInv, NEW r \in Requests, TokenStep(r)
  PROVE  TokenInv'
<1>1. /\ todo' \in [Requests -> Seq(StepsToCome)]
      /\ \A s \in Requests \ {r} : todo'[s] = todo[s] /\ api'[s] = api[s]
  BY FewerSteps
<1>2. StepsToCome' = StepsToCome /\ request' = request
  BY ConfigurationStays DEF TokenStep, environmentVars
<1>3. \A s \in Requests \ {r} : HomeBound(s)'
  BY <1>1, <1>2, OthersHomeBound DEF TokenInv
<1>4. HomeBound(r)' /\ AsTokenStaysHome'
  BY StaysHomeBound, TokensStayHome
<1> QED
  BY <1>1, <1>2, <1>3, <1>4 DEF TokenInv

(* The actions. *)

\* A check drops the first step or all of them.
LEMMA ChecksAre ==
  ASSUME NEW r \in Requests,
         \/ gate_post(r) \/ verify_hs_token(r) \/ decode_json_body(r)
         \/ verify_openid_token(r) \/ require_non_empty_header(r)
         \/ require_matching_lk_url(r) \/ matrix_server_name(r)
         \/ require_origin(r)
  PROVE  TokenStep(r)
<1>1. ASSUME NEW step \in Step \ Resolves, NEW passes, NEW status,
             Check(r, step, passes, status)
      PROVE  TokenStep(r)
  BY <1>1 DEF Check, TokenStep, At, Pass, Refuse, effectVars
<1> USE DEF Step, Resolves
<1>2. CASE gate_post(r) \/ verify_hs_token(r) \/ decode_json_body(r)
  BY <1>1, <1>2 DEF gate_post, verify_hs_token, decode_json_body
<1>3. CASE verify_openid_token(r)
  BY <1>1, <1>3 DEF verify_openid_token
<1>4. CASE require_non_empty_header(r) \/ require_matching_lk_url(r)
  BY <1>1, <1>4 DEF require_non_empty_header, require_matching_lk_url
<1>5. CASE matrix_server_name(r) \/ require_origin(r)
  BY <1>1, <1>5 DEF matrix_server_name, require_origin
<1> QED
  BY <1>2, <1>3, <1>4, <1>5

\* A request that calls with the as_token passes that step or is refused.
LEMMA AskingIs ==
  ASSUME NEW r \in Requests, NEW step \in AsTokenSteps, At(r, step),
         AsksHomeserver(r),
         \/ Pass(r) \/ \E status : Refuse(r, status)
         \/ /\ step \in AskingSteps
            /\ todo' = [todo EXCEPT ![r] = <<"relay_unstable">>]
  PROVE  TokenStep(r)
<1>1. /\ todo[r] # <<>> /\ Head(todo[r]) = step /\ step \notin Resolves
      /\ UNCHANGED environmentVars /\ UNCHANGED <<api, jobs>>
      /\ tokenSent' = tokenSent \cup {Sent(r)}
  BY DEF At, AsksHomeserver, AsTokenSteps, Resolves
<1>2. \/ todo' = [todo EXCEPT ![r] = Tail(todo[r])]
      \/ todo' = [todo EXCEPT ![r] = <<>>]
      \/ /\ step \in AskingSteps
         /\ todo' = [todo EXCEPT ![r] = <<"relay_unstable">>]
  BY DEF Pass, Refuse
<1> QED
  BY <1>1, <1>2 DEF TokenStep

LEMMA CallsAre ==
  ASSUME NEW r \in Requests,
         \/ RequireJoined(r) \/ enforce_legacy_membership(r)
         \/ look_up_delay_timeout(r) \/ request_get_token_via_federation(r)
         \/ trigger_appservice_ping(r)
  PROVE  TokenStep(r)
<1> USE DEF AskingSteps, AsTokenSteps
<1>1. ASSUME NEW step \in AskingSteps, NEW subject, require_joined(r, step, subject)
      PROVE  TokenStep(r)
  <2>1. At(r, step) /\ AsksHomeserver(r) /\ (Pass(r) \/ \E status : Refuse(r, status))
    BY <1>1 DEF require_joined
  <2> QED
    BY <2>1, AskingIs
<1>2. CASE RequireJoined(r) \/ enforce_legacy_membership(r)
  BY <1>1, <1>2 DEF RequireJoined, enforce_legacy_membership
<1>3. CASE look_up_delay_timeout(r)
  <2>1. /\ At(r, "look_up_delay") /\ AsksHomeserver(r)
        /\ Pass(r) \/ \E status : Refuse(r, status)
    BY <1>3 DEF look_up_delay_timeout
  <2> QED
    BY <2>1, AskingIs
<1>4. CASE request_get_token_via_federation(r)
  <2>1. /\ At(r, "relay") \/ At(r, "relay_unstable")
        /\ AsksHomeserver(r)
        /\ \/ Pass(r) \/ \E status : Refuse(r, status)
           \/ todo' = [todo EXCEPT ![r] = <<"relay_unstable">>]
    BY <1>4 DEF request_get_token_via_federation
  <2> QED
    BY <2>1, AskingIs
<1>5. CASE trigger_appservice_ping(r)
  <2>1. /\ At(r, "ping") /\ AsksHomeserver(r)
        /\ Pass(r) \/ \E status : Refuse(r, status)
    BY <1>5 DEF trigger_appservice_ping
  <2> QED
    BY <2>1, AskingIs
<1> QED
  BY <1>2, <1>3, <1>4, <1>5

LEMMA EffectsAre ==
  ASSUME NEW r \in Requests,
         \/ get_join_token(r) \/ create_livekit_room(r)
         \/ add_delayed_event_job(r) \/ HangUp(r)
  PROVE  TokenStep(r)
<1> USE DEF TokenStep, At, Pass, Refuse, Resolves
<1>1. CASE get_join_token(r)
  BY <1>1 DEF get_join_token
<1>2. CASE create_livekit_room(r)
  BY <1>2 DEF create_livekit_room
<1>3. CASE add_delayed_event_job(r)
  BY <1>3 DEF add_delayed_event_job
<1>4. CASE HangUp(r)
  BY <1>4 DEF HangUp
<1> QED
  BY <1>1, <1>2, <1>3, <1>4

LEMMA ResolvingIs ==
  ASSUME NEW r \in Requests, resolve_cs_api_url(r)
  PROVE  TokenStep(r)
<1>1. PICK step \in Resolves :
        /\ At(r, step)
        /\ \/ /\ Pass(r)
              /\ api' = [api EXCEPT ![r] = resolved_server(request[r], step)]
           \/ (Refuse(r, 400) \/ Refuse(r, 502)) /\ UNCHANGED api
        /\ UNCHANGED <<environmentVars, rooms, jobs, granted, tokenSent, relayed>>
  BY ResolveIs, Zenon DEF Resolves
<1> QED
  BY <1>1 DEF TokenStep, At, Pass, Refuse

LEMMA ArrivePreserves ==
  ASSUME SoundInv, TokenInv, NEW r \in Requests, Arrive(r)
  PROVE  TokenInv'
<1>1. PICK q \in Request :
        /\ Received(q) /\ request' = [request EXCEPT ![r] = q]
        /\ todo' = [todo EXCEPT ![r] = Program(q)]
  BY Zenon DEF Arrive
<1> DEFINE t == Program(q)
           Steps == Seq(StepsToCome)
<1>2. t \in Steps /\ Homeward(q, t) /\ Head(t) \notin AskingSteps
  BY <1>1, ProgramsKeepToTheConfiguration
<1>3. /\ config' = config /\ api' = api /\ tokenSent' = tokenSent /\ jobs' = jobs
      /\ request[r] = NoRequest
  BY DEF Arrive, effectVars
<1>4. /\ todo \in [Requests -> Steps]
      /\ request \in [Requests -> Request \cup {NoRequest}]
  BY DEF TokenInv, SoundInv, TypeOK
<1> HIDE DEF t, Steps
<1>5. /\ todo' \in [Requests -> Steps] /\ todo'[r] = t
      /\ \A s \in Requests \ {r} : todo'[s] = todo[s]
  BY <1>1, <1>2, <1>4 DEF t
<1>6. /\ request'[r] = q
      /\ \A s \in Requests \ {r} : request'[s] = request[s]
  BY <1>1, <1>4
<1>7. HomeBound(r)'
  <2>1. Homeward(request[r], todo[r])'
    BY <1>2, <1>5, <1>6 DEF Homeward, resolved_server
  <2> QED
    BY <1>2, <1>5, <2>1 DEF HomeBound
<1>8. \A s \in Requests \ {r} : HomeBound(s)'
  BY <1>3, <1>5, <1>6, OthersHomeBound DEF TokenInv
<1>9. AsTokenStaysHome'
  <2>1. HasAppService' = HasAppService
    BY <1>3, ConfigurationStays
  <2>2. ASSUME NEW sent \in tokenSent
        PROVE  /\ HasAppService
               /\ \/ sent.server = Ours
                  \/ PingTrigger /\ request'[sent.by].endpoint = "appservice_ping"
    <3>1. sent.by \in Requests
      BY DEF SoundInv, TypeOK
    <3>2. sent.by = r => request[sent.by].endpoint # "appservice_ping"
      BY <1>3 DEF NoRequest
    <3> QED
      BY <1>6, <3>1, <3>2 DEF TokenInv, AsTokenStaysHome
  <2> QED
    BY <1>3, <2>1, <2>2 DEF TokenInv, AsTokenStaysHome
<1> QED
  BY <1>3, <1>5, <1>7, <1>8, <1>9, ConfigurationStays DEF TokenInv, Steps

LEMMA EnvironmentPreserves ==
  ASSUME TokenInv,
         \/ \E s \in Subjects : JoinRoom(s) \/ LeaveRoom(s)
         \/ ShutDown \/ Answered \/ UNCHANGED vars
  PROVE  TokenInv'
<1>1. UNCHANGED <<config, request, todo, api, tokenSent, jobs>>
  BY DEF JoinRoom, LeaveRoom, ShutDown, Answered, vars, effectVars
<1>2. AsTokenStaysHome'
  BY <1>1, ConfigurationStays DEF TokenInv, AsTokenStaysHome
<1>3. \A s \in Requests : HomeBound(s)'
  BY <1>1, OthersHomeBound DEF TokenInv
<1> QED
  BY <1>1, <1>2, <1>3, ConfigurationStays DEF TokenInv

LEMMA InitKeepsTokens == Init => TokenInv
BY DEF Init, TokenInv, HomeBound, AsTokenStaysHome

\* Whichever homeservers the endpoints resolve for their other purposes, each
\* call with the as_token comes right after our own was resolved: it goes nowhere
\* else, but for the ping that names its server, and nobody is sent it without an
\* application service; and no job may use it on another server (the call sites
\* of resolve_cs_api_url and of add_delayed_event_job).
THEOREM TokenStaysHome == Spec => []AsTokenStaysHome
<1>1. Init => TokenInv
  BY InitKeepsTokens
<1>2. SoundInv /\ TokenInv /\ [Next]_vars => TokenInv'
  <2> SUFFICES ASSUME SoundInv, TokenInv, [Next]_vars PROVE TokenInv'
    OBVIOUS
  <2>1. ASSUME NEW r \in Requests, Process(r) \/ HangUp(r) PROVE TokenInv'
    BY <2>1, ChecksAre, CallsAre, EffectsAre, ResolvingIs, TokenStepPreserves
       DEF Process
  <2> QED
    BY <2>1, ArrivePreserves, EnvironmentPreserves DEF Next
<1>3. TokenInv => AsTokenStaysHome
  BY DEF TokenInv
<1> QED
  BY <1>1, <1>2, <1>3, SoundInvariant, PTL DEF Spec

-----------------------------------------------------------------------------
(* What the endpoints promise. *)

\* Whoever has left something behind has passed all checks.
LEMMA EffectsAreChecked ==
  ASSUME SoundInv, NEW r \in Requests, ~Effectless(r)
  PROVE  /\ request[r] # NoRequest /\ request[r] \in Request
         /\ Received(request[r]) /\ Outcome(r)
         /\ \A c \in Checks(request[r]) : Holds(r, c)
<1>1. Sound(r)
  BY DEF SoundInv
<1>2. request[r] # NoRequest
  BY <1>1 DEF Sound, Untouched, Effectless, NoReply, Ok
<1> QED
  BY <1>1, <1>2 DEF Sound, Guarded

\* All variables keep their types: a reply is one the endpoints give, and a job is
\* on a homeserver (the steps of handler.rs).
THEOREM TypeCorrect == Spec => []TypeOK
<1>1. SoundInv => TypeOK
  BY DEF SoundInv
<1> QED
  BY <1>1, SoundInvariant, PTL

\* The membership that decides who gets a token or a delegation is that of the
\* request's own users and homeservers, all of them, whatever the others did
\* between its awaits (require_joined, enforce_legacy_membership).
THEOREM MembersOnly == Spec => []MembershipGuards
<1>1. ASSUME SoundInv, NEW r \in Requests, HasEffect(r), NEW m \in MustBeJoined(r)
      PROVE  m \in seenJoined[r]
  <2> DEFINE q == request[r]
  <2>1. Sound(r)
    BY <1>1 DEF SoundInv
  <2>2. q # NoRequest /\ ~Effectless(r)
    BY <1>1, <2>1 DEF HasEffect, Sound, Untouched, Effectless, Ok, NoReply
  <2>3. /\ q \in Request
        /\ \A c \in Checks(q) : Holds(r, c)
    BY <1>1, <2>2, EffectsAreChecked
  <2>4. q.endpoint \in Endpoints
    BY <2>3, RequestIs
  <2>5. q.endpoint \in Proxied => "user_joined" \in Checks(q)
    BY DEF Checks, Standalone, Proxied
  <2>6. q.endpoint \in Standalone /\ verifies_legacy_membership(config)
            => "legacy_member" \in Checks(q)
    BY DEF Checks
  <2>7. q.endpoint = "get_token_ss" => "ours_joined" \in Checks(q)
    BY DEF Checks, Proxied
  <2>8. q.endpoint = "get_token_cs" /\ ~is_local(q)
            => "target_joined" \in Checks(q)
    BY DEF Checks, Proxied
  <2>9. \/ m = r /\ q.endpoint \in Proxied
        \/ m = r /\ q.endpoint \in Standalone /\ verifies_legacy_membership(config)
        \/ m = Ours /\ q.endpoint = "get_token_ss"
        \/ m = q.server /\ q.endpoint = "get_token_cs" /\ ~is_local(q)
    BY <1>1 DEF MustBeJoined
  <2> QED
    BY <2>3, <2>4, <2>5, <2>6, <2>7, <2>8, <2>9 DEF Holds
<1>2. SoundInv => MembershipGuards
  BY <1>1 DEF MembershipGuards
<1> QED
  BY <1>2, SoundInvariant, PTL

\* The second relay, on the unstable path, is of a request that its destination
\* has not acted on (request_get_token_via_federation).
THEOREM RelaysOnce == Spec => []RelayedAtMostOnce
<1>1. SoundInv => RelayedAtMostOnce
  BY DEF SoundInv, Sound, Untouched, RelayedAtMostOnce
<1> QED
  BY <1>1, SoundInvariant, PTL

\* A token to publish with comes with a room, and on the standalone endpoints
\* only full-access users have one created (get_token_response).
THEOREM PublishersAreAtHome == Spec => []PublishersHaveRooms
<1>1. SoundInv => PublishersHaveRooms
  <2> SUFFICES ASSUME SoundInv, NEW r \in Requests
               PROVE  /\ request[r].endpoint \in Standalone /\ r \in rooms
                            => is_full_access_user(request[r].server)
                      /\ reply[r] = Ok /\ granted[r] = "publish" => r \in rooms
    BY DEF PublishersHaveRooms
  <2> QED
    BY DEF SoundInv, Sound, Untouched, Outcome
<1> QED
  BY <1>1, SoundInvariant, PTL

\* A request that is refused after it created the room lost the answer of the SFU,
\* its token minted, or met the shutdown at its hand-over (create_livekit_room, then
\* add_delayed_event_job, come last).
THEOREM RoomsDoNotLinger == Spec => []NoLingeringRoom
<1>1. SoundInv => NoLingeringRoom
  <2> SUFFICES ASSUME SoundInv, NEW r \in Requests,
                      reply[r] \in Refusals, r \in rooms
               PROVE  \/ reply[r] = 500 /\ granted[r] # "none"
                      \/ shutdown /\ reply[r] = 503 /\ Delegates(request[r])
    BY DEF NoLingeringRoom
  <2> QED
    BY DEF SoundInv, Sound, Untouched, Outcome
<1> QED
  BY <1>1, SoundInvariant, PTL

\* A job exists only for a request that passed every check of its endpoint, and
\* only for users of a full-access homeserver or of the application service's
\* own (add_delayed_event_job and the checks of the endpoints that call it).
THEOREM DelegationsAreEarned == Spec => []DelegationIsEarned
<1>1. ASSUME SoundInv, NEW job \in jobs
      PROVE  LET q == request[job.of]
             IN /\ reply[job.of] \in {Ok, Gone}
                /\ Accepted(q) /\ Delegates(q) /\ q.sender = "genuine"
                /\ \/ is_full_access_user(job.server)
                   \/ job.server = Ours /\ q.endpoint = "delegate_cs"
  <2> DEFINE r == job.of
             q == request[r]
  <2>1. r \in Requests /\ HasJob(r)
    BY <1>1 DEF SoundInv, TypeOK, HasJob
  <2>2. Sound(r)
    BY <1>1, <2>1 DEF SoundInv
  <2>3. q # NoRequest /\ ~Effectless(r)
    BY <2>1, <2>2 DEF Sound, Untouched, Effectless
  <2>4. /\ q \in Request /\ Received(q) /\ Outcome(r)
        /\ \A c \in Checks(q) : Holds(r, c)
    BY <1>1, <2>1, <2>3, EffectsAreChecked
  <2> HIDE DEF r
  <2>5. /\ reply[r] \in {Ok, Gone} /\ job.server = q.server
        /\ \/ q.endpoint \in {"delegate", "delegate_cs"}
           \/ /\ q.endpoint \in Standalone
              /\ is_full_access_user(q.server) /\ Delegates(q)
    BY <1>1, <2>1, <2>4 DEF Outcome, r
  <2>6. q.method = "POST" /\ validate(q)
    BY <2>4 DEF Checks, Holds
  <2>7. q.endpoint \in Proxied => q.endpoint = "delegate_cs" /\ q.authorized
    BY <2>4, <2>5 DEF Checks, Holds, Standalone, Proxied
  <2>8. q.endpoint \in {"delegate", "delegate_cs"} => Delegates(q)
    BY <2>6 DEF validate, Required, DelegateDelayedLeaveRequest,
                DelegateDelayedLeaveCsRequest, Delegates
  <2>9. q.endpoint \in Standalone => q.sender = "genuine" /\ MayDelegate(q)
    BY <2>4 DEF Checks, Holds
  <2>10. q.endpoint = "delegate_cs" => q.sender = "genuine" /\ q.server = Ours
    <3> SUFFICES ASSUME q.endpoint = "delegate_cs"
                 PROVE  q.sender = "genuine" /\ q.server = Ours
      OBVIOUS
    <3>1. q.sender \in Senders("delegate_cs")
      BY <2>4 DEF Request, RequestTo
    <3>2. q.sender # "none" /\ q.sender # "malformed"
      BY <2>4 DEF Checks, Holds, Proxied
    <3> QED
      BY <2>4, <3>1, <3>2 DEF Senders, Standalone, Received
  <2>11. q.endpoint \in Standalone \/ q.endpoint = "delegate_cs"
    BY <2>5 DEF Standalone
  <2>12. Delegates(q)
    BY <2>5, <2>8
  <2>13. is_full_access_user(job.server)
            \/ (job.server = Ours /\ q.endpoint = "delegate_cs")
    BY <2>5, <2>9, <2>10, <2>11, <2>12 DEF MayDelegate
  <2>14. Accepted(q) /\ q.sender = "genuine"
    BY <2>6, <2>7, <2>9, <2>10, <2>11 DEF Accepted
  <2> QED
    BY <2>5, <2>12, <2>13, <2>14 DEF r
<1>2. SoundInv => DelegationIsEarned
  BY <1>1 DEF DelegationIsEarned
<1> QED
  BY <1>2, SoundInvariant, PTL

=============================================================================
