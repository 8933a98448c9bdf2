------------------------ MODULE ServerDiscoveryProofs ------------------------
(***************************************************************************)
(* Proofs about ServerDiscovery, for every number of callers and servers,  *)
(* bound of the cache, TTL and timeout.  The cache stays within its bound  *)
(* because a name is added only where there is room for it; its records    *)
(* are fresh because an answer arrives at most a timeout after it was      *)
(* asked for, and so after it was read.                                    *)
(***************************************************************************)
EXTENDS ServerDiscovery, FiniteSetTheorems, TLAPS

\* What the cache holds after a set: the names that were kept, and perhaps the
\* one that was set.
LEMMA SetChangesOneEntry ==
  ASSUME NEW name, NEW entry, set(name, entry)
  PROVE  /\ DOMAIN entries' \subseteq DOMAIN entries \cup {name}
         /\ \A n \in DOMAIN entries' :
                entries'[n] = IF n = name THEN entry ELSE entries[n]
<1>1. PICK names : /\ names \subseteq DOMAIN entries \cup {name}
                   /\ entries' = [n \in names |-> IF n = name THEN entry
                                                  ELSE entries[n]]
  <2> DEFINE kept == IF name \in DOMAIN entries \/ HasRoom(DOMAIN entries)
                     THEN DOMAIN entries ELSE Purge
             names == IF name \in kept \/ HasRoom(kept) THEN kept \cup {name}
                                                        ELSE kept
  <2>1. kept \subseteq DOMAIN entries
    BY DEF Purge
  <2>2. names \subseteq DOMAIN entries \cup {name}
    BY <2>1
  <2>3. entries' = [n \in names |-> IF n = name THEN entry ELSE entries[n]]
    BY DEF set
  <2> QED
    BY <2>2, <2>3
<1> QED
  BY <1>1

-----------------------------------------------------------------------------
\* The bound of the cache.
Bounded ==
    /\ IsFiniteSet(DOMAIN entries)
    /\ federation => Cardinality(DOMAIN entries) <= MaxEntries

\* No set brings the cache over its bound, whether the purge makes room or not.
LEMMA SetKeepsBound ==
  ASSUME Bounded, NEW name, NEW entry, set(name, entry), UNCHANGED federation
  PROVE  Bounded'
<1> DEFINE kept == IF name \in DOMAIN entries \/ HasRoom(DOMAIN entries)
                   THEN DOMAIN entries ELSE Purge
           names == IF name \in kept \/ HasRoom(kept) THEN kept \cup {name}
                                                      ELSE kept
<1>1. DOMAIN entries' = names
  BY DEF set
<1>2. kept \subseteq DOMAIN entries
  BY DEF Purge
<1>3. IsFiniteSet(kept) /\ Cardinality(kept) \in Nat
         /\ Cardinality(kept) <= Cardinality(DOMAIN entries)
  BY <1>2, FS_Subset, FS_CardinalityType DEF Bounded
<1>4. IsFiniteSet(names)
  BY <1>3, FS_AddElement
<1>5. federation => Cardinality(kept) <= MaxEntries
  BY <1>3, FS_CardinalityType, CacheAssumption DEF Bounded
<1>6. CASE name \in kept
  <2>1. names = kept
    BY <1>6
  <2> QED
    BY <1>1, <1>4, <1>5, <2>1 DEF Bounded
<1>7. CASE name \notin kept /\ HasRoom(kept)
  <2>1. names = kept \cup {name}
    BY <1>7
  <2>2. Cardinality(names) = Cardinality(kept) + 1
    BY <1>3, <1>7, <2>1, FS_AddElement
  <2>3. federation => Cardinality(names) <= MaxEntries
    BY <1>3, <1>7, <2>2, CacheAssumption DEF HasRoom
  <2> QED
    BY <1>1, <1>4, <2>3 DEF Bounded
<1>8. CASE name \notin kept /\ ~HasRoom(kept)
  <2>1. names = kept
    BY <1>8
  <2> QED
    BY <1>1, <1>4, <1>5, <2>1 DEF Bounded
<1> QED
  BY <1>6, <1>7, <1>8

\* The federation cache never holds more than max_entries, live or expired.
THEOREM CacheBounded == Spec => []CacheStaysBounded
<1>1. Init => Bounded
  <2>1. Init => DOMAIN entries = {}
    BY DEF Init
  <2> QED
    BY <2>1, FS_EmptySet, CacheAssumption DEF Bounded
<1>2. Bounded /\ [Next]_vars => Bounded'
  <2> SUFFICES ASSUME Bounded, [Next]_vars PROVE Bounded'
    OBVIOUS
  <2>1. CASE UNCHANGED <<federation, entries>>
    BY <2>1 DEF Bounded
  <2>2. ASSUME NEW c \in Callers, Finish(c) \/ LoseBody(c),
               ~UNCHANGED <<federation, entries>>
        PROVE  Bounded'
    <3>1. PICK lost \in BOOLEAN : CacheAndReturn(c, lost)
      BY <2>2 DEF Finish, LoseBody
    <3>2. UNCHANGED federation
      BY <2>2 DEF Finish, LoseBody
    <3> QED
      BY <3>1, <3>2, SetKeepsBound DEF CacheAndReturn
  <2>3. ASSUME NEW c \in Callers, NEW name \in Servers,
               ReturnCached(c, name) \/ Ask(c, name)
        PROVE  UNCHANGED <<federation, entries>>
    BY <2>3 DEF ReturnCached, Ask
  <2>4. ASSUME NEW c \in Callers, Answer(c) \/ Fail(c)
        PROVE  UNCHANGED <<federation, entries>>
    BY <2>4 DEF Answer, Fail
  <2>5. CASE Tick \/ UNCHANGED vars
    BY <2>1, <2>5 DEF Tick, vars
  <2> QED
    BY <2>1, <2>2, <2>3, <2>4, <2>5 DEF Next
<1>3. Bounded => CacheStaysBounded
  BY DEF Bounded, CacheStaysBounded
<1> QED
  BY <1>1, <1>2, <1>3, PTL DEF Spec

-----------------------------------------------------------------------------
\* What is known of a caller from the stage it is at.
LEMMA CallerAtStage ==
  ASSUME TypeOK, NEW c \in Callers
  PROVE  /\ caller[c] = Idle \/ caller[c] \in Asking \/ caller[c] \in Answered
         /\ caller[c].stage = "asking" => caller[c] \in Asking
         /\ caller[c].stage = "answered" => caller[c] \in Answered
         /\ caller[c].stage # "idle" => caller[c].name \in Servers
                                          /\ caller[c].asked \in 0 .. now
BY DEF TypeOK, Idle, Asking, Answered

LEMMA IntervalGrows ==
  ASSUME NEW a \in Nat, NEW b \in Nat, NEW d \in Nat, a <= b
  PROVE  0 .. (a + d) \subseteq 0 .. (b + d)
<1>1. a + d <= b + d
  OBVIOUS
<1>2. a + d \in Nat /\ b + d \in Nat
  OBVIOUS
<1> QED
  BY <1>1, <1>2

\* Times that are not after the clock stay so.
LEMMA TypesGrow ==
  ASSUME now \in Nat, now' \in Nat, now <= now'
  PROVE  /\ Asking \subseteq Asking'
         /\ Answered \subseteq Answered'
         /\ Entry \subseteq Entry'
<1>1. 0 .. now \subseteq 0 .. now'
  OBVIOUS
<1>2. 0 .. (now + Ttl) \subseteq 0 .. (now' + Ttl)
  BY CacheAssumption, IntervalGrows
<1>3. Asking \subseteq Asking'
  BY <1>1 DEF Asking
<1>4. Answered \subseteq Answered'
  BY <1>1 DEF Answered
<1>5. Entry \subseteq Entry'
  BY <1>1, <1>2 DEF Entry
<1> QED
  BY <1>3, <1>4, <1>5

\* A set of an entry of the right type, at the same time.
LEMMA SetKeepsType ==
  ASSUME TypeOK, NEW c \in Callers, caller[c].stage = "answered",
         NEW lost \in BOOLEAN, CacheAndReturn(c, lost), now' = now
  PROVE  /\ DOMAIN entries' \in SUBSET Servers
         /\ entries' \in [DOMAIN entries' -> Entry']
         /\ age' \in Nat
<1> DEFINE entry == [expires_at |-> Expiry, readAt |-> caller[c].readAt,
                     lost |-> lost]
<1>1. caller[c] \in Answered
  BY CallerAtStage
<1>2. caller[c].name \in Servers /\ caller[c].readAt \in 0 .. now
  BY <1>1 DEF Answered
<1>3. Expiry \in 0 .. (now + Ttl)
  BY CacheAssumption DEF Expiry, TypeOK
<1>4. entry \in Entry
  BY <1>2, <1>3 DEF Entry
<1>5. Entry' = Entry
  BY DEF Entry
<1>6. set(caller[c].name, entry)
  BY DEF CacheAndReturn
<1>7. DOMAIN entries' \in SUBSET Servers
  BY <1>2, <1>6, SetChangesOneEntry DEF TypeOK
<1>8. \A n \in DOMAIN entries' : entries'[n] \in Entry
  <2> SUFFICES ASSUME NEW n \in DOMAIN entries' PROVE entries'[n] \in Entry
    OBVIOUS
  <2>1. n \in DOMAIN entries \cup {caller[c].name}
    BY <1>6, SetChangesOneEntry
  <2>2. entries'[n] = IF n = caller[c].name THEN entry ELSE entries[n]
    BY <1>6, SetChangesOneEntry
  <2> QED
    BY <1>4, <2>1, <2>2 DEF TypeOK
<1>9. entries' = [n \in DOMAIN entries' |-> entries'[n]]
  BY <1>6 DEF set
<1>10. age' \in Nat
  BY <1>2 DEF CacheAndReturn, TypeOK
<1> QED
  BY <1>5, <1>7, <1>8, <1>9, <1>10

\* Every time in the cache and among the callers is one that has been, and an
\* entry expires at most a TTL from now.
THEOREM TypeCorrect == Spec => []TypeOK
<1>1. Init => TypeOK
  BY DEF Init, TypeOK, Idle
<1>2. TypeOK /\ [Next]_vars => TypeOK'
  <2> SUFFICES ASSUME TypeOK, [Next]_vars PROVE TypeOK'
    OBVIOUS
  <2>1. ASSUME NEW c \in Callers, NEW name \in Servers, ReturnCached(c, name)
        PROVE  TypeOK'
    <3>1. entries[name].readAt \in 0 .. now
      BY <2>1 DEF ReturnCached, get, TypeOK, Entry
    <3>2. age' \in Nat
      BY <2>1, <3>1 DEF ReturnCached, TypeOK
    <3> QED
      BY <2>1, <3>2 DEF ReturnCached, TypeOK, Entry, Asking, Answered
  <2>2. ASSUME NEW c \in Callers, NEW name \in Servers, Ask(c, name)
        PROVE  TypeOK'
    <3>1. [stage |-> "asking", name |-> name, asked |-> now] \in Asking
      BY DEF Asking, TypeOK
    <3>2. caller' \in [Callers -> {Idle} \cup Asking \cup Answered]
      BY <2>2, <3>1 DEF Ask, TypeOK
    <3> QED
      BY <2>2, <3>2 DEF Ask, TypeOK, Entry, Asking, Answered
  <2>3. ASSUME NEW c \in Callers, Answer(c) PROVE TypeOK'
    <3>1. caller[c].name \in Servers /\ caller[c].asked \in 0 .. now
      BY <2>3, CallerAtStage DEF Answer
    <3>2. \A found \in BOOLEAN :
            [stage |-> "answered", name |-> caller[c].name,
             asked |-> caller[c].asked, readAt |-> now, found |-> found]
               \in Answered
      BY <3>1 DEF Answered, TypeOK
    <3>3. caller' \in [Callers -> {Idle} \cup Asking \cup Answered]
      BY <2>3, <3>2 DEF Answer, TypeOK
    <3> QED
      BY <2>3, <3>3 DEF Answer, TypeOK, Entry, Asking, Answered
  <2>4. ASSUME NEW c \in Callers, Fail(c) PROVE TypeOK'
    <3>1. caller' \in [Callers -> {Idle} \cup Asking \cup Answered]
      BY <2>4 DEF Fail, TypeOK
    <3> QED
      BY <2>4, <3>1 DEF Fail, TypeOK, Entry, Asking, Answered
  <2>5. ASSUME NEW c \in Callers, Finish(c) \/ LoseBody(c) PROVE TypeOK'
    <3>1. caller' \in [Callers -> {Idle} \cup Asking \cup Answered]
      BY <2>5 DEF Finish, LoseBody, TypeOK
    <3>2. /\ now' = now /\ caller[c].stage = "answered"
          /\ federation' \in BOOLEAN
      BY <2>5 DEF Finish, LoseBody, TypeOK
    <3>3. CASE UNCHANGED <<entries, age>>
      BY <3>1, <3>2, <3>3 DEF TypeOK, Entry, Asking, Answered
    <3>4. ASSUME NEW lost \in BOOLEAN, CacheAndReturn(c, lost) PROVE TypeOK'
      <4>1. /\ DOMAIN entries' \in SUBSET Servers
            /\ entries' \in [DOMAIN entries' -> Entry']
            /\ age' \in Nat
        BY <3>2, <3>4, SetKeepsType
      <4> QED
        BY <3>1, <3>2, <4>1 DEF TypeOK, Asking, Answered
    <3> QED
      BY <2>5, <3>3, <3>4 DEF Finish, LoseBody
  <2>6. CASE Tick
    <3>1. now' \in Nat /\ now <= now'
      BY <2>6 DEF Tick, TypeOK
    <3>2. Asking \subseteq Asking' /\ Answered \subseteq Answered'
             /\ Entry \subseteq Entry'
      BY <3>1, TypesGrow DEF TypeOK
    <3>3. caller' \in [Callers -> {Idle} \cup Asking' \cup Answered']
      BY <2>6, <3>2 DEF Tick, TypeOK
    <3>4. entries' \in [DOMAIN entries' -> Entry']
      BY <2>6, <3>2 DEF Tick, TypeOK
    <3> QED
      BY <2>6, <3>1, <3>3, <3>4 DEF Tick, TypeOK, Idle
  <2>7. CASE UNCHANGED vars
    BY <2>7 DEF vars, TypeOK, Entry, Asking, Answered
  <2> QED
    BY <2>1, <2>2, <2>3, <2>4, <2>5, <2>6, <2>7 DEF Next
<1> QED
  BY <1>1, <1>2, PTL DEF Spec

-----------------------------------------------------------------------------
\* How old a record can be while it is cached or on its way.
Fresh ==
    /\ \A name \in DOMAIN entries :
            entries[name].expires_at <= entries[name].readAt + Ttl + Timeout
    /\ \A c \in Callers :
            /\ caller[c].stage # "idle" => now <= caller[c].asked + Timeout
            /\ caller[c].stage = "answered" =>
                    caller[c].asked <= caller[c].readAt
    /\ age <= Ttl + Timeout

LEMMA FreshInductive ==
  ASSUME TypeOK, Fresh, [Next]_vars
  PROVE  Fresh'
<1> USE CacheAssumption, TimeAssumption
<1>1. ASSUME NEW c \in Callers, NEW name \in Servers, ReturnCached(c, name)
      PROVE  Fresh'
  <2>1. /\ entries[name].expires_at \in Nat /\ entries[name].readAt \in 0 .. now
        /\ now <= entries[name].expires_at
        /\ entries[name].expires_at <= entries[name].readAt + Ttl + Timeout
    BY <1>1 DEF ReturnCached, get, Live, TypeOK, Entry, Fresh
  <2>2. age' <= Ttl + Timeout
    BY <1>1, <2>1 DEF ReturnCached, TypeOK
  <2> QED
    BY <1>1, <2>2 DEF ReturnCached, Fresh
<1>2. ASSUME NEW c \in Callers, NEW name \in Servers, Ask(c, name)
      PROVE  Fresh'
  <2>1. \A d \in Callers :
            caller'[d] = IF d = c THEN [stage |-> "asking", name |-> name,
                                        asked |-> now]
                                  ELSE caller[d]
    BY <1>2 DEF Ask, TypeOK
  <2>2. now <= now + Timeout
    BY DEF TypeOK
  <2> QED
    BY <1>2, <2>1, <2>2 DEF Ask, Fresh
<1>3. ASSUME NEW c \in Callers, Answer(c) PROVE Fresh'
  <2>1. PICK found \in BOOLEAN :
            \A d \in Callers :
                caller'[d] = IF d = c
                             THEN [stage |-> "answered", name |-> caller[c].name,
                                   asked |-> caller[c].asked, readAt |-> now,
                                   found |-> found]
                             ELSE caller[d]
    BY <1>3 DEF Answer, TypeOK
  <2>2. caller[c].asked <= now /\ now <= caller[c].asked + Timeout
    BY <1>3, CallerAtStage DEF Answer, Fresh
  <2> QED
    BY <1>3, <2>1, <2>2 DEF Answer, Fresh
<1>4. ASSUME NEW c \in Callers, Fail(c) PROVE Fresh'
  <2>1. \A d \in Callers : caller'[d] = IF d = c THEN Idle ELSE caller[d]
    BY <1>4 DEF Fail, TypeOK
  <2> QED
    BY <1>4, <2>1 DEF Fail, Fresh, Idle
<1>5. ASSUME NEW c \in Callers, Finish(c) \/ LoseBody(c) PROVE Fresh'
  <2>1. \A d \in Callers : caller'[d] = IF d = c THEN Idle ELSE caller[d]
    BY <1>5 DEF Finish, LoseBody, TypeOK
  <2>2. now' = now /\ caller[c].stage = "answered"
    BY <1>5 DEF Finish, LoseBody
  <2>3. CASE UNCHANGED <<entries, age>>
    BY <2>1, <2>2, <2>3 DEF Fresh, Idle
  <2>4. ASSUME NEW lost \in BOOLEAN, CacheAndReturn(c, lost) PROVE Fresh'
    <3> DEFINE entry == [expires_at |-> Expiry, readAt |-> caller[c].readAt,
                         lost |-> lost]
    <3>1. caller[c].readAt \in 0 .. now /\ caller[c].asked \in 0 .. now
      BY <2>2, CallerAtStage DEF Answered
    <3>2. now <= caller[c].readAt + Timeout
      BY <2>2, <3>1 DEF Fresh, TypeOK
    <3>3. entry.expires_at <= entry.readAt + Ttl + Timeout
      BY <3>1, <3>2 DEF Expiry, TypeOK
    <3>4. \A n \in DOMAIN entries' :
            entries'[n].expires_at <= entries'[n].readAt + Ttl + Timeout
      BY <2>4, <3>3, SetChangesOneEntry DEF CacheAndReturn, Fresh
    <3>5. age' <= Ttl + Timeout
      BY <2>4, <3>1, <3>2 DEF CacheAndReturn, TypeOK
    <3> QED
      BY <2>1, <2>2, <3>4, <3>5 DEF Fresh, Idle
  <2> QED
    BY <1>5, <2>3, <2>4 DEF Finish, LoseBody
<1>6. CASE Tick
  <2>1. \A c \in Callers :
            caller[c].stage # "idle" => now' <= caller[c].asked + Timeout
    BY <1>6, CallerAtStage DEF Tick, TypeOK
  <2> QED
    BY <1>6, <2>1 DEF Tick, Fresh
<1>7. CASE UNCHANGED vars
  BY <1>7 DEF vars, Fresh
<1> QED
  BY <1>1, <1>2, <1>3, <1>4, <1>5, <1>6, <1>7 DEF Next

\* No caller gets a record that was read more than a TTL and a timeout ago,
\* however the answers of concurrent callers overtake one another.
THEOREM AlwaysFresh == Spec => []RecordsAreFresh
<1>1. Init => Fresh
  BY CacheAssumption, TimeAssumption DEF Init, Fresh, Idle
<1>2. TypeOK /\ Fresh /\ [Next]_vars => Fresh'
  BY FreshInductive
<1>3. Fresh => RecordsAreFresh
  BY DEF Fresh, RecordsAreFresh
<1> QED
  BY <1>1, <1>2, <1>3, TypeCorrect, PTL DEF Spec

-----------------------------------------------------------------------------
\* A set keeps every live entry; the one that it replaces is replaced by what
\* expires no earlier.
LEMMA SetKeepsLive ==
  ASSUME NEW name, NEW entry, set(name, entry),
         NEW n \in DOMAIN entries, Live(n)
  PROVE  /\ n \in DOMAIN entries'
         /\ entries'[n] = IF n = name THEN entry ELSE entries[n]
<1> DEFINE kept == IF name \in DOMAIN entries \/ HasRoom(DOMAIN entries)
                   THEN DOMAIN entries ELSE Purge
           names == IF name \in kept \/ HasRoom(kept) THEN kept \cup {name}
                                                      ELSE kept
<1>1. n \in kept
  BY DEF Purge
<1>2. n \in names
  BY <1>1
<1>3. entries' = [m \in names |-> IF m = name THEN entry ELSE entries[m]]
  BY DEF set
<1> HIDE DEF names
<1> QED
  BY <1>2, <1>3

\* No insert costs another server its live entry, whether the cache is full or
\* not, and none makes the entry of its own server expire earlier.
THEOREM LiveIsKept == Spec => LiveEntriesKept
<1> DEFINE Kept == \A name \in DOMAIN entries :
                     Live(name) => /\ name \in DOMAIN entries'
                                   /\ entries'[name].expires_at
                                         >= entries[name].expires_at
<1>1. ASSUME TypeOK, Next
      PROVE  Kept
  <2>1. \A name \in DOMAIN entries :
          /\ entries[name].expires_at \in Nat
          /\ entries[name].expires_at <= now + Ttl
    BY <1>1, CacheAssumption DEF TypeOK, Entry
  <2>2. CASE UNCHANGED entries
    BY <2>1, <2>2
  <2>3. ASSUME NEW c \in Callers, NEW lost \in BOOLEAN, CacheAndReturn(c, lost)
        PROVE  Kept
    <3> DEFINE entry == [expires_at |-> Expiry, readAt |-> caller[c].readAt,
                         lost |-> lost]
    <3>1. set(caller[c].name, entry)
      BY <2>3 DEF CacheAndReturn
    <3>2. entry.expires_at = now + Ttl
      BY DEF Expiry
    <3> HIDE DEF entry
    <3> SUFFICES ASSUME NEW name \in DOMAIN entries, Live(name)
                 PROVE  /\ name \in DOMAIN entries'
                        /\ entries'[name].expires_at
                              >= entries[name].expires_at
      OBVIOUS
    <3>3. /\ name \in DOMAIN entries'
          /\ entries'[name] =
                IF name = caller[c].name THEN entry ELSE entries[name]
      BY <3>1, SetKeepsLive
    <3> QED
      BY <2>1, <3>2, <3>3
  <2>4. ASSUME NEW c \in Callers, Finish(c) \/ LoseBody(c)
        PROVE  Kept
    <3>1. UNCHANGED entries \/ \E lost \in BOOLEAN : CacheAndReturn(c, lost)
      BY <2>4 DEF Finish, LoseBody
    <3> QED
      BY <2>2, <2>3, <3>1
  <2>5. ASSUME NEW c \in Callers, Answer(c) \/ Fail(c)
        PROVE  UNCHANGED entries
    BY <2>5 DEF Answer, Fail
  <2>6. ASSUME NEW c \in Callers, NEW name \in Servers,
               ReturnCached(c, name) \/ Ask(c, name)
        PROVE  UNCHANGED entries
    BY <2>6 DEF ReturnCached, Ask
  <2>7. Tick => UNCHANGED entries
    BY DEF Tick
  <2> HIDE DEF Kept
  <2> QED
    BY <1>1, <2>2, <2>4, <2>5, <2>6, <2>7 DEF Next
<1>2. TypeOK /\ [Next]_vars => [Kept]_vars
  BY <1>1
<1> QED
  BY <1>2, TypeCorrect, PTL DEF Spec, LiveEntriesKept

=============================================================================
