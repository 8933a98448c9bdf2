---------------------------- MODULE ServerDiscovery ----------------------------
(***************************************************************************)
(* helper.rs: the TTL cache and the two discoveries in front of it, by     *)
(* callers that run concurrently: resolve_cs_api_url_via, over the         *)
(* unbounded cache of Client-Server API URLs, and                          *)
(* resolve_federation_base_url_with, over a bounded one.                   *)
(*                                                                         *)
(* Abstractions.                                                           *)
(*   - A record is known by when it was read from its server; the answer   *)
(*     arrives at a later moment, within the timeout of the request.       *)
(*   - No lock is held across an await, so get and set are atomic.         *)
(*   - Servers have neither an override nor an explicit port: the others   *)
(*     are answered without the cache.                                     *)
(***************************************************************************)
EXTENDS Naturals, FiniteSets

CONSTANTS
    Callers,        \* requests in need of a URL
    Servers,        \* server names
    MaxEntries,     \* max_entries of the bounded cache
    Ttl,            \* how long a record is cached
    Timeout,        \* of a request for one
    MaxTime         \* bound on the clock

ASSUME CacheAssumption == MaxEntries \in Nat \ {0} /\ Ttl \in Nat
ASSUME TimeAssumption == Timeout \in Nat /\ MaxTime \in Nat

VARIABLES
    federation, \* which discovery it is: true for federation URLs
    now,        \* the clock
    entries,    \* the cache: by server name, when the entry expires and, as
                \* history, when it was read and whether its body was lost
    caller,     \* what each caller is waiting for
    age         \* history: how old the last record was that a caller got

vars == <<federation, now, entries, caller, age>>

Entry == [expires_at : 0 .. (now + Ttl), readAt : 0 .. now, lost : BOOLEAN]
Idle == [stage |-> "idle"]
Asking == [stage : {"asking"}, name : Servers, asked : 0 .. now]
Answered ==
    [stage : {"answered"}, name : Servers, asked : 0 .. now,
     readAt : 0 .. now, found : BOOLEAN]

TypeOK ==
    /\ federation \in BOOLEAN
    /\ now \in Nat
    /\ DOMAIN entries \in SUBSET Servers
    /\ entries \in [DOMAIN entries -> Entry]
    /\ caller \in [Callers -> {Idle} \cup Asking \cup Answered]
    /\ age \in Nat

Init ==
    /\ federation \in BOOLEAN
    /\ now = 0
    /\ entries = [name \in {} |-> 0]
    /\ caller = [c \in Callers |-> Idle]
    /\ age = 0

-----------------------------------------------------------------------------
(* TtlCache. *)

Live(name) == now <= entries[name].expires_at

\* Expired entries are not evicted; a mutant does not look whether they are.
get_anything(name) == name \in DOMAIN entries
get(name) == name \in DOMAIN entries /\ Live(name)

\* The names that are left when there is no room for another one; mutants make
\* room whatever it takes, or forget that the purge may not.
PurgeAll == {}
Purge == {name \in DOMAIN entries : Live(name)}

HasRoomAfterPurge(names) == TRUE
HasRoom(names) == ~federation \/ Cardinality(names) < MaxEntries

set(name, entry) ==
    LET kept == IF name \in DOMAIN entries \/ HasRoom(DOMAIN entries)
                THEN DOMAIN entries ELSE Purge
        names == IF name \in kept \/ HasRoom(kept) THEN kept \cup {name}
                                                   ELSE kept
    IN  entries' = [n \in names |-> IF n = name THEN entry ELSE entries[n]]

-----------------------------------------------------------------------------
(* The callers. *)

ReturnCached(c, name) ==
    /\ caller[c] = Idle
    /\ get(name)
    /\ age' = now - entries[name].readAt
    /\ UNCHANGED <<federation, now, entries, caller>>

Ask(c, name) ==
    /\ caller[c] = Idle
    /\ ~get(name)
    /\ caller' = [caller EXCEPT ![c] = [stage |-> "asking", name |-> name,
                                        asked |-> now]]
    /\ UNCHANGED <<federation, now, entries, age>>

\* The server, external, answers with what it publishes now, if anything; its
\* status and headers are there before the body.
Answer(c) ==
    /\ caller[c].stage = "asking"
    /\ \E found \in BOOLEAN :
            caller' = [caller EXCEPT ![c] =
                        [stage |-> "answered", name |-> caller[c].name,
                         asked |-> caller[c].asked, readAt |-> now,
                         found |-> found]]
    /\ UNCHANGED <<federation, now, entries, age>>

\* The request fails: a federation caller falls back to the default port.
Fail(c) ==
    /\ caller[c].stage = "asking"
    /\ caller' = [caller EXCEPT ![c] = Idle]
    /\ UNCHANGED <<federation, now, entries, age>>

Expiry == now + Ttl

CacheAndReturn(c, lost) ==
    /\ set(caller[c].name, [expires_at |-> Expiry,
                            readAt |-> caller[c].readAt, lost |-> lost])
    /\ age' = now - caller[c].readAt

\* The rest of the answer arrives.  The record is cached and returned; that
\* there is none is an error, except that a federation caller caches its
\* fallback, also when the connection broke or timed out meanwhile.
Finish(c) ==
    /\ caller[c].stage = "answered"
    /\ caller' = [caller EXCEPT ![c] = Idle]
    /\ \/ /\ caller[c].found \/ federation
          /\ CacheAndReturn(c, FALSE)
       \/ /\ ~caller[c].found /\ ~federation
          /\ UNCHANGED <<entries, age>>
    /\ UNCHANGED <<federation, now>>

LoseBody(c) ==
    /\ caller[c].stage = "answered"
    /\ caller' = [caller EXCEPT ![c] = Idle]
    /\ IF federation THEN CacheAndReturn(c, TRUE)
                     ELSE UNCHANGED <<entries, age>>
    /\ UNCHANGED <<federation, now>>

\* Time passes, but no request outlives its timeout.
Tick ==
    /\ now < MaxTime
    /\ \A c \in Callers :
            caller[c].stage # "idle" => now < caller[c].asked + Timeout
    /\ now' = now + 1
    /\ UNCHANGED <<federation, entries, caller, age>>

-----------------------------------------------------------------------------
Next ==
    \/ \E c \in Callers, name \in Servers : ReturnCached(c, name) \/ Ask(c, name)
    \/ \E c \in Callers :
            Answer(c) \/ Fail(c) \/ Finish(c) \/ LoseBody(c)
    \/ Tick

Spec == Init /\ [][Next]_vars

-----------------------------------------------------------------------------
(* Properties. *)

\* "Holds at most max_entries live entries", "bounded because server names
\* arrive in unauthenticated requests": neither the expired entries that get
\* leaves behind nor callers that answer at once push the cache over its bound.
CacheStaysBounded == federation => Cardinality(DOMAIN entries) <= MaxEntries

\* "Fresh .well-known discovery" at least once in a TTL: no caller gets a record
\* that was read longer ago than the TTL and one request timeout, even when a
\* slow caller overwrites the entry of a faster one with an older record.
RecordsAreFresh == age <= Ttl + Timeout

\* Inserts beyond the bound "first purge expired entries and are dropped when the
\* cache is still full": no insert costs another server its live entry, so none
\* is asked again before its TTL is over.
LiveEntriesKept ==
    [][\A name \in DOMAIN entries :
            Live(name) => /\ name \in DOMAIN entries'
                          /\ entries'[name].expires_at
                                >= entries[name].expires_at]_vars

\* "Transport errors are not cached -- the next request retries": an entry holds
\* what its server answered, to the end.
TransportErrorsNotCached == \A name \in DOMAIN entries : ~entries[name].lost

=============================================================================
