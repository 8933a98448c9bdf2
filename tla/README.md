# A formal model of lk-jwt-service

The service gives Matrix users access to LiveKit rooms and looks after their
*delegated delayed leave events*: a MatrixRTC client that joins a call schedules a
leave event on its homeserver and hands it to the service, which restarts the
event while the client is on the SFU and sends it once the client has left.

These modules model the parts of the service in which that can go wrong. TLC checks
them on small instances, and TLAPS proves the results that matter most for every
value of the constants.

## The system

| Part | Source | State it keeps | Operations | Hard because |
|---|---|---|---|---|
| Delayed-event job | `delayed_event_manager.rs` | FSM state, restart deadline, event channel, result channel, two timers, token | loop, transitions with entry and exit actions, ActionRestart, ActionSend, timers, lookup, stop | five kinds of tasks send to the loop they were spawned by; results and timers arrive late; channels fill up |
| Teardown of a job | `delayed_event_manager.rs` | count of the wait group, `Notify`, watch channel | guard, drop, wait, exit, `close()` | a notification leaves nothing behind for whoever waits later |
| Retry | `retry.rs` | backoff interval, start of the call | attempt, back off, obey a hint, give up | budget, hints and cancellation race |
| Handler loop | `handler.rs` | map of current jobs, channels, recovery and done flags | add, replace, route a webhook, job done, job restarted, recover, shut down | late signals of replaced jobs, full channels, crashes |
| Store | `store.rs`, writer task in `handler.rs` | one job per key, 256 queued writes | save, delete, load | asynchronous, may fail, outlives the process |
| Endpoints | `handler.rs`, `requests.rs` | none of their own | six endpoints and the trigger of the ping, each a chain of checks and effects with awaits between them | memberships change meanwhile, a late step fails, clients hang up |
| Discovery | `helper.rs` | two TTL caches | look up, ask, cache | concurrent callers, answers that overtake each other, unauthenticated names |
| Outbound calls | `helper.rs` | none | Twirp, delayed-event actions, user info, membership, federation proxy | answers that are lost, cut short, or come from an ingress in between |
| Webhooks | `handler.rs` | none | signature check, mapping to a signal | lost, late, out of order |
| Process and health check | `main.rs`, `bin/healthcheck.rs`, `config.rs` | bind addresses, the path of a unix socket | configure, connect, bind with fallback, die, start again | the check has to find the address the service fell back to; a killed process leaves its socket behind |
| JWT and hashes, ping, router | the rest | none | one stateless request each | nothing to interleave |

How they interact: an endpoint calls `add_delayed_event_job`, which sends a request
to the handler loop and waits for a reply. The loop makes a job, puts it into its
map, queues the write to the store, starts the job's loop and its participant
lookup, and leaves the reply to a task that waits for the write. Webhooks are routed
to the job of their room and identity. A job reports back on `job_restarted` (the
stored entry is updated) and on `job_done` (it leaves the map and the store and is
stopped). Cancellation tokens form a tree: handler, job, timers. Jobs find the
homeserver through discovery and retry their requests through `retry()`.

`main` never calls `Handler::close`: in production the process ends by being killed,
at any point. The shutdown path, which the tests use, is modelled nevertheless, as
something that may happen, next to the kill.

What makes each part correct:

- *job*: one restart cycle, never two and never none; nothing late has an effect; the
  leave event is tried before the job is reported done; a full channel stops nobody;
- *handler*: one running job per key; the store is the map, delayed; success means
  durable; every caller is answered; shutdown ends;
- *teardown*: the loop of a stopped job exits, and `close()` returns only when no task
  works;
- *retry*: attempts stay in their budget, wait as asked, and stop with the token;
- *endpoints*: effects only after their checks, whatever changes in between;
- *discovery*: bounded, fresh, and no answer made up;
- *process*: a restart serves again, and the health check tells whether it does.

The full list of hazards, each with its line and the properties that cover it, is in
`PROJECT.json`.

## The modules

Two abstract specifications say what is promised, without the machinery:

**`DelayedLeave`** What a job promises its owner and the handler: it waits, keeps the
leave event from firing, and ends once, by sending it, without that, or because it is
replaced; the handler is told at most once, after the send has its outcome, and is
spared that only when it has stopped the job. `DelayedEventJob` implements it
(`KeepsPromise`).

**`TaskDrain`** The draining of a set of tasks: nobody works once it is over, and
`close()` succeeds only then. `JobClose` implements it (`DrainsItsTasks`).

The modules that follow the code:

**`DelayedEventJob`** One job. The FSM tables are translated entry by entry
(`fsm_transitions`, `fsm_internal_actions`); `HandleTransition` runs exit action,
state change and entry action in one step as `handle_state_transition` does. Each task
is a process known by the await it is at: `waitingTimer`, `restartTimers`
(counted by whether their token is live, cancelled, or past the sleep), `lookup`,
`restarts` (ActionRestart tasks by stage), `sender` (ActionSend), `notifier`. Between
two awaits a task takes one step. Every `select!` against the token is a pair of
actions, the second enabled once `cancelled`; where the code does *not* watch the
token (URL resolution, an attempt under way) there is no second action. Sends wait for
room in `events`. Time is abstract: a sleep may end at any moment and the deadline
passes at any moment. Here the wait group is simply the set of tasks.

**`JobClose`** The wait group itself: guards taken before a task is spawned,
`fetch_sub` and `notify_waiters` as two steps of the last drop, registration, look at
the count and sleep as three steps of `wait`, and the callers of `close()` behind the
watch channel, of which a receiver knows the versions it has seen. What the tasks do
is left out; that they end is shown by the other modules.

**`DelegatedLeave`** extends the job with the participant, the SFU's webhooks
(queued, perhaps lost) and the delayed event on the homeserver (`fresh`, `due`,
`sent` or, by its owner and without the service being told, `cancelled`). The
homeserver answers 404 or 409 to an action on an event that was sent or cancelled,
as `helper.rs:444`, `:862` and `:927` read it: 404 to either action, 409 to a restart,
and to a send only of a cancelled event. That it answers so of no event that is still
pending is assumed, and nothing the job could find out. The steps of the job that hear
from a server (`FindParticipant`, `MissParticipant`, `RestartAnswered`, `SendAnswered`)
are driven by the answer: the homeserver may act and its answer be lost, and
`OutboundCalls` says what the job makes of what arrives.

**`OutboundCalls`** One operator per call of `helper.rs` from the answer to the result
its callers tell apart: `twirp_call`, `execute_delayed_event_action` with its
rate-limit hints, `exchange_openid_userinfo`, `is_joined`, `get_delayed_event_delay`,
`discover_client_api`, `post_via_fed_proxy`. An answer is a status and what its body
says; a body may be `"broken"`.

**`Retry`** One call of `retry()` with a clock, preceded by the URL resolution both
callers do after they computed the budget. An attempt is not interrupted by the token;
a hint replaces the wait without advancing the schedule.

**`HandlerLoop`** The `select!` loop as a process that is at its `select!` or at the
await inside an arm (`enqueuing`, `routing`, `joining`, `flushing`). Jobs are what the
handler sees of them. A process may end anywhere and the next one recovers the stored
jobs while requests are already waiting. `save_job`, `delete_job` and `all_jobs` are
those of a store that works or fails; which, or whether there is one, is chosen once
per behaviour. The operations between the map and the store (`Operations`: the one
being written, the queue, the one the loop waits to enqueue) are a sequence with gaps,
of which a key looks at its own (`OperationsOn`).

**`TokenRequests`** The endpoints as programs: `Program(q)` is the chain of steps of a
request, one await in each, taken from the six handlers and from the trigger of the
application-service ping, which `PingTrigger` builds in; the step actions are the
helpers they share, from the method and the body (`validate` per request type) to the
LiveKit room, the token and its grant, the delegation and the relay to another
homeserver with its second attempt on the unstable path. The configuration
(full-access list, wildcard, application service, who may publish remotely) is chosen
in `Init`. The answers are those of `OutboundCalls`. Each endpoint resolves the
homeserver that its call site names (`resolved_server`) and keeps it in `api`; the
calls with the as_token, awaits later, go to what is there, and `tokenSent` records
to whom and for which request. A client that hangs up during a call leaves open
whether the other side acts on it: the room, the job, the relay and the token that
was sent may all come to be (`HangUp`).

**`ServerDiscovery`** `TtlCache` and the two discoveries. A record is known by when it
was read from its server, so its age can be told.

**`Configuration`** `parse_config` as an operator from an environment to the set of its
results, empty for an error: `required` is what has to be set, `Settings` the `Config`
that is built at the end. Text the code takes apart is a sequence of its parts.

**`Service`** The processes of the service and the health check over one environment:
parse, connect the store, create the handler (whose loop recovers stored jobs before
anything is bound), remove the socket's path, try the bind addresses in order, serve,
die anywhere. The host decides whether there is IPv6 and whether an IPv6 wildcard
takes the IPv4 one, too; a stranger may hold any TCP address.

**`MCHandlerLoop`, `MCServerDiscovery`, `MCTokenRequests`, `MCService`** give constants
values for TLC. **`DelayedEventJobProofs`, `DelayedLeaveProofs` (also of
`DelegatedLeave`), `JobCloseProofs`, `RetryProofs`, `HandlerLoopProofs`,
`TokenRequestsProofs`, `ServerDiscoveryProofs`, `ServiceProofs`** hold the theorems.

In every module some definitions come in two forms, the one the code has and one or
more *mutants* with a comment that says so: a mutant is a plausible bug, used to show
that a property would catch it. `PROJECT.json` says which property catches which.

## The runs

| Run | Question | Bounds and why they are enough |
|---|---|---|
| `DelayedEventJob` | Does a job keep the promise of `DelayedLeave`? Is there one restart cycle? Do late results and timers stay without effect? Is a closed job quiet? | Event channel of 2: it can be empty, partly full and full, and signals can overtake tasks. Task counts are not bounded; that they stay small is a result. |
| `DelayedEventJobLive` | Does a job leave its waiting state, report its end, and exit when stopped? | Event channel of 1, full most of the time, one kind of webhook to fill it at will, and no sanity check, so that only the waiting timer can end the wait. |
| `JobClose` | Does the wait group drain its tasks? Is a notification ever lost? | Three tasks, one of them the lookup, which the handler starts: a last drop, one before it and one taken late. Two callers of `close()`, one of which may come after the exit. |
| `HandlerLoop` | Do store and map agree? Are replaced jobs stopped, stale signals ignored, acknowledged jobs durable? | One key, as keys share only the channels; two requests, for a job and its replacement, one of which restarts its event; every channel of capacity 1; two processes, for one crash or restart. |
| `HandlerLoopLive` | Is everybody answered, and does shutdown end? | As above with a failing store, a job that may be impossible to create, and a single process. |
| `DelegatedLeave` | Does a job act on an absence it cannot know? Is what it concludes from an answer true, although answers are lost? Is the leave event of a participant who was seen sent in the end? | One participant, one session, event channel of 1, all three webhooks, sanity check on, webhooks and answers lost at will, the event cancelled by its owner at any time or not at all. 128,168 states. |
| `TokenRequests` | Do effects follow their checks? Does a publisher have a room? Is a request relayed once? Who is sent the as_token? | One request: requests share no state but the handler, and every other actor (memberships, shutdown) is there. Two homeservers, ours and another. Of the bodies, the empty one, each with one field missing, and the complete ones. The trigger of the ping is built in. 1,863,240 states, about a minute. |
| `Retry` | Are budget, waits and cancellation respected? | A tick is half a second; initial interval 1 s, cap 3 s, so that the schedule is capped within the budget of 7 s; hints below, at and above the schedule. |
| `ServerDiscovery` | Is the cache bounded, fresh and fair? | Two callers, one more server than the federation cache holds, a TTL and a timeout of 2 ticks each on a clock of 5, so that entries expire, are replaced and are purged. |
| `Service` | Does a restart serve again? Does the health check tell whether it does? | Two processes, for a restart and for two at once; the hosts with and without IPv6 and dual stack; one environment for each way to bind and for each way a reader of the configuration takes or fails (`MCEnvironments`). |
| `DelegatedLeaveMissed` | violated: see Findings | sanity check off, no webhook lost |
| `FederationDiscoveryLost` | violated: see Findings | as `ServerDiscovery` |

Deadlock is checked in every run. Where the system may stop the modules have an
explicit step for the state in which it may (`Terminated`, `Ended`, `Answered`,
`LeaveTerminated`), so a deadlock anywhere else is an error; `JobClose`, `Service` and
`ServerDiscovery` need none. Symmetry is used for the callers and servers of
`ServerDiscovery` only, and only invariants and an action property that treats them
alike are checked there.

### Fairness

- A tokio task that can make progress is polled sooner or later: weak fairness of the
  steps of each task.
- `select!` picks at random among its ready branches, so an arm that is ready again
  and again is taken: strong fairness of the handler's arms for requests, done signals
  and cancellation.
- A bounded channel serves its waiting senders in order: strong fairness of sends to a
  job's event channel.
- An attempt that is repeated comes to an end, as `retry()` bounds the time it takes
  (`EndsInTime`): strong fairness of the last outcome of ActionRestart and ActionSend.
  This leaves out a budget of zero, which neither passes.
- In `JobClose`: the loop, each task and each caller of `close()`, by weak fairness. The
  ten-second timeout of `close()` is a step that may happen and is never relied on.
- In `Service`: a process that is alive gets on with its start, by weak fairness.
  Nobody has to launch or kill it.
- In `DelegatedLeave` only: the sanity check comes round to a participant who left,
  the handler routes webhooks and stops a job that is done, and the homeserver sends
  an event that is no longer restarted. The run `DelegatedLeave` takes as little of
  this as `WatchedLeaveIsSent` needs (`WatchFairness`: the check comes round and its
  signal is sent, restarts end, the homeserver sends what is due), `DelegatedLeaveMissed`
  all of it, so that its counterexample is not for want of fairness.

Nothing is assumed of users, webhooks, crashes, shutdown or the answers of servers.

## The proofs

All are machine-checked by TLAPS for every value of the constants that satisfies the
named assumptions in the modules, which only ask of each constant its type, that
capacities and the time of an attempt are positive, and that what stands for "no job"
and "nobody" is none of the jobs, operations and processes. Every invariant and every
action property of a passing run is a theorem, and only liveness is not. TLC agreed to
each strengthened invariant named below on a small instance before it was proved.

**One restart cycle** (`DelayedEventJobProofs`). The cycle is restart task, deadline in
the result channel, restart timer, queued `DelayedEventReset`, restart task. Neither
`OneRestartCycle` (at most one of these exists) nor `RestartCycleAlive` (at least one,
while Connected) is inductive: a queued reset handled while a restart runs would make
two, and entering Connected starts one whatever exists. `RestartCycleInv` adds that
nothing of the cycle exists before Connected (a state which is never entered again),
that a stale timer means the job left Connected or was stopped, and that a loop that
no longer runs was cancelled. `TypeCorrect` is proved first. Then the steps are
grouped: those that leave the carriers alone (`SameCarriers`), those that move the
cycle on by one place, and those that end it because the job is stopped or has left
Connected. `ResultNeverBlocks` follows: a task that holds a new deadline is itself the
one carrier, so the channel is empty. `StaleIsDiscarded` is about the deadline and the
timers: `renewedIn` is the state in which the deadline was last set, and a live
restart timer is there in Connected only, because the exit action cancels it and no
step arms it in another state or once the loop exits. It says so of every state, so a
result that comes late has nothing left to do. That a job is quiet
once it is done (`QuietOnceDone`) takes `TasksEnd`, that the loop is done only when
nothing its wait group counts is left.

**Retry** (`RetryProofs`). `InTime` says of each stage how far the clock may be from the
start of the call: a sleep ends within the budget, because `GivesUp` compared it with
the wait included; an attempt begins within the budget and the delay of one sleep. It
gives `WithinBudget` and `EndsWithinBound`. Cancellation is an action property proved
from the guard of each step into an attempt. That hints are kept (`HintsAreKept`)
follows from `Waits`: a sleep is planned to end no earlier than the failure before it
allows, since a random wait is half the interval or more.

**Discovery** (`ServerDiscoveryProofs`). `Bounded` says that the names in the federation
cache are a finite set of at most `max_entries`: `set` adds a name only where the
cardinality it compared, before or after the purge, leaves room. `Fresh` relates the
expiry of an entry, and the answer a caller holds, to when the record was read; it is
needed because an entry may be overwritten by an older record. `LiveIsKept` uses that
an entry expires at most one TTL from now: the entry that a slow caller puts in the
place of another one expires no earlier.

**One end** (`DelayedLeaveProofs`). A job implements `DelayedLeave`: initial states
map to initial states, and every step of the job maps to a step or a stutter. The
mapping alone is not enough: that the handler is told once, and after the send, takes
`EndInv`, which says which task can be at work in which state. A sender exists only
after Disconnected was entered and a notifier only after Aborted was, never both, and
the loop is over only when the one there is has ended. `OneEnd` proves it inductive,
and `ImplementsLeave` does the steps one action at a time.

**Draining** (`JobCloseProofs`). `TeardownInv` is inductive: a task that may work holds
a guard, the loop spawns none once it has left its `select!`, and the only guard that
may be taken after the count was zero is that of a lookup that is cancelled before it
starts. From it, `ImplementsDrain` shows that the count, `Notify` and the watch
channel implement `TaskDrain`, for any number of tasks and callers.

**Nobody leaves early** (`DelayedLeaveProofs`). In `DelegatedLeave` the job takes only
its own steps (`RunsTheJob`), so what is proved of it alone, such as its types, holds
here. `SignInv` follows every sign of a leave from where it arises to the event channel:
in a queued webhook, in the lookup after its second phase, or in the channel there is
one only if the participant has left. It needs that the lookup gets past its first phase
only for a participant who has joined: an absence is a leave only after that. Only a
sign takes a job from Connected to Disconnected, hence `NeverLeavesEarly`.
`ConclusionsAreTrue` is inductive given the types: an event that was sent or cancelled
stays so, whoever did it; only a 200, 204, 404 or 409 is taken for success of a send,
and only a 404 or 409 of a restart for the end, through the failed task and the signal
it queues. Of a pending event these come only with the action done.

**The handler's map** (`HandlerLoopProofs`). `NoOrphanJob` and `MapHoldsRunningJobs` are
parts of one inductive invariant, `LifeInv`, with four more: everything is filed under
its own key in map, store and queued operations (`KeysInv`), or a replacement would stop
somebody else's job; a request that was not accepted has left no trace (`FreshInv`),
so that the job it gets is new; a process runs nothing before its `select!` but what it
has recovered (`StartInv`); and what has stopped, reported or been created was started
and is where the loop left it (`JobsInv`). Of the channels' contents only those of
`doneQ` matter, whose signals are of jobs that did report. `RemovalIsReported` follows
step by step.

**The store** (`HandlerLoopProofs`). `StoreFollowsMap` says of each key that the last
operation on its way, or the store itself when there is none, has the job of the map.
It is preserved because the writer takes the operations in order and the loop adds them
as it changes the map; a crash drops map and operations together, and `RecoveryInv`
carries the statement from the restart to the end of the recovery. For `Durable`,
`AwaitedInv` says that no operation after one whose caller waits names another job
unless that job has gone for good, and `AckedInv` the same of what has been written.
`Shape` locates the operations in the concatenation of writer, queue and loop.

**The endpoints** (`TokenRequestsProofs`). The calls that carry the as_token look neither
at the configuration nor at the name of the server: they go to what the request
resolved last. That this is our homeserver is `HomeBound`, a part of the inductive
`TokenInv`: in what a request has still to do, every call with the token comes after
another one or right after resolving our homeserver (`Homeward`), and a request that
is about to make one has it in `api`. The programs are shown to start so, endpoint by
endpoint; where a standalone endpoint resolves the homeserver of its user, a delegation
follows, and no call with the token. That nobody is sent it without an application
service follows from which steps a request may have at all: the proxied endpoints and
the ping exist only with one, and the standalone ones verify membership only with one.
The ping is the exception that `TokenStaysHome` names, in a build that has its trigger.
Of the jobs, `delegate_cs` hands over ours as ours, and `delegate` and `get_token` go by
`owner_user_id_for`.

The other results rest on `SoundInv`: *every check comes before every effect*. Of each
check of a request's endpoint (`Checks`) either what it looked at holds, or it is still
to come, before each step that has an effect, and the request has had none (`Guarded`).
With it go where in its program a request creates its room, hands over and relays
(`Fits`), what one under way may have done (`UnderWay`), and what an answered one leaves
behind (`Outcome`). `StandaloneStarts` and `ProxiedStarts` show that each program starts
in that relation, by lemmas on the steps of a concatenation; a step then only takes the
head off its program. Memberships, other requests and the shutdown undo nothing that a
check has established, as `seenJoined` only grows.

**The health check** (`ServiceProofs`). `HealthyIsTrue` needs that whoever accepts a
connection for the service serves (`AcceptsServing`); `ServiceIsFound` that a process
that serves is bound to one of its addresses (`ServingIsBound`) and, if it has served
all along, to one the check has still to try (`StillAhead`). That holds because both
programs walk the same list in the same order, and it needs that `parse_bind` has at
most one result.

Only model-checked is all liveness and everything about fairness, which is out of the
prover's reach: `LeavesWaiting`, `TerminalStateReported`, `StoppedJobExits`, `LoopEnds`
(and with it that no wake-up is lost), `CloseReturns`, `CallersAnswered`,
`ShutdownFinishes`, `DoneJobsLeaveMap`, `WatchedLeaveIsSent` and `RestartServes`.
Nothing that was proved needed induction over data: a program of `TokenRequests` has a
bounded number of steps, and the proofs go through its parts.

## Findings

1. **A disconnect that overtakes the lookup is forgotten** (`DelegatedLeaveMissed`). The
   waiting state ignores `ParticipantDisconnectedIntentionally`. If the lookup has seen
   the participant just before, its success then moves the job to Connected, and with
   the sanity check off, the default, the leave event is restarted for ever. With the
   sanity check on, `DelegatedLeave` shows that it is sent (`WatchedLeaveIsSent`).
2. **A lost body is cached as an answer** (`FederationDiscoveryLost`). An error of
   `resp.json()` counts as a definite answer, contrary to the comments around it.

Observed while modelling, in behaviours that no text of the repository rules out, or
that only a comment does and no run checks:

- A restart may be attempted after its deadline: the budget is computed
  (`delayed_event_manager.rs:1056`) before the URL is resolved (`:1088`) and counted
  from after that. `AttemptsWithinBudget` is therefore about the start of `retry()`.
- The lookup of a job that is created during a shutdown may be registered when the
  loop of that job has already ended, contrary to the comment at
  `delayed_event_manager.rs:425`. It is cancelled from the start and does nothing, which
  is why `TeardownInv` makes an exception of it.
- "This service never sends its `as_token` to a server other than the one it's
  configured for" (`handler.rs:1153`) is said of one endpoint and holds of all but the
  trigger of the ping (`handler.rs:1655`), which sends it to the server its request
  names. That is a test aid behind a cargo feature that is off by default;
  `AsTokenStaysHome` makes an exception of it, where it is built in.
- The README of the service says that delegation "also requires running as an
  application service". The endpoints accept one without: the job then has no owner
  and calls the homeserver unauthenticated (`handler.rs:720`), which is up to the
  homeserver to refuse. `DelegationIsEarned` follows the code.
- A second process on the same unix socket cuts off the first, which keeps running
  unseen: the path is removed whoever listens. `ServingIsHealthy` and `RestartServes`
  leave out runs in which two processes have been alive at once.
- The handler, and with it the recovery of stored jobs, starts before the service binds.
  A process that then finds no address to bind exits, and may have sent leave events.

## Not modelled, and why

- **Formats**: JWT signing, the SHA-256 of room aliases and identities, the JSON of a
  stored job, HTTP headers of CORS, error texts. Sequential and without state; unit
  tests reach them. Text fields count as empty or not.
- **Webhook signatures and the routing of HTTP requests**: library code.
- **The reply to an application-service ping**: `verify_hs_token` and an empty object.
  Its trigger is modelled.
- **404s of an ingress before the homeserver**: a 404 to a delayed-event action is taken
  for the homeserver's, whatever its body (`helper.rs:927`), so one that an ingress
  sends while the event is pending would end the job. `DelegatedLeave` has such answers
  of an ingress before the SFU, whose body the code does look at.
- **A job blocked on `job_restarted` during a shutdown**: `HandlerLoop` has it, and the
  safety run explores it; in `HandlerLoopLive` no job restarts its event, as the
  temporal check would take too long.
- **Reconnecting to Redis**: left to its client; a write simply fails.
- **The two-phase promise after a late connect**: when phase 1 of the lookup gives up and
  a webhook connects the job afterwards, no phase 2 runs, so a lost disconnect webhook
  is not noticed even with the sanity check on. The documentation promises the check
  for missed webhooks and does not speak of this order; `WatchedLeaveIsSent` is about
  the participants the lookup has found.
- **Sessions**: the participant of `DelegatedLeave` joins once. A late "left" of an
  earlier connection with the same identity, after a rejoin, is outside it, and so is
  a replacement that cancels an ActionSend under way.
- **Timer tasks are not in the wait group**: they may still be unwinding when `close()`
  returns. They only watch tokens then, and `QuietAfterClose` is stated accordingly.
- **The time a shutdown takes**: tasks that resolve a URL or wait for a request do not
  watch the token; `HandlerLoop` has the ten-second timeout of a join as a step that
  may happen.
- **`restarted_at`** is reduced to whether a stored job is expired when it is loaded.
- **Both sides of a federated request in one behaviour**: `TokenRequests` has the side
  that relays and the side that is relayed to, each against everything the other may
  answer or ask.
- **Several keys in `HandlerLoop`**: the module has them as a parameter; the run has one.
  One job's full event channel can hold up another's webhooks, which delays them and
  loses none.
- **Build tooling and tests** (`xtask`, `e2e-tests`): not part of the service.

Each module with a state of its own has a type invariant. Those of `HandlerLoop`,
`TokenRequests`, `Retry` and `ServerDiscovery` are proved, but no run checks them,
because they say nothing of the service; `JobClose` has its types in `TeardownInv`, and
`Service` has them in `ServiceInv`.

## What could be proved next

No invariant or action property of a run is left. What would add to the proofs: an
abstract specification of the handler and its store as one durable map, implemented by
`HandlerLoop` when the store works, and results about `OutboundCalls` and `Configuration`
as such, which so far serve the proofs about their callers only.

## Running it

    tlc -workers 2 -config HandlerLoop.cfg MCHandlerLoop
    tlapm DelayedEventJobProofs.tla

A run is named after its `.cfg`; the table in `PROJECT.json` gives its module.
