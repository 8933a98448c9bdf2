----------------------------- MODULE HandlerLoop -----------------------------
(***************************************************************************)
(* The handler loop of handler.rs: the single task that owns the map of    *)
(* active delayed-event jobs, with its channels, the store-writer task,    *)
(* the callers of add_delayed_event_job, shutdown, crashes, and recovery   *)
(* of stored jobs by the next process.                                     *)
(*                                                                         *)
(* A request to delegate a leave event is known by a member of Requests,   *)
(* and so is the job made for it, in the process that received it and in   *)
(* those that recover it from the store: two jobs alive at once are never  *)
(* made from one request.                                                  *)
(*                                                                         *)
(* Abstractions.                                                           *)
(*   - A job is what the handler can see of it: whether its loop runs, its *)
(*     token, its event channel, and its sends on job_done and             *)
(*     job_restarted.  DelayedEventJob models the inside.                  *)
(*   - Webhooks arrive at any time, for any job in the map.                *)
(*   - A stored job is expired, or not, when a process loads it; its       *)
(*     restarted_at is left out.                                           *)
(***************************************************************************)
EXTENDS Naturals, Sequences

CONSTANTS
    Keys,           \* (room, identity) pairs
    Requests,       \* requests, and the jobs made for them
    KeyOf,          \* the key of each request
    Invalid,        \* the requests whose job may turn out impossible to create
    NoJob,          \* no job, and no operation
    Stores,         \* bound: the kinds of store, of StoreKind, looked at
    DoneCap,        \* capacity of job_done (10 in the code)
    RestartedCap,   \* capacity of job_restarted (10)
    WriteCap,       \* capacity of the store writer's queue (256)
    EventCap,       \* capacity of a job's event channel (10)
    Restarting,     \* bound: the requests whose jobs restart their event
    MaxStarts       \* bound on the number of processes in a behaviour

ASSUME KeyAssumption == KeyOf \in [Requests -> Keys]
ASSUME InvalidAssumption == Invalid \subseteq Requests
ASSUME RestartingAssumption == Restarting \subseteq Requests
ASSUME NoJobAssumption == NoJob \notin Requests /\ NoJob \notin Keys
ASSUME CapAssumption ==
    /\ DoneCap \in Nat \ {0} /\ RestartedCap \in Nat \ {0}
    /\ WriteCap \in Nat \ {0} /\ EventCap \in Nat \ {0}
    /\ MaxStarts \in Nat \ {0}

-----------------------------------------------------------------------------
\* Whether a store is configured, and whether its reads and writes may fail.
StoreKind == {"none", "working", "failing"}
ASSUME StoresAssumption == Stores \subseteq StoreKind

\* A store operation: Save when job is a request, Delete when it is NoJob.
\* notify tells whether a caller waits for it.
StoreOp == [key : Keys, job : Requests \cup {NoJob}, notify : BOOLEAN]
ASSUME NoOpAssumption == NoJob \notin StoreOp

\* Where the loop is: not running, recovering stored jobs, at its select!,
\* waiting to enqueue a store operation, waiting for room in the event channel
\* of a job, joining the jobs, waiting for the writer, or finished.
LoopState ==
    {"down", "recovering", "select", "enqueuing", "routing", "joining",
     "flushing", "done"}

\* Where a caller of add_delayed_event_job is.  "replied" callers have an
\* answer; "lost" ones died with the process.
ClientState ==
    {"idle", "sending", "queued", "accepted", "durable", "ok", "failed",
     "shutdown", "lost"}

VARIABLES
    jobs,       \* the map: the current job of each key, or NoJob
    loop,       \* LoopState
    pending,    \* the operation the loop waits to enqueue, or NoJob
    target,     \* the job the loop is about to start, stop or send to
    toRecover,  \* keys of the stored jobs not yet recovered
    client,     \* ClientState of the caller of each request
    cancelled,  \* the handler's cancellation token
    starts,     \* processes started so far
    life,       \* each job: "none", "created", "live" or "exited"
    stopped,    \* jobs whose token is cancelled
    report,     \* done of each job: "no", "sending", "sent" or "dropped"
    restarting, \* jobs with a restart under way
    inbox,      \* length of each job's event channel
    doneQ,      \* job_done
    restartedQ, \* job_restarted
    writeQ,     \* the store writer's queue
    writer,     \* the operation the writer is at, or NoJob
    storeKind,  \* StoreKind, configured once for all processes
    store,      \* the persistent store: the job saved under each key
    retired     \* history: jobs that were done, replaced or expired

jobVars     == <<life, stopped, report, restarting, inbox>>
channelVars == <<doneQ, restartedQ>>
storeVars   == <<writeQ, writer, store>>
loopVars    == <<jobs, loop, pending, target, toRecover>>
processVars == <<cancelled, starts, storeKind>>
vars == <<loopVars, client, processVars, jobVars, channelVars, storeVars,
          retired>>

TypeOK ==
    /\ jobs \in [Keys -> Requests \cup {NoJob}]
    /\ loop \in LoopState
    /\ pending \in StoreOp \cup {NoJob}
    /\ target \in Requests \cup {NoJob}
    /\ toRecover \subseteq Keys
    /\ client \in [Requests -> ClientState]
    /\ cancelled \in BOOLEAN
    /\ starts \in 0 .. MaxStarts
    /\ storeKind \in StoreKind
    /\ life \in [Requests -> {"none", "created", "live", "exited"}]
    /\ stopped \subseteq Requests
    /\ report \in [Requests -> {"no", "sending", "sent", "dropped"}]
    /\ restarting \subseteq Requests
    /\ inbox \in [Requests -> 0 .. EventCap]
    /\ doneQ \in Seq(Requests) /\ Len(doneQ) <= DoneCap
    /\ restartedQ \in Seq(Requests) /\ Len(restartedQ) <= RestartedCap
    /\ writeQ \in Seq(StoreOp) /\ Len(writeQ) <= WriteCap
    /\ writer \in StoreOp \cup {NoJob}
    /\ store \in [Keys -> Requests \cup {NoJob}]
    /\ retired \subseteq Requests

-----------------------------------------------------------------------------
\* No process runs, and nothing is stored.
Init ==
    /\ jobs = [k \in Keys |-> NoJob]
    /\ loop = "down"
    /\ pending = NoJob
    /\ target = NoJob
    /\ toRecover = {}
    /\ client = [r \in Requests |-> "idle"]
    /\ cancelled = FALSE
    /\ starts = 0
    /\ storeKind \in Stores
    /\ life = [r \in Requests |-> "none"]
    /\ stopped = {}
    /\ report = [r \in Requests |-> "no"]
    /\ restarting = {}
    /\ inbox = [r \in Requests |-> 0]
    /\ doneQ = <<>>
    /\ restartedQ = <<>>
    /\ writeQ = <<>>
    /\ writer = NoJob
    /\ store = [k \in Keys |-> NoJob]
    /\ retired = {}

HasStore == storeKind # "none"
StoreFails == storeKind = "failing"

\* A mutant compares keys where the code compares the jobs.
CurrentByKey(r) == jobs[KeyOf[r]] # NoJob
Current(r) == jobs[KeyOf[r]] = r

\* The map without a finished job; a mutant forgets to remove it.
KeepsFinished(j) == jobs
WithoutFinished(j) == [jobs EXCEPT ![KeyOf[j]] = NoJob]

\* The job a request replaces, if any; a mutant overwrites the map only.
LeavesReplaced(r) == {}
ReplacedBy(r) == {j \in Requests : jobs[KeyOf[r]] = j}

\* Jobs made after the handler is cancelled are born cancelled: their token is
\* a child of its token.
BornStopped(r) == IF cancelled THEN {r} ELSE {}

\* The loop is about to await enqueue_store_op(op), for the job j.
AwaitEnqueue(op, j) ==
    /\ loop' = "enqueuing"
    /\ pending' = IF HasStore THEN op ELSE NoJob
    /\ target' = j

-----------------------------------------------------------------------------
(* The persistent store: a hash with one entry per key, of which another    *)
(* process sees what was written.                                           *)

save_job(k, r) == [store EXCEPT ![k] = r]

delete_job(k) == [store EXCEPT ![k] = NoJob]

\* The entries read: none if the call fails, and without those that do not parse.
all_jobs ==
    LET saved == {k \in Keys : store[k] # NoJob}
    IN IF StoreFails THEN SUBSET saved ELSE {saved}

-----------------------------------------------------------------------------
(* Recovery: the part of run_loop before its loop. *)

\* A process starts and reads the stored jobs.
Start ==
    /\ loop = "down"
    /\ starts < MaxStarts
    /\ starts' = starts + 1
    /\ loop' = "recovering"
    /\ toRecover' \in all_jobs
    /\ UNCHANGED <<jobs, pending, target, client, cancelled, storeKind,
                   jobVars, channelVars, storeVars, retired>>

RecoverJob(k) ==
    /\ loop = "recovering"
    /\ k \in toRecover
    /\ toRecover' = toRecover \ {k}
    /\ jobs' = [jobs EXCEPT ![k] = store[k]]
    /\ life' = [life EXCEPT ![store[k]] = "live"]
    /\ stopped' = stopped \cup BornStopped(store[k])
    /\ UNCHANGED <<loop, pending, target, client, processVars, report,
                   restarting, inbox, channelVars, storeVars, retired>>

\* A job that has expired, or cannot be created, is deleted straight from the
\* store.
DropExpiredJob(k) ==
    /\ loop = "recovering"
    /\ k \in toRecover
    /\ toRecover' = toRecover \ {k}
    /\ retired' = retired \cup {store[k]}
    /\ \/ store' = delete_job(k)
       \/ StoreFails /\ UNCHANGED store
    /\ UNCHANGED <<jobs, loop, pending, target, client, processVars, jobVars,
                   channelVars, writeQ, writer>>

FinishRecovery ==
    /\ loop = "recovering"
    /\ toRecover = {}
    /\ loop' = "select"
    /\ UNCHANGED <<jobs, pending, target, toRecover, client, processVars,
                   jobVars, channelVars, storeVars, retired>>

-----------------------------------------------------------------------------
(* The arms of the loop's select!. *)

\* add job, as far as its first await: the job in the map is told it is
\* replaced, if its channel has room, and stopped; the new one takes its place.
AddJob(r) ==
    LET old == ReplacedBy(r)
    IN  /\ loop = "select"
        /\ client[r] = "queued"
        /\ client' = [client EXCEPT ![r] = "accepted"]
        /\ inbox' = [j \in Requests |->
                        IF j \in old /\ life[j] = "live" /\ inbox[j] < EventCap
                        THEN inbox[j] + 1 ELSE inbox[j]]
        /\ stopped' = stopped \cup old \cup BornStopped(r)
        /\ jobs' = [jobs EXCEPT ![KeyOf[r]] = r]
        /\ life' = [life EXCEPT ![r] = "created"]
        /\ AwaitEnqueue([key |-> KeyOf[r], job |-> r, notify |-> TRUE], r)
        /\ retired' = retired \cup old
        /\ UNCHANGED <<toRecover, processVars, report, restarting, channelVars,
                       storeVars>>

RejectJob(r) ==
    /\ loop = "select"
    /\ client[r] = "queued"
    /\ r \in Invalid
    /\ client' = [client EXCEPT ![r] = "failed"]
    /\ UNCHANGED <<loopVars, processVars, jobVars, channelVars, storeVars,
                   retired>>

\* An SFU webhook for a job in the map; the loop waits for room in the job's
\* channel unless the job is stopped.
RouteEvent(k) ==
    /\ loop = "select"
    /\ jobs[k] # NoJob
    /\ loop' = "routing"
    /\ target' = jobs[k]
    /\ UNCHANGED <<jobs, pending, toRecover, client, processVars, jobVars,
                   channelVars, storeVars, retired>>

FinishRouting ==
    /\ loop = "routing"
    /\ \/ /\ life[target] = "live"
          /\ inbox[target] < EventCap
          /\ inbox' = [inbox EXCEPT ![target] = @ + 1]
       \/ target \in stopped /\ UNCHANGED inbox
    /\ loop' = "select"
    /\ target' = NoJob
    /\ UNCHANGED <<jobs, pending, toRecover, client, processVars, life,
                   stopped, report, restarting, channelVars, storeVars,
                   retired>>

\* A terminal signal of the current job takes it out of the map; one of a job
\* that has been replaced is ignored.
TakeDone ==
    /\ loop = "select"
    /\ doneQ # <<>>
    /\ doneQ' = Tail(doneQ)
    /\ LET j == Head(doneQ)
       IN  IF Current(j)
           THEN /\ jobs' = WithoutFinished(j)
                /\ retired' = retired \cup {j}
                /\ AwaitEnqueue([key |-> KeyOf[j], job |-> NoJob,
                                 notify |-> FALSE], j)
           ELSE UNCHANGED <<jobs, loop, pending, target, retired>>
    /\ UNCHANGED <<toRecover, client, processVars, jobVars, restartedQ,
                   storeVars>>

\* A restart of the current job updates its entry in the store.
TakeRestarted ==
    /\ loop = "select"
    /\ restartedQ # <<>>
    /\ restartedQ' = Tail(restartedQ)
    /\ LET j == Head(restartedQ)
       IN  IF Current(j) /\ HasStore
           THEN AwaitEnqueue([key |-> KeyOf[j], job |-> j, notify |-> FALSE],
                             NoJob)
           ELSE UNCHANGED <<loop, pending, target>>
    /\ UNCHANGED <<jobs, toRecover, client, processVars, jobVars, doneQ,
                   storeVars, retired>>

\* Whether a caller is answered without waiting for the store; a mutant
\* answers as soon as the write is queued.
AnswersEarly == TRUE
AnswersAtOnce == ~HasStore

\* done_job.stop().
Stopping(j) == stopped \cup {j}

\* enqueue_store_op returns, and the rest of its arm runs: a new job starts
\* and its caller waits for the write, or a finished job is stopped.
FinishEnqueue ==
    /\ loop = "enqueuing"
    /\ IF pending = NoJob
       THEN UNCHANGED writeQ
       ELSE Len(writeQ) < WriteCap /\ writeQ' = Append(writeQ, pending)
    /\ loop' = "select"
    /\ pending' = NoJob
    /\ target' = NoJob
    /\ \/ /\ target # NoJob /\ life[target] = "created"
          /\ life' = [life EXCEPT ![target] = "live"]
          /\ client' = IF AnswersAtOnce
                       THEN [client EXCEPT ![target] = "durable"] ELSE client
          /\ UNCHANGED stopped
       \/ /\ target # NoJob /\ life[target] # "created"
          /\ stopped' = Stopping(target)
          /\ UNCHANGED <<life, client>>
       \/ /\ target = NoJob
          /\ UNCHANGED <<life, client, stopped>>
    /\ UNCHANGED <<jobs, toRecover, processVars, report, restarting, inbox,
                   channelVars, writer, store, retired>>

-----------------------------------------------------------------------------
(* Shutdown. *)

\* Handler::close: every job's token is a child of the handler's.
Cancel ==
    /\ loop # "down"
    /\ ~cancelled
    /\ cancelled' = TRUE
    /\ stopped' = stopped \cup {r \in Requests : life[r] # "none"}
    /\ UNCHANGED <<loopVars, client, starts, storeKind, life, report,
                   restarting, inbox, channelVars, storeVars, retired>>

\* The cancelled arm: stop the jobs, drain job_done, and wait for the jobs,
\* each for ten seconds at most.
BeginShutdown ==
    /\ loop = "select"
    /\ cancelled
    /\ loop' = "joining"
    /\ stopped' = stopped \cup {r \in Requests : Current(r)}
    /\ doneQ' = <<>>
    /\ UNCHANGED <<jobs, pending, target, toRecover, client, processVars,
                   life, report, restarting, inbox, restartedQ, storeVars,
                   retired>>

JobsExited == \A k \in Keys : jobs[k] # NoJob => life[jobs[k]] = "exited"

LeaveJoining ==
    /\ loop = "joining"
    /\ loop' = "flushing"
    /\ UNCHANGED <<jobs, pending, target, toRecover, client, processVars,
                   jobVars, channelVars, storeVars, retired>>

JoinJobs == JobsExited /\ LeaveJoining

JoinTimesOut == ~JobsExited /\ LeaveJoining

\* What dropping add_job_rx tells the callers in it; a mutant leaves them.
KeepRequests == client
DropRequests ==
    [r \in Requests |->
        IF client[r] = "queued" THEN "shutdown" ELSE client[r]]

\* The writer's queue is closed and drained; the receivers are dropped with
\* the loop, and with them the requests nobody took.
FinishShutdown ==
    /\ loop = "flushing"
    /\ writeQ = <<>>
    /\ writer = NoJob
    /\ loop' = "done"
    /\ client' = DropRequests
    /\ UNCHANGED <<jobs, pending, target, toRecover, processVars, jobVars,
                   channelVars, storeVars, retired>>

-----------------------------------------------------------------------------
(* The callers of add_delayed_event_job. *)

ClientUnchanged ==
    UNCHANGED <<loopVars, processVars, jobVars, channelVars, storeVars,
                retired>>

ClientCalls(r) ==
    /\ loop # "down"
    /\ client[r] = "idle"
    /\ client' = [client EXCEPT ![r] = "sending"]
    /\ ClientUnchanged

\* add_job holds one request.
ClientSends(r) ==
    /\ client[r] = "sending"
    /\ loop # "done"
    /\ \A other \in Requests : client[other] # "queued"
    /\ client' = [client EXCEPT ![r] = "queued"]
    /\ ClientUnchanged

ClientSeesShutdown(r) ==
    /\ client[r] = "sending"
    /\ cancelled
    /\ client' = [client EXCEPT ![r] = "shutdown"]
    /\ ClientUnchanged

\* The task spawned by the add-job arm, once the write is over.
Reply(r) ==
    /\ client[r] = "durable"
    /\ client' = [client EXCEPT ![r] = "ok"]
    /\ ClientUnchanged

-----------------------------------------------------------------------------
(* The jobs, as far as the handler sees them. *)

JobUnchanged ==
    UNCHANGED <<loopVars, client, processVars, storeVars, retired>>

\* The job's loop takes a signal; it never waits for anything else (see
\* DelayedEventJob).
JobReads(r) ==
    /\ life[r] = "live"
    /\ inbox[r] > 0
    /\ inbox' = [inbox EXCEPT ![r] = @ - 1]
    /\ UNCHANGED <<life, stopped, report, restarting, channelVars>>
    /\ JobUnchanged

\* The job reaches a terminal state, once, perhaps because its restart failed;
\* its task waits for job_done.
JobEnds(r) ==
    /\ life[r] = "live"
    /\ report[r] = "no"
    /\ report' = [report EXCEPT ![r] = "sending"]
    /\ restarting' \in {restarting, restarting \ {r}}
    /\ UNCHANGED <<life, stopped, inbox, channelVars>>
    /\ JobUnchanged

\* Room in job_done.
DoneHasRoom == Len(doneQ) < DoneCap

SendDone(r) ==
    /\ report[r] = "sending"
    /\ loop # "done"
    /\ DoneHasRoom
    /\ doneQ' = Append(doneQ, r)
    /\ report' = [report EXCEPT ![r] = "sent"]
    /\ UNCHANGED <<life, stopped, restarting, inbox, restartedQ>>
    /\ JobUnchanged

\* The sends race the job's token; a mutant waits for room only.
WaitsForRoom(r) == FALSE
SendIsCancelled(r) == r \in stopped

DropDone(r) ==
    /\ report[r] = "sending"
    /\ SendIsCancelled(r)
    /\ report' = [report EXCEPT ![r] = "dropped"]
    /\ UNCHANGED <<life, stopped, restarting, inbox, channelVars>>
    /\ JobUnchanged

\* A restart begins only while the token is live, and ends in a send on
\* job_restarted, in the end of the job, or in the cancellation.
JobRestarts(r) ==
    /\ life[r] = "live"
    /\ r \in Restarting \ (stopped \cup restarting)
    /\ restarting' = restarting \cup {r}
    /\ UNCHANGED <<life, stopped, report, inbox, channelVars>>
    /\ JobUnchanged

SendRestarted(r) ==
    /\ r \in restarting
    /\ loop # "done"
    /\ Len(restartedQ) < RestartedCap
    /\ restartedQ' = Append(restartedQ, r)
    /\ restarting' = restarting \ {r}
    /\ UNCHANGED <<life, stopped, report, inbox, doneQ>>
    /\ JobUnchanged

DropRestarted(r) ==
    /\ r \in restarting
    /\ SendIsCancelled(r)
    /\ restarting' = restarting \ {r}
    /\ UNCHANGED <<life, stopped, report, inbox, channelVars>>
    /\ JobUnchanged

JobExits(r) ==
    /\ life[r] = "live"
    /\ r \in stopped
    /\ report[r] # "sending"
    /\ r \notin restarting
    /\ life' = [life EXCEPT ![r] = "exited"]
    /\ inbox' = [inbox EXCEPT ![r] = 0]
    /\ UNCHANGED <<stopped, report, restarting, channelVars>>
    /\ JobUnchanged

-----------------------------------------------------------------------------
(* The store writer. *)

WriterUnchanged ==
    UNCHANGED <<loopVars, processVars, jobVars, channelVars, retired>>

WriterTakes ==
    /\ writer = NoJob
    /\ writeQ # <<>>
    /\ writer' = Head(writeQ)
    /\ writeQ' = Tail(writeQ)
    /\ UNCHANGED <<client, store>>
    /\ WriterUnchanged

\* The write completes, whether it succeeded or not, and its caller hears.
WriterCompletes ==
    /\ writer # NoJob
    /\ \/ store' = IF writer.job = NoJob THEN delete_job(writer.key)
                   ELSE save_job(writer.key, writer.job)
       \/ StoreFails /\ UNCHANGED store
    /\ client' = IF writer.notify
                 THEN [client EXCEPT ![writer.job] = "durable"] ELSE client
    /\ writer' = NoJob
    /\ UNCHANGED writeQ
    /\ WriterUnchanged

-----------------------------------------------------------------------------
(* The process ends: after its shutdown, or in the middle of anything.  Only *)
(* the store outlives it.                                                    *)

ProcessEnds ==
    /\ loop # "down"
    /\ starts < MaxStarts
    /\ jobs' = [k \in Keys |-> NoJob]
    /\ loop' = "down"
    /\ pending' = NoJob
    /\ target' = NoJob
    /\ toRecover' = {}
    /\ client' = [r \in Requests |->
                    IF client[r] \in {"sending", "queued", "accepted", "durable"}
                    THEN "lost" ELSE client[r]]
    /\ cancelled' = FALSE
    /\ life' = [r \in Requests |-> "none"]
    /\ stopped' = {}
    /\ report' = [r \in Requests |-> "no"]
    /\ restarting' = {}
    /\ inbox' = [r \in Requests |-> 0]
    /\ doneQ' = <<>>
    /\ restartedQ' = <<>>
    /\ writeQ' = <<>>
    /\ writer' = NoJob
    /\ UNCHANGED <<starts, storeKind, store, retired>>

-----------------------------------------------------------------------------
Recovery ==
    \/ Start
    \/ \E k \in Keys : RecoverJob(k) \/ DropExpiredJob(k)
    \/ FinishRecovery

Select ==
    \/ \E r \in Requests : AddJob(r) \/ RejectJob(r)
    \/ \E k \in Keys : RouteEvent(k)
    \/ FinishRouting
    \/ TakeDone
    \/ TakeRestarted
    \/ FinishEnqueue

Shutdown ==
    Cancel \/ BeginShutdown \/ JoinJobs \/ JoinTimesOut \/ FinishShutdown

Client(r) ==
    ClientCalls(r) \/ ClientSends(r) \/ ClientSeesShutdown(r) \/ Reply(r)

Job(r) ==
    \/ JobReads(r) \/ JobEnds(r) \/ SendDone(r) \/ DropDone(r)
    \/ JobRestarts(r) \/ SendRestarted(r) \/ DropRestarted(r) \/ JobExits(r)

Writer == WriterTakes \/ WriterCompletes

\* The last process of the behaviour has shut down.
Terminated ==
    /\ loop = "done"
    /\ starts = MaxStarts
    /\ UNCHANGED vars

Next ==
    \/ Recovery
    \/ Select
    \/ Shutdown
    \/ \E r \in Requests : Client(r) \/ Job(r)
    \/ Writer
    \/ ProcessEnds
    \/ Terminated

Spec == Init /\ [][Next]_vars

(***************************************************************************)
(* Fairness.  tokio polls the tasks that can make progress, so every task  *)
(* is weakly fair; select! picks at random among the arms that are ready,  *)
(* so an arm that is ready again and again is taken (strong fairness).     *)
(* The store answers.  A job that is stopped exits: DelayedEventJob checks *)
(* that.  Webhooks, ends and restarts of jobs, calls, Cancel, the timeout  *)
(* of a join and the end of a process need not happen.                     *)
(***************************************************************************)
LoopContinues ==
    \/ \E k \in Keys : RecoverJob(k) \/ DropExpiredJob(k)
    \/ FinishRecovery \/ FinishRouting \/ FinishEnqueue
    \/ JoinJobs \/ FinishShutdown

TakeRequest == \E r \in Requests : AddJob(r) \/ RejectJob(r)

Fairness ==
    /\ WF_vars(LoopContinues)
    /\ SF_vars(TakeRequest) /\ SF_vars(TakeDone) /\ SF_vars(BeginShutdown)
    /\ WF_vars(\E r \in Requests :
                    ClientSends(r) \/ ClientSeesShutdown(r) \/ Reply(r))
    /\ WF_vars(\E r \in Requests : JobReads(r))
    /\ WF_vars(\E r \in Requests :
                    SendDone(r) \/ DropDone(r) \/ DropRestarted(r)
                        \/ JobExits(r))
    /\ WF_vars(Writer)

FairSpec == Spec /\ Fairness

-----------------------------------------------------------------------------
(* Properties. *)

\* The operations on the store not yet applied, in order: the one the writer
\* is at, those queued, and the one the loop waits to enqueue; NoJob is none.
Operations == <<writer>> \o writeQ \o <<pending>>

OperationsOn(k) ==
    {i \in DOMAIN Operations : Operations[i] # NoJob /\ Operations[i].key = k}

\* While the store works, it lags behind the map of a running process but
\* never disagrees with it: the last outstanding write of each key, or else the
\* entry itself, is what the map holds, so no stale restart brings a removed job
\* back and no stale deletion loses its replacement.
StoreFollowsMap ==
    HasStore /\ ~StoreFails /\ loop \notin {"down", "recovering"} =>
        \A k \in Keys :
            /\ OperationsOn(k) = {} => store[k] = jobs[k]
            /\ \A i \in OperationsOn(k) :
                    \/ Operations[i].job = jobs[k]
                    \/ \E later \in OperationsOn(k) : later > i

\* A job that runs is the one the map holds for its key, or it is stopped, or
\* the loop is on its way to stop it: no replaced or finished job keeps a
\* delayed event alive behind the handler's back.
NoOrphanJob ==
    \A r \in Requests :
        life[r] \in {"created", "live"} =>
            \/ Current(r)
            \/ r \in stopped
            \/ loop = "enqueuing" /\ target = r

\* And the map of a handler that is not shutting down holds no stopped job,
\* whose webhooks would be routed to nobody.
MapHoldsRunningJobs ==
    ~cancelled =>
        \A k \in Keys : jobs[k] # NoJob =>
            /\ KeyOf[jobs[k]] = k
            /\ life[jobs[k]] \in {"created", "live"}
            /\ jobs[k] \notin stopped

\* A job leaves the map of a running process only by its own terminal signal
\* or for a newer job of the same key: never by the late signal of another.
OnlyDoneRemoves ==
    [][\A k \in Keys :
         jobs[k] # NoJob /\ jobs'[k] = NoJob /\ loop' # "down" =>
            report[jobs[k]] = "sent"]_vars

\* "A caller who sees success can rely on the job being durably persisted":
\* with a working store, an acknowledged job is in the store until it is done,
\* replaced or expired, through crashes and restarts of the process, too.
AcknowledgedIsDurable ==
    HasStore /\ ~StoreFails =>
        \A r \in Requests :
            client[r] = "ok" => store[KeyOf[r]] = r \/ r \in retired

\* Every caller gets an answer, also when the handler shuts down around it.
CallersAnswered ==
    \A r \in Requests :
        client[r] = "sending" ~>
            client[r] \in {"ok", "failed", "shutdown", "lost"}

\* The loop of a cancelled handler finishes: no full channel, slow store or
\* waiting task holds it.
ShutdownFinishes == cancelled ~> loop \in {"done", "down"}

\* A job that has reported its end leaves the map, or the handler shuts down.
DoneJobsLeaveMap ==
    \A r \in Requests :
        report[r] = "sent" ~> ~Current(r) \/ cancelled

=============================================================================
