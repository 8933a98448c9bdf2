-------------------------------- MODULE JobClose --------------------------------
(***************************************************************************)
(* The teardown of one delayed-event job in full: the wait group its       *)
(* background tasks are counted by (WaitGroup, WaitGroupGuard), the exit   *)
(* of its loop, and the callers of close() behind a watch channel.         *)
(*                                                                         *)
(* DelayedEventJob takes for granted that the loop ends once no counted    *)
(* task is left.  Here that is the property: the count, tokio's Notify and *)
(* the watch channel are modelled step by step, because the tasks, the     *)
(* loop and the callers run on different threads.  What the tasks do is    *)
(* left out; each works for a while and ends.                              *)
(***************************************************************************)
CONSTANTS
    Tasks,      \* the background tasks of the job
    Lookup,     \* the one the handler starts: start_participant_lookup
    Closers     \* the callers of close()

ASSUME LookupAssumption == Lookup \in Tasks

VARIABLES
    cancelled,  \* the job's cancellation token
    task,       \* what each task is doing
    guards,     \* the tasks that hold a WaitGroupGuard: count is their number
    loop,       \* the actor loop; "registering" to "exiting" is its last arm
    notified,   \* notify_waiters() has woken the loop since it registered
    closer,     \* the callers of close()
    seen        \* the callers whose watch receiver has seen the final value

vars == <<cancelled, task, guards, loop, notified, closer, seen>>

\* A task that holds no guard yet, has been spawned, works, is about to drop its
\* guard, was the last to and is about to notify, or is gone.
TaskStage == {"unborn", "spawned", "working", "leaving", "notifying", "gone"}

LoopStage ==
    {"unborn", "running", "registering", "checking", "counted", "sleeping",
     "exiting", "done"}

CloserStage ==
    {"idle", "subscribing", "reading", "waiting", "ok", "timedout"}

TypeOK ==
    /\ cancelled \in BOOLEAN
    /\ task \in [Tasks -> TaskStage]
    /\ guards \subseteq Tasks
    /\ loop \in LoopStage
    /\ notified \in BOOLEAN
    /\ closer \in [Closers -> CloserStage]
    /\ seen \subseteq Closers

Init ==
    /\ cancelled = FALSE
    /\ task = [t \in Tasks |-> "unborn"]
    /\ guards = {}
    /\ loop = "unborn"
    /\ notified = FALSE
    /\ closer = [c \in Closers |-> "idle"]
    /\ seen = {}

MoveTask(t, from, to) ==
    /\ task[t] = from
    /\ task' = [task EXCEPT ![t] = to]

MoveLoop(from, to) ==
    /\ loop = from
    /\ loop' = to

MoveCloser(c, from, to) ==
    /\ closer[c] = from
    /\ closer' = [closer EXCEPT ![c] = to]

LoopUnchanged   == UNCHANGED <<cancelled, loop, closer, seen>>
TasksUnchanged  == UNCHANGED <<task, guards>>
CloserUnchanged == UNCHANGED <<closer, seen>>

-----------------------------------------------------------------------------
(* The tasks. *)

SpawnLoop ==
    /\ MoveLoop("unborn", "running")
    /\ TasksUnchanged
    /\ CloserUnchanged
    /\ UNCHANGED <<cancelled, notified>>

\* The guard is taken before the task is spawned.
add(t) == guards' = guards \cup {t}

\* The handler starts the lookup after the loop, which may have ended by then:
\* a job that is created during a shutdown is cancelled from the start.
StartLookup ==
    /\ loop # "unborn"
    /\ MoveTask(Lookup, "unborn", "spawned")
    /\ add(Lookup)
    /\ LoopUnchanged
    /\ UNCHANGED notified

\* Every other task is spawned by the loop, between two of its selects.  A
\* mutant takes the guard in the task itself.
SpawnTaskUncounted(t) ==
    /\ loop = "running"
    /\ t # Lookup
    /\ MoveTask(t, "unborn", "spawned")
    /\ LoopUnchanged
    /\ UNCHANGED <<guards, notified>>

SpawnTask(t) ==
    /\ loop = "running"
    /\ t # Lookup
    /\ MoveTask(t, "unborn", "spawned")
    /\ add(t)
    /\ LoopUnchanged
    /\ UNCHANGED notified

\* The lookup is a retry, which looks at the token before it does anything; the
\* others first resolve the URL of the homeserver, cancelled or not.
BeginWork(t) ==
    /\ t = Lookup => ~cancelled
    /\ MoveTask(t, "spawned", "working")
    /\ LoopUnchanged
    /\ UNCHANGED <<guards, notified>>

EndWork(t) ==
    /\ \/ MoveTask(t, "working", "leaving")
       \/ t = Lookup /\ cancelled /\ MoveTask(t, "spawned", "leaving")
    /\ LoopUnchanged
    /\ UNCHANGED <<guards, notified>>

\* The drop of the guard: fetch_sub, and notify_waiters by the last.
DropGuard(t) ==
    /\ MoveTask(t, "leaving", IF guards = {t} THEN "notifying" ELSE "gone")
    /\ guards' = guards \ {t}
    /\ LoopUnchanged
    /\ UNCHANGED notified

\* notify_waiters reaches the waiters registered at that moment, and leaves
\* nothing behind for later ones.  In a mutant wait() registers late.
RegisteredLate == loop = "sleeping"
Registered == loop \in {"checking", "counted", "sleeping"}

NotifyWaiters(t) ==
    /\ MoveTask(t, "notifying", "gone")
    /\ notified' = (notified \/ Registered)
    /\ UNCHANGED guards
    /\ LoopUnchanged

-----------------------------------------------------------------------------
(* The last arm of run_loop, with WaitGroup::wait. *)

SeeCancelled ==
    /\ cancelled
    /\ MoveLoop("running", "registering")
    /\ TasksUnchanged
    /\ CloserUnchanged
    /\ UNCHANGED <<cancelled, notified>>

Register ==
    /\ MoveLoop("registering", "checking")
    /\ notified' = FALSE
    /\ TasksUnchanged
    /\ CloserUnchanged
    /\ UNCHANGED cancelled

CheckCount ==
    /\ MoveLoop("checking", IF guards = {} THEN "exiting" ELSE "counted")
    /\ TasksUnchanged
    /\ CloserUnchanged
    /\ UNCHANGED <<cancelled, notified>>

Sleep ==
    /\ MoveLoop("counted", "sleeping")
    /\ TasksUnchanged
    /\ CloserUnchanged
    /\ UNCHANGED <<cancelled, notified>>

Wake ==
    /\ notified
    /\ MoveLoop("sleeping", "registering")
    /\ TasksUnchanged
    /\ CloserUnchanged
    /\ UNCHANGED <<cancelled, notified>>

\* loop_done_tx.send_replace(true).
FinishLoop ==
    /\ MoveLoop("exiting", "done")
    /\ TasksUnchanged
    /\ CloserUnchanged
    /\ UNCHANGED <<cancelled, notified>>

-----------------------------------------------------------------------------
(* stop and close. *)

CloserStep == TasksUnchanged /\ UNCHANGED <<loop, notified>>

\* stop(), or the token of the handler, whose child the job's is.
Stop ==
    /\ cancelled' = TRUE
    /\ CloserStep
    /\ CloserUnchanged

Close(c) ==
    /\ MoveCloser(c, "idle", "subscribing")
    /\ cancelled' = TRUE
    /\ CloserStep
    /\ UNCHANGED seen

\* A receiver has seen the value that is current when it subscribes, and every
\* value it reads.  A mutant waits for a change before it looks.
SubscribeAndWait(c) ==
    /\ MoveCloser(c, "subscribing", "waiting")
    /\ seen' = IF loop = "done" THEN seen \cup {c} ELSE seen
    /\ CloserStep
    /\ UNCHANGED cancelled

Subscribe(c) ==
    /\ MoveCloser(c, "subscribing", "reading")
    /\ seen' = IF loop = "done" THEN seen \cup {c} ELSE seen
    /\ CloserStep
    /\ UNCHANGED cancelled

borrow_and_update(c) ==
    /\ MoveCloser(c, "reading", IF loop = "done" THEN "ok" ELSE "waiting")
    /\ seen' = IF loop = "done" THEN seen \cup {c} ELSE seen
    /\ CloserStep
    /\ UNCHANGED cancelled

Changed(c) ==
    /\ loop = "done"
    /\ c \notin seen
    /\ MoveCloser(c, "waiting", "reading")
    /\ seen' = seen \cup {c}
    /\ CloserStep
    /\ UNCHANGED cancelled

TimesOut(c) ==
    /\ \/ MoveCloser(c, "waiting", "timedout")
       \/ MoveCloser(c, "reading", "timedout")
    /\ CloserStep
    /\ UNCHANGED <<cancelled, seen>>

-----------------------------------------------------------------------------
TaskStep(t) ==
    \/ SpawnTask(t)
    \/ BeginWork(t)
    \/ EndWork(t)
    \/ DropGuard(t)
    \/ NotifyWaiters(t)

LoopStep ==
    SeeCancelled \/ Register \/ CheckCount \/ Sleep \/ Wake \/ FinishLoop

CallStep(c) ==
    \/ Close(c)
    \/ Subscribe(c)
    \/ borrow_and_update(c)
    \/ Changed(c)
    \/ TimesOut(c)

Next ==
    \/ SpawnLoop
    \/ StartLookup
    \/ LoopStep
    \/ Stop
    \/ \E t \in Tasks : TaskStep(t)
    \/ \E c \in Closers : CallStep(c)

\* The runtime polls every task that can make progress, and a task's work is
\* bounded (DelayedEventJob, Retry).  No close() is forced to time out.
Fairness ==
    /\ WF_vars(LoopStep)
    /\ \A t \in Tasks :
            WF_vars(BeginWork(t) \/ EndWork(t) \/ DropGuard(t)
                        \/ NotifyWaiters(t))
    /\ \A c \in Closers :
            WF_vars(Subscribe(c) \/ borrow_and_update(c) \/ Changed(c))

Spec == Init /\ [][Next]_vars

FairSpec == Spec /\ Fairness

-----------------------------------------------------------------------------
(* Properties. *)

Drain == INSTANCE TaskDrain WITH
            working <- {t \in Tasks : task[t] = "working"},
            over    <- loop = "done",
            closed  <- {c \in Closers : closer[c] = "ok"}

\* What makes the wait sound: a task that may work holds a guard, the loop spawns
\* none once it has left its select, and the only guard that may be taken after
\* the count was zero is that of a lookup which is cancelled before it starts.
TeardownInv ==
    /\ TypeOK
    /\ \A t \in Tasks :
            task[t] \in {"spawned", "working", "leaving"} => t \in guards
    /\ loop \notin {"unborn", "running"} => cancelled
    /\ loop = "unborn" => \A t \in Tasks : task[t] = "unborn"
    /\ loop \in {"exiting", "done"} =>
            guards \subseteq {Lookup} /\ task[Lookup] # "working"
    /\ \A c \in Closers : closer[c] = "ok" => loop = "done"

\* The job is over only when none of its tasks is at work, none works after that,
\* and close() succeeds only then ("waits until all job tasks have exited"): the
\* guards taken before spawning, the count read after registering and the watch
\* channel implement the plain draining of a set of tasks.
DrainsItsTasks == Drain!Spec

\* The loop of a job that is stopped exits: the drop of the last guard is never
\* missed between the look at the count and the wait for the notification.
LoopEnds == cancelled /\ loop # "unborn" ~> loop = "done"

\* A caller of close() whose loop has exited returns without the help of its
\* timeout, however the exit falls between its subscription, look and wait.
CloseReturns ==
    \A c \in Closers :
        loop = "done" /\ closer[c] # "idle" ~> closer[c] \in {"ok", "timedout"}

=============================================================================
