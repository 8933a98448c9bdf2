----------------------------- MODULE JobCloseProofs -----------------------------
(***************************************************************************)
(* JobClose implements TaskDrain, for every set of tasks and of callers.   *)
(*                                                                         *)
(* TeardownInv is inductive as it stands: the guards taken before a task   *)
(* is spawned and the token that is cancelled before the loop counts them  *)
(* are all the argument needs.  The notifications play no part in safety;  *)
(* that they wake the loop is a liveness property, which TLC checks.       *)
(***************************************************************************)
EXTENDS JobClose, TLAPS

LEMMA InitEstablishes == Init => TeardownInv
  BY DEF Init, TeardownInv, TypeOK, TaskStage, LoopStage, CloserStage

\* The steps of the loop leave the tasks alone; the count decides which of them
\* reaches its exit.
LEMMA LoopPreserves ==
  ASSUME TeardownInv, SpawnLoop \/ LoopStep
  PROVE  TeardownInv'
<1> USE DEF TeardownInv, TypeOK, LoopStage, MoveLoop, TasksUnchanged,
            CloserUnchanged
<1>1. CASE SpawnLoop
  BY <1>1 DEF SpawnLoop
<1>2. CASE SeeCancelled
  BY <1>2 DEF SeeCancelled
<1>3. CASE Register
  BY <1>3 DEF Register
<1>4. CASE CheckCount
  <2>1. CASE guards = {}
    <3>1. loop' = "exiting" /\ guards' = {} /\ task' = task
      BY <1>4, <2>1 DEF CheckCount
    <3>2. task[Lookup] # "working"
      BY <2>1, LookupAssumption
    <3> QED
      BY <1>4, <3>1, <3>2 DEF CheckCount
  <2>2. CASE guards # {}
    BY <1>4, <2>2 DEF CheckCount
  <2> QED
    BY <2>1, <2>2
<1>5. CASE Sleep
  BY <1>5 DEF Sleep
<1>6. CASE Wake
  BY <1>6 DEF Wake
<1>7. CASE FinishLoop
  BY <1>7 DEF FinishLoop
<1> QED
  BY <1>1, <1>2, <1>3, <1>4, <1>5, <1>6, <1>7 DEF LoopStep

LEMMA LookupStartPreserves ==
  ASSUME TeardownInv, StartLookup
  PROVE  TeardownInv'
<1>1. /\ task[Lookup] = "unborn"
      /\ task' = [task EXCEPT ![Lookup] = "spawned"]
      /\ guards' = guards \cup {Lookup}
      /\ UNCHANGED <<cancelled, loop, notified, closer, seen>>
      /\ loop # "unborn"
  BY DEF StartLookup, MoveTask, add, LoopUnchanged
<1> QED
  BY <1>1, LookupAssumption DEF TeardownInv, TypeOK, TaskStage

LEMMA TaskPreserves ==
  ASSUME TeardownInv, NEW t \in Tasks, TaskStep(t)
  PROVE  TeardownInv'
<1> USE LookupAssumption DEF TeardownInv, TypeOK, TaskStage, MoveTask,
                             LoopUnchanged
<1>1. CASE SpawnTask(t)
  BY <1>1 DEF SpawnTask, add
<1>2. CASE BeginWork(t)
  BY <1>2 DEF BeginWork
<1>3. CASE EndWork(t)
  BY <1>3 DEF EndWork
<1>4. CASE DropGuard(t)
  BY <1>4 DEF DropGuard
<1>5. CASE NotifyWaiters(t)
  BY <1>5 DEF NotifyWaiters
<1> QED
  BY <1>1, <1>2, <1>3, <1>4, <1>5 DEF TaskStep

LEMMA CallPreserves ==
  ASSUME TeardownInv,
         Stop \/ \E c \in Closers : CallStep(c)
  PROVE  TeardownInv'
<1> USE DEF TeardownInv, TypeOK, CloserStage, MoveCloser, CloserStep,
            CloserUnchanged, TasksUnchanged
<1>1. CASE Stop
  BY <1>1 DEF Stop
<1>2. ASSUME NEW c \in Closers, CallStep(c)
      PROVE  TeardownInv'
  <2>1. CASE Close(c)
    BY <2>1 DEF Close
  <2>2. CASE Subscribe(c)
    BY <2>2 DEF Subscribe
  <2>3. CASE borrow_and_update(c)
    BY <2>3 DEF borrow_and_update
  <2>4. CASE Changed(c)
    BY <2>4 DEF Changed
  <2>5. CASE TimesOut(c)
    BY <2>5 DEF TimesOut
  <2> QED
    BY <1>2, <2>1, <2>2, <2>3, <2>4, <2>5 DEF CallStep
<1> QED
  BY <1>1, <1>2

LEMMA NextPreserves ==
  TeardownInv /\ [Next]_vars => TeardownInv'
<1> SUFFICES ASSUME TeardownInv, [Next]_vars
             PROVE  TeardownInv'
  OBVIOUS
<1>1. CASE UNCHANGED vars
  BY <1>1 DEF vars, TeardownInv, TypeOK
<1>2. CASE Next
  BY <1>2, LoopPreserves, LookupStartPreserves, TaskPreserves, CallPreserves
     DEF Next
<1> QED
  BY <1>1, <1>2

\* While the job is torn down, the guards account for every task that may still
\* work, whatever the number of tasks and callers.
THEOREM TeardownInvariant == Spec => []TeardownInv
<1>1. Init => TeardownInv
  BY InitEstablishes
<1>2. TeardownInv /\ [Next]_vars => TeardownInv'
  BY NextPreserves
<1> QED
  BY <1>1, <1>2, PTL DEF Spec

-----------------------------------------------------------------------------
(* The refinement. *)

Working == {t \in Tasks : task[t] = "working"}
Closed  == {c \in Closers : closer[c] = "ok"}

LEMMA InitRefines == Init => Drain!Init
  BY DEF Init, Drain!Init

\* A step that touches none of the mapped state is a stutter of the drain.
LEMMA SameMapping ==
  ASSUME UNCHANGED <<Working, Closed, loop = "done">>
  PROVE  UNCHANGED Drain!vars
  BY DEF Drain!vars, Working, Closed

LEMMA TaskStepRefines ==
  ASSUME TeardownInv, NEW t \in Tasks, TaskStep(t)
  PROVE  [Drain!Next]_Drain!vars
<1> USE LookupAssumption DEF TeardownInv, TypeOK, MoveTask, LoopUnchanged
<1>1. CASE SpawnTask(t)
  <2>1. UNCHANGED <<Working, Closed, loop = "done">>
    BY <1>1 DEF SpawnTask, add, Working, Closed
  <2> QED
    BY <2>1, SameMapping
<1>2. CASE BeginWork(t)
  <2>1. loop # "done"
    BY <1>2 DEF BeginWork
  <2>2. /\ Working' = Working \cup {t}
        /\ Closed' = Closed
        /\ loop' = loop
    BY <1>2 DEF BeginWork, Working, Closed
  <2> QED
    BY <2>1, <2>2 DEF Drain!Next, Drain!Begin, Working, Closed
<1>3. CASE EndWork(t)
  <2>1. /\ Working' = Working \ {t}
        /\ Closed' = Closed
        /\ loop' = loop
    BY <1>3 DEF EndWork, Working, Closed
  <2> QED
    BY <2>1 DEF Drain!Next, Drain!End, Working, Closed
<1>4. CASE DropGuard(t)
  <2>1. UNCHANGED <<Working, Closed, loop = "done">>
    BY <1>4 DEF DropGuard, Working, Closed
  <2> QED
    BY <2>1, SameMapping
<1>5. CASE NotifyWaiters(t)
  <2>1. UNCHANGED <<Working, Closed, loop = "done">>
    BY <1>5 DEF NotifyWaiters, Working, Closed
  <2> QED
    BY <2>1, SameMapping
<1> QED
  BY <1>1, <1>2, <1>3, <1>4, <1>5 DEF TaskStep

LEMMA LoopStepRefines ==
  ASSUME TeardownInv, SpawnLoop \/ StartLookup \/ LoopStep
  PROVE  [Drain!Next]_Drain!vars
<1> USE DEF MoveLoop, TasksUnchanged, CloserUnchanged
<1>1. CASE FinishLoop
  <2>1. Working = {}
    BY <1>1, LookupAssumption DEF FinishLoop, TeardownInv, Working
  <2>2. /\ loop' = "done"
        /\ Working' = Working
        /\ Closed' = Closed
    BY <1>1 DEF FinishLoop, Working, Closed
  <2> QED
    BY <2>1, <2>2 DEF Drain!Next, Drain!Finish, Working, Closed
<1>2. CASE StartLookup
  <2>1. UNCHANGED <<Working, Closed, loop = "done">>
    BY <1>2, LookupAssumption DEF StartLookup, MoveTask, LoopUnchanged, Working,
       Closed, TeardownInv, TypeOK
  <2> QED
    BY <2>1, SameMapping
<1>3. CASE SpawnLoop \/ SeeCancelled \/ Register \/ CheckCount \/ Sleep \/ Wake
  <2>1. UNCHANGED <<Working, Closed, loop = "done">>
    BY <1>3 DEF SpawnLoop, SeeCancelled, Register, CheckCount, Sleep, Wake,
       Working, Closed
  <2> QED
    BY <2>1, SameMapping
<1> QED
  BY <1>1, <1>2, <1>3 DEF LoopStep

LEMMA CallStepRefines ==
  ASSUME TeardownInv, Stop \/ \E c \in Closers : CallStep(c)
  PROVE  [Drain!Next]_Drain!vars
<1> USE DEF MoveCloser, CloserStep, CloserUnchanged, TasksUnchanged
<1>1. CASE Stop
  <2>1. UNCHANGED <<Working, Closed, loop = "done">>
    BY <1>1 DEF Stop, Working, Closed
  <2> QED
    BY <2>1, SameMapping
<1>2. ASSUME NEW c \in Closers, CallStep(c)
      PROVE  [Drain!Next]_Drain!vars
  <2>1. CASE borrow_and_update(c) /\ loop = "done"
    <3>1. /\ Closed' = Closed \cup {c}
          /\ Working' = Working
          /\ loop' = loop
      BY <2>1 DEF borrow_and_update, Closed, Working, TeardownInv, TypeOK
    <3> QED
      BY <2>1, <3>1 DEF Drain!Next, Drain!Return, Working, Closed
  <2>2. CASE ~(borrow_and_update(c) /\ loop = "done")
    <3>1. UNCHANGED <<Working, Closed, loop = "done">>
      BY <1>2, <2>2 DEF CallStep, Close, Subscribe, borrow_and_update, Changed,
         TimesOut, Closed, Working, TeardownInv, TypeOK
    <3> QED
      BY <3>1, SameMapping
  <2> QED
    BY <2>1, <2>2
<1> QED
  BY <1>1, <1>2

LEMMA NextRefines ==
  TeardownInv /\ [Next]_vars => [Drain!Next]_Drain!vars
<1> SUFFICES ASSUME TeardownInv, [Next]_vars
             PROVE  [Drain!Next]_Drain!vars
  OBVIOUS
<1>1. CASE UNCHANGED vars
  <2>1. UNCHANGED <<Working, Closed, loop = "done">>
    BY <1>1 DEF vars, Working, Closed
  <2> QED
    BY <2>1, SameMapping
<1>2. CASE Next
  BY <1>2, TaskStepRefines, LoopStepRefines, CallStepRefines DEF Next
<1> QED
  BY <1>1, <1>2

\* The wait group, the loop's exit and the watch channel implement the draining
\* of a set of tasks: nothing works once the loop is done, and close() succeeds
\* only then.
THEOREM ImplementsDrain == Spec => DrainsItsTasks
<1>1. Init => Drain!Init
  BY InitRefines
<1>2. TeardownInv /\ [Next]_vars => [Drain!Next]_Drain!vars
  BY NextRefines
<1>3. Spec => []TeardownInv
  BY TeardownInvariant
<1> QED
  BY <1>1, <1>2, <1>3, PTL DEF Spec, DrainsItsTasks, Drain!Spec

=============================================================================
