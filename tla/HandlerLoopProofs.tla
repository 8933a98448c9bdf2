--------------------------- MODULE HandlerLoopProofs ---------------------------
(***************************************************************************)
(* The handler loop, for any number of keys, requests and processes and    *)
(* any capacities of the channels.                                         *)
(*                                                                         *)
(* First, who is in the map and who runs.  That every job that runs is in  *)
(* the map or known to be on its way out says too little to be kept by a   *)
(* step: LifeInv adds that everything is filed under its own key, that a   *)
(* request not yet accepted has left no trace, and what a process that has *)
(* not come to its select! may have started.                               *)
(*                                                                         *)
(* Second, the store.  The operations between the map and the store, which *)
(* are the one being written, those in the queue and the one the loop      *)
(* waits to enqueue, form a sequence; for each key the last of them, or    *)
(* the store if there is none, has what the map has.  StoreInv says this,  *)
(* of a recovering process, too, and that no later operation undoes one    *)
(* whose caller waits for it or was told of it.                            *)
(***************************************************************************)
EXTENDS HandlerLoop, TLAPS

-----------------------------------------------------------------------------
(* Types. *)

\* Before its select! a process has written nothing.
Idle == loop \in {"down", "recovering"}

\* Recovery is about stored jobs, nothing is under way before it is over, an
\* operation waits only while the loop awaits its enqueuing, and the loop routes
\* an event to a job only.
TypeInv ==
    /\ TypeOK
    /\ pending # NoJob => loop = "enqueuing"
    /\ Idle => writer = NoJob /\ writeQ = <<>> /\ pending = NoJob
    /\ \A k \in toRecover : store[k] # NoJob
    /\ loop # "recovering" => toRecover = {}
    /\ loop = "routing" => target # NoJob

LEMMA OperationsTyped ==
  ASSUME NEW k \in Keys, NEW j \in Requests \cup {NoJob}, NEW n \in BOOLEAN
  PROVE  [key |-> k, job |-> j, notify |-> n] \in StoreOp
BY DEF StoreOp

LEMMA RecoveryTyped ==
  ASSUME TypeInv, Recovery
  PROVE  TypeInv'
<1> USE DEF TypeInv, Idle, TypeOK, LoopState, loopVars, processVars, jobVars,
            channelVars, storeVars
<1>1. CASE Start
  BY <1>1, CapAssumption DEF Start, all_jobs
<1>2. ASSUME NEW k \in Keys, RecoverJob(k) PROVE TypeInv'
  BY <1>2 DEF RecoverJob, BornStopped
<1>3. ASSUME NEW k \in Keys, DropExpiredJob(k) PROVE TypeInv'
  BY <1>3 DEF DropExpiredJob, delete_job
<1>4. CASE FinishRecovery
  BY <1>4 DEF FinishRecovery
<1> QED
  BY <1>1, <1>2, <1>3, <1>4 DEF Recovery

LEMMA AwaitTyped ==
  ASSUME TypeInv, NEW op \in StoreOp, NEW j \in Requests \cup {NoJob},
         AwaitEnqueue(op, j)
  PROVE  /\ loop' = "enqueuing"
         /\ pending' \in StoreOp \cup {NoJob}
         /\ target' \in Requests \cup {NoJob}
BY DEF AwaitEnqueue

LEMMA SelectTyped ==
  ASSUME TypeInv, Select
  PROVE  TypeInv'
<1> USE DEF TypeInv, Idle, TypeOK, LoopState, ClientState, loopVars,
            processVars, jobVars, channelVars, storeVars
<1>1. ASSUME NEW r \in Requests, AddJob(r) PROVE TypeInv'
  <2>1. [key |-> KeyOf[r], job |-> r, notify |-> TRUE] \in StoreOp
    BY KeyAssumption, OperationsTyped
  <2>2. ReplacedBy(r) \subseteq Requests /\ BornStopped(r) \subseteq Requests
    BY DEF ReplacedBy, BornStopped
  <2>3. inbox' \in [Requests -> 0 .. EventCap]
    BY <1>1, CapAssumption DEF AddJob
  <2>4. /\ loop' = "enqueuing"
        /\ pending' \in StoreOp \cup {NoJob}
        /\ target' \in Requests \cup {NoJob}
    BY <1>1, <2>1, AwaitTyped DEF AddJob
  <2> QED
    BY <1>1, <2>2, <2>3, <2>4 DEF AddJob
<1>2. ASSUME NEW r \in Requests, RejectJob(r) PROVE TypeInv'
  BY <1>2 DEF RejectJob
<1>3. ASSUME NEW k \in Keys, RouteEvent(k) PROVE TypeInv'
  BY <1>3 DEF RouteEvent
<1>4. CASE FinishRouting
  <2>1. CASE inbox' = [inbox EXCEPT ![target] = @ + 1] /\ inbox[target] < EventCap
    <3>1. inbox[target] + 1 \in 0 .. EventCap
      BY <1>4, <2>1, CapAssumption DEF FinishRouting
    <3>2. inbox' \in [Requests -> 0 .. EventCap]
      BY <2>1, <3>1
    <3> QED
      BY <1>4, <3>2 DEF FinishRouting
  <2>2. CASE UNCHANGED inbox
    BY <1>4, <2>2 DEF FinishRouting
  <2> QED
    BY <1>4, <2>1, <2>2 DEF FinishRouting
<1>5. CASE TakeDone
  <2> DEFINE j == Head(doneQ)
  <2>1. j \in Requests /\ doneQ' \in Seq(Requests) /\ Len(doneQ') <= DoneCap
    BY <1>5, CapAssumption DEF TakeDone
  <2>2. CASE Current(j)
    <3>1. [key |-> KeyOf[j], job |-> NoJob, notify |-> FALSE] \in StoreOp
      BY <2>1, KeyAssumption, OperationsTyped
    <3>2. /\ loop' = "enqueuing"
          /\ pending' \in StoreOp \cup {NoJob}
          /\ target' \in Requests \cup {NoJob}
      BY <1>5, <2>1, <2>2, <3>1, AwaitTyped DEF TakeDone
    <3> QED
      BY <1>5, <2>1, <2>2, <3>2 DEF TakeDone, WithoutFinished
  <2>3. CASE ~Current(j)
    BY <1>5, <2>1, <2>3 DEF TakeDone
  <2> QED
    BY <2>2, <2>3
<1>6. CASE TakeRestarted
  <2> DEFINE j == Head(restartedQ)
  <2>1. /\ j \in Requests /\ restartedQ' \in Seq(Requests)
        /\ Len(restartedQ') <= RestartedCap
    BY <1>6, CapAssumption DEF TakeRestarted
  <2>2. CASE Current(j) /\ HasStore
    <3>1. [key |-> KeyOf[j], job |-> j, notify |-> FALSE] \in StoreOp
      BY <2>1, KeyAssumption, OperationsTyped
    <3>2. /\ loop' = "enqueuing"
          /\ pending' \in StoreOp \cup {NoJob}
          /\ target' \in Requests \cup {NoJob}
      BY <1>6, <2>1, <2>2, <3>1, AwaitTyped DEF TakeRestarted
    <3> QED
      BY <1>6, <2>1, <2>2, <3>2 DEF TakeRestarted
  <2>3. CASE ~(Current(j) /\ HasStore)
    BY <1>6, <2>1, <2>3 DEF TakeRestarted
  <2> QED
    BY <2>2, <2>3
<1>7. CASE FinishEnqueue
  <2>1. writeQ' \in Seq(StoreOp) /\ Len(writeQ') <= WriteCap
    <3>1. CASE pending = NoJob
      BY <1>7, <3>1 DEF FinishEnqueue
    <3>2. CASE pending # NoJob
      <4>1. pending \in StoreOp /\ WriteCap \in Nat
        BY <3>2, CapAssumption
      <4>2. Len(writeQ) < WriteCap /\ writeQ' = Append(writeQ, pending)
        BY <1>7, <3>2 DEF FinishEnqueue
      <4> QED
        BY <4>1, <4>2
    <3> QED
      BY <3>1, <3>2
  <2>2. /\ client' \in [Requests -> ClientState]
        /\ life' \in [Requests -> {"none", "created", "live", "exited"}]
        /\ stopped' \subseteq Requests
    BY <1>7 DEF FinishEnqueue, Stopping
  <2> QED
    BY <1>7, <2>1, <2>2 DEF FinishEnqueue
<1> QED
  BY <1>1, <1>2, <1>3, <1>4, <1>5, <1>6, <1>7 DEF Select

LEMMA ShutdownTyped ==
  ASSUME TypeInv, Shutdown
  PROVE  TypeInv'
<1> USE DEF TypeInv, Idle, TypeOK, LoopState, ClientState, loopVars,
            processVars, jobVars, channelVars, storeVars
<1>1. CASE Cancel
  BY <1>1 DEF Cancel
<1>2. CASE BeginShutdown
  BY <1>2, CapAssumption DEF BeginShutdown
<1>3. CASE JoinJobs \/ JoinTimesOut
  BY <1>3 DEF JoinJobs, JoinTimesOut, LeaveJoining
<1>4. CASE FinishShutdown
  BY <1>4 DEF FinishShutdown, DropRequests
<1> QED
  BY <1>1, <1>2, <1>3, <1>4 DEF Shutdown

LEMMA ClientTyped ==
  ASSUME TypeInv, NEW r \in Requests, Client(r)
  PROVE  TypeInv'
BY DEF TypeInv, Idle, TypeOK, ClientState, loopVars, processVars, jobVars,
       channelVars, storeVars, Client, ClientCalls, ClientSends,
       ClientSeesShutdown, Reply, ClientUnchanged

LEMMA JobTyped ==
  ASSUME TypeInv, NEW r \in Requests, Job(r)
  PROVE  TypeInv'
<1> USE DEF TypeInv, Idle, TypeOK, loopVars, processVars, channelVars,
            storeVars, JobUnchanged
<1>1. CASE JobReads(r)
  <2>1. inbox' \in [Requests -> 0 .. EventCap]
    BY <1>1, CapAssumption DEF JobReads
  <2> QED
    BY <1>1, <2>1 DEF JobReads
<1>2. CASE JobEnds(r)
  BY <1>2 DEF JobEnds
<1>3. CASE SendDone(r)
  BY <1>3, CapAssumption DEF SendDone, DoneHasRoom
<1>4. CASE DropDone(r)
  BY <1>4 DEF DropDone
<1>5. CASE JobRestarts(r)
  BY <1>5 DEF JobRestarts
<1>6. CASE SendRestarted(r)
  BY <1>6, CapAssumption DEF SendRestarted
<1>7. CASE DropRestarted(r)
  BY <1>7 DEF DropRestarted
<1>8. CASE JobExits(r)
  <2>1. inbox' \in [Requests -> 0 .. EventCap]
    BY <1>8, CapAssumption DEF JobExits
  <2> QED
    BY <1>8, <2>1 DEF JobExits
<1> QED
  BY <1>1, <1>2, <1>3, <1>4, <1>5, <1>6, <1>7, <1>8 DEF Job

LEMMA WriterTyped ==
  ASSUME TypeInv, Writer
  PROVE  TypeInv'
<1> USE DEF TypeInv, Idle, TypeOK, ClientState, loopVars, processVars,
            jobVars, channelVars, WriterUnchanged
<1>1. CASE WriterTakes
  BY <1>1, CapAssumption DEF WriterTakes
<1>2. CASE WriterCompletes
  <2>1. writer \in StoreOp /\ ~Idle
    BY <1>2 DEF WriterCompletes
  <2>2. writer.key \in Keys /\ writer.job \in Requests \cup {NoJob}
    BY <2>1 DEF StoreOp
  <2> QED
    BY <1>2, <2>1, <2>2 DEF WriterCompletes, save_job, delete_job
<1> QED
  BY <1>1, <1>2 DEF Writer

LEMMA ProcessEndTyped ==
  ASSUME TypeInv, ProcessEnds
  PROVE  TypeInv'
<1>1. inbox' \in [Requests -> 0 .. EventCap]
  BY CapAssumption DEF ProcessEnds
<1>2. /\ doneQ' \in Seq(Requests) /\ Len(doneQ') <= DoneCap
      /\ restartedQ' \in Seq(Requests) /\ Len(restartedQ') <= RestartedCap
      /\ writeQ' \in Seq(StoreOp) /\ Len(writeQ') <= WriteCap
  BY CapAssumption DEF ProcessEnds
<1>3. client' \in [Requests -> ClientState]
  BY DEF ProcessEnds, ClientState, TypeInv, TypeOK
<1> QED
  BY <1>1, <1>2, <1>3 DEF ProcessEnds, TypeInv, Idle, TypeOK, LoopState

LEMMA InitTyped == Init => TypeInv
<1> SUFFICES ASSUME Init PROVE TypeInv
  OBVIOUS
<1>1. inbox \in [Requests -> 0 .. EventCap] /\ starts \in 0 .. MaxStarts
  BY CapAssumption DEF Init
<1>2. /\ doneQ \in Seq(Requests) /\ Len(doneQ) <= DoneCap
      /\ restartedQ \in Seq(Requests) /\ Len(restartedQ) <= RestartedCap
      /\ writeQ \in Seq(StoreOp) /\ Len(writeQ) <= WriteCap
  BY CapAssumption DEF Init
<1>3. client \in [Requests -> ClientState]
  BY DEF Init, ClientState
<1>4. storeKind \in StoreKind
  BY StoresAssumption DEF Init
<1> QED
  BY <1>1, <1>2, <1>3, <1>4 DEF Init, TypeInv, Idle, TypeOK, LoopState

LEMMA StutterTyped ==
  ASSUME TypeInv, UNCHANGED vars
  PROVE  TypeInv'
BY DEF TypeInv, Idle, TypeOK, vars, loopVars, processVars, jobVars,
       channelVars, storeVars

\* Every reachable state of the handler is well-formed, whatever the capacities
\* of its channels and however many processes come one after another.
THEOREM TypeCorrect == Spec => []TypeInv
<1>1. TypeInv /\ [Next]_vars => TypeInv'
  BY RecoveryTyped, SelectTyped, ShutdownTyped, ClientTyped, JobTyped,
     WriterTyped, ProcessEndTyped, StutterTyped DEF Next, Terminated
<1> QED
  BY InitTyped, <1>1, PTL DEF Spec

-----------------------------------------------------------------------------
(* The map and the jobs. *)

\* The operations on their way to the store, in whatever order.
Outstanding ==
    ({writer, pending} \cup {writeQ[i] : i \in DOMAIN writeQ}) \ {NoJob}

\* Everything is filed under its own key.
KeysInv ==
    /\ \A k \in Keys : jobs[k] # NoJob => KeyOf[jobs[k]] = k
    /\ \A k \in Keys : store[k] # NoJob => KeyOf[store[k]] = k
    /\ \A op \in Outstanding : op.job # NoJob => KeyOf[op.job] = op.key

\* A request that the loop has not accepted has left no trace.
FreshInv ==
    \A r \in Requests : client[r] \in {"idle", "sending", "queued"} =>
        /\ life[r] = "none"
        /\ \A k \in Keys : jobs[k] # r /\ store[k] # r
        /\ \A op \in Outstanding : op.job # r

\* Before its select! a process runs the jobs it has recovered, and no others.
StartInv ==
    /\ loop = "down" => \A k \in Keys : jobs[k] = NoJob
    /\ \A k \in toRecover : jobs[k] = NoJob /\ life[store[k]] = "none"
    /\ Idle => \A r \in Requests : life[r] # "none" => Current(r)

\* What stops and reports has been started; a job is created while the loop waits
\* to have it saved, and one that is done is out of the map before it is stopped.
JobsInv ==
    /\ \A r \in Requests : Current(r) \/ r \in stopped => life[r] # "none"
    /\ \A r \in Requests : report[r] # "no" => life[r] \in {"live", "exited"}
    /\ \A r \in Requests : life[r] = "exited" => r \in stopped
    /\ \A i \in DOMAIN doneQ : report[doneQ[i]] = "sent"
    /\ \A r \in Requests :
            life[r] = "created" => loop = "enqueuing" /\ target = r /\ Current(r)
    /\ loop = "enqueuing" /\ target # NoJob /\ life[target] # "created" =>
            ~Current(target) /\ life[target] # "none"

LifeInv ==
    /\ KeysInv
    /\ FreshInv
    /\ StartInv
    /\ JobsInv
    /\ NoOrphanJob
    /\ MapHoldsRunningJobs

LEMMA NoJobIsNoRequest == \A r \in Requests : r # NoJob
BY NoJobAssumption

\* What only moves operations on adds none.
LEMMA OutstandingKept ==
  ASSUME TypeInv, FinishEnqueue \/ WriterTakes \/ WriterCompletes
  PROVE  Outstanding' \subseteq Outstanding
<1>1. writeQ \in Seq(StoreOp)
  BY DEF TypeInv, TypeOK
<1>2. CASE FinishEnqueue
  <2>1. writer' = writer /\ pending' = NoJob
    BY <1>2 DEF FinishEnqueue
  <2>2. \A i \in DOMAIN writeQ' :
            writeQ'[i] = pending \/ (i \in DOMAIN writeQ /\ writeQ'[i] = writeQ[i])
    BY <1>1, <1>2 DEF FinishEnqueue
  <2> QED
    BY <2>1, <2>2 DEF Outstanding
<1>3. CASE WriterTakes
  <2>1. writer' = writeQ[1] /\ pending' = pending /\ 1 \in DOMAIN writeQ
    BY <1>1, <1>3 DEF WriterTakes, WriterUnchanged, loopVars
  <2>2. \A i \in DOMAIN writeQ' : i + 1 \in DOMAIN writeQ /\ writeQ'[i] = writeQ[i+1]
    BY <1>1, <1>3 DEF WriterTakes
  <2> QED
    BY <2>1, <2>2 DEF Outstanding
<1>4. CASE WriterCompletes
  BY <1>4 DEF WriterCompletes, WriterUnchanged, loopVars, Outstanding
<1> QED
  BY <1>2, <1>3, <1>4

LEMMA OutstandingAdded ==
  ASSUME UNCHANGED <<writer, writeQ>>
  PROVE  Outstanding' \subseteq Outstanding \cup ({pending'} \ {NoJob})
BY DEF Outstanding

\* A step that leaves the map, the loop and the jobs alone.
LEMMA AsideLives ==
  ASSUME TypeInv, LifeInv,
         UNCHANGED <<jobs, store, writer, writeQ, pending, loop, target,
                     toRecover, life, stopped, report, doneQ, cancelled>>,
         \A r \in Requests : client'[r] \in {"idle", "sending", "queued"} =>
                client[r] \in {"idle", "sending", "queued"}
  PROVE  LifeInv'
<1>1. Outstanding' = Outstanding
  BY DEF Outstanding
<1> QED
  BY <1>1 DEF LifeInv, KeysInv, FreshInv, StartInv, Idle, JobsInv, NoOrphanJob,
              MapHoldsRunningJobs, Current

LEMMA ClientLives ==
  ASSUME TypeInv, LifeInv, NEW r \in Requests, Client(r) \/ RejectJob(r)
  PROVE  LifeInv'
<1>1. UNCHANGED <<jobs, store, writer, writeQ, pending, loop, target,
                  toRecover, life, stopped, report, doneQ, cancelled>>
  BY DEF Client, ClientCalls, ClientSends, ClientSeesShutdown, Reply,
         ClientUnchanged, RejectJob, loopVars, processVars, jobVars,
         channelVars, storeVars
<1>2. \A s \in Requests : client'[s] \in {"idle", "sending", "queued"} =>
                client[s] \in {"idle", "sending", "queued"}
  BY DEF TypeInv, TypeOK, Client, ClientCalls, ClientSends,
         ClientSeesShutdown, Reply, RejectJob
<1> QED
  BY <1>1, <1>2, AsideLives

LEMMA JobLives ==
  ASSUME TypeInv, LifeInv, NEW r \in Requests, Job(r)
  PROVE  LifeInv'
<1> USE DEF JobUnchanged, loopVars, processVars, storeVars, channelVars
<1>1. CASE JobReads(r) \/ JobRestarts(r) \/ SendRestarted(r) \/ DropRestarted(r)
  BY <1>1, AsideLives DEF JobReads, JobRestarts, SendRestarted, DropRestarted
<1>2. CASE JobEnds(r) \/ SendDone(r) \/ DropDone(r)
  <2>1. UNCHANGED <<jobs, store, writer, writeQ, pending, loop, target,
                    toRecover, life, stopped, cancelled, client>>
    BY <1>2 DEF JobEnds, SendDone, DropDone
  <2>2. Outstanding' = Outstanding
    BY <2>1 DEF Outstanding
  <2>3. /\ KeysInv' /\ FreshInv' /\ StartInv' /\ NoOrphanJob'
        /\ MapHoldsRunningJobs'
    BY <2>1, <2>2 DEF LifeInv, KeysInv, FreshInv, StartInv, Idle, NoOrphanJob,
                      MapHoldsRunningJobs, Current
  <2>4. \A i \in DOMAIN doneQ' : report'[doneQ'[i]] = "sent"
    <3>1. \A i \in DOMAIN doneQ : doneQ[i] \in Requests /\ report[doneQ[i]] = "sent"
      BY DEF LifeInv, JobsInv, TypeInv, TypeOK
    <3>2. CASE SendDone(r)
      BY <3>1, <3>2 DEF SendDone, TypeInv, TypeOK
    <3>3. CASE JobEnds(r) \/ DropDone(r)
      BY <3>1, <3>3 DEF JobEnds, DropDone, TypeInv, TypeOK
    <3> QED
      BY <1>2, <3>2, <3>3
  <2>5. \A s \in Requests : report'[s] # "no" => life[s] \in {"live", "exited"}
    BY <1>2 DEF JobEnds, SendDone, DropDone, LifeInv, JobsInv, TypeInv, TypeOK
  <2>6. JobsInv'
    BY <2>1, <2>4, <2>5 DEF LifeInv, JobsInv, Current
  <2> QED
    BY <2>3, <2>6 DEF LifeInv
<1>3. CASE JobExits(r)
  <2>1. /\ UNCHANGED <<jobs, store, writer, writeQ, pending, loop, target,
                       toRecover, stopped, report, doneQ, cancelled, client>>
        /\ life' = [life EXCEPT ![r] = "exited"]
        /\ r \in stopped /\ life[r] = "live"
    BY <1>3 DEF JobExits
  <2>2. Outstanding' = Outstanding
    BY <2>1 DEF Outstanding
  <2>3. life \in [Requests -> {"none", "created", "live", "exited"}]
    BY DEF TypeInv, TypeOK
  <2>4. KeysInv' /\ FreshInv' /\ NoOrphanJob' /\ MapHoldsRunningJobs'
    BY <2>1, <2>2, <2>3, NoJobIsNoRequest
       DEF LifeInv, KeysInv, FreshInv, NoOrphanJob, MapHoldsRunningJobs, Current
  <2>5. StartInv'
    BY <2>1, <2>3 DEF LifeInv, StartInv, Idle, Current
  <2>6. JobsInv'
    BY <2>1, <2>3 DEF LifeInv, JobsInv, Current, TypeInv, TypeOK
  <2> QED
    BY <2>4, <2>5, <2>6 DEF LifeInv
<1> QED
  BY <1>1, <1>2, <1>3 DEF Job

LEMMA RecoveryLives ==
  ASSUME TypeInv, LifeInv, Recovery
  PROVE  LifeInv'
<1>1. UNCHANGED <<writer, writeQ, pending, client, stopped, report, doneQ,
                  cancelled, target>> \/ \E k \in Keys : RecoverJob(k)
  BY DEF Recovery, Start, DropExpiredJob, FinishRecovery, loopVars,
         processVars, jobVars, channelVars, storeVars
<1>2. CASE Start
  <2>1. /\ UNCHANGED <<writer, writeQ, pending, client, stopped, report, doneQ,
                       cancelled, target, jobs, store, life>>
        /\ loop = "down" /\ loop' = "recovering"
    BY <1>2 DEF Start, jobVars, channelVars, storeVars
  <2>2. Outstanding' = Outstanding
    BY <2>1 DEF Outstanding
  <2>3. \A r \in Requests : life[r] = "none"
    BY <2>1, NoJobIsNoRequest, KeyAssumption
       DEF LifeInv, StartInv, Idle, Current
  <2>4. toRecover' \subseteq {k \in Keys : store[k] # NoJob}
    BY <1>2 DEF Start, all_jobs
  <2>5. StartInv'
    BY <2>1, <2>3, <2>4 DEF LifeInv, StartInv, Idle, Current, TypeInv, TypeOK
  <2> QED
    BY <2>1, <2>2, <2>3, <2>5
       DEF LifeInv, KeysInv, FreshInv, JobsInv, NoOrphanJob,
           MapHoldsRunningJobs, Current
<1>3. ASSUME NEW k \in Keys, RecoverJob(k) PROVE LifeInv'
  <2> DEFINE r == store[k]
  <2>1. /\ loop = "recovering" /\ loop' = loop
        /\ UNCHANGED <<writer, writeQ, pending, client, report, doneQ,
                       cancelled, target, store>>
        /\ jobs' = [jobs EXCEPT ![k] = r]
        /\ life' = [life EXCEPT ![r] = "live"]
        /\ stopped' = stopped \cup BornStopped(r)
        /\ toRecover' = toRecover \ {k}
        /\ k \in toRecover
    BY <1>3 DEF RecoverJob, processVars, channelVars, storeVars
  <2>2. Outstanding' = Outstanding
    BY <2>1 DEF Outstanding
  <2>3. r \in Requests /\ KeyOf[r] = k /\ jobs[k] = NoJob /\ life[r] = "none"
    BY <2>1 DEF LifeInv, KeysInv, StartInv, TypeInv, TypeOK
  <2>4. /\ life' \in [Requests -> {"none", "created", "live", "exited"}]
        /\ jobs' \in [Keys -> Requests \cup {NoJob}]
    BY <2>1, <2>3 DEF TypeInv, TypeOK
  <2>5. r \notin stopped
    BY <2>3 DEF LifeInv, JobsInv
  <2>6. KeysInv' /\ FreshInv'
    BY <2>1, <2>2, <2>3, <2>4
       DEF LifeInv, KeysInv, FreshInv, TypeInv, TypeOK
  <2>7. StartInv'
    <3>1. \A l \in toRecover' : jobs'[l] = NoJob /\ life'[store'[l]] = "none"
      <4> SUFFICES ASSUME NEW l \in toRecover'
                   PROVE  jobs'[l] = NoJob /\ life'[store'[l]] = "none"
        OBVIOUS
      <4>1. l \in Keys /\ l # k /\ store[l] # NoJob /\ store[l] \in Requests
        BY <2>1 DEF TypeInv, TypeOK
      <4>2. store[l] # r
        BY <4>1, <2>3 DEF LifeInv, KeysInv
      <4> QED
        BY <2>1, <4>1, <4>2 DEF LifeInv, StartInv, TypeInv, TypeOK
    <3>2. \A s \in Requests : life'[s] # "none" => jobs'[KeyOf[s]] = s
      BY <2>1, <2>3, KeyAssumption, NoJobIsNoRequest
         DEF LifeInv, StartInv, Idle, Current, TypeInv, TypeOK
    <3> QED
      BY <2>1, <3>1, <3>2 DEF StartInv, Idle, Current
  <2>8. JobsInv'
    <3>1. stopped \subseteq stopped' /\ stopped' \subseteq stopped \cup {r}
      BY <2>1 DEF BornStopped
    <3>2. \A s \in Requests : life[s] # "created"
      BY <2>1 DEF LifeInv, JobsInv
    <3>3. \A s \in Requests : jobs'[KeyOf[s]] = s => s = r \/ Current(s)
      BY <2>1, KeyAssumption DEF Current, TypeInv, TypeOK
    <3>4. \A s \in Requests : life'[s] = IF s = r THEN "live" ELSE life[s]
      BY <2>1, <2>3 DEF TypeInv, TypeOK
    <3>5. \A s \in Requests : Current(s)' \/ s \in stopped' => life'[s] # "none"
      BY <3>1, <3>3, <3>4 DEF LifeInv, JobsInv, Current
    <3>6. \A s \in Requests : report'[s] # "no" => life'[s] \in {"live", "exited"}
      BY <2>1, <3>4 DEF LifeInv, JobsInv
    <3>7. \A s \in Requests : life'[s] = "exited" => s \in stopped'
      BY <3>1, <3>4 DEF LifeInv, JobsInv
    <3>8. \A i \in DOMAIN doneQ' : report'[doneQ'[i]] = "sent"
      BY <2>1 DEF LifeInv, JobsInv
    <3>9. \A s \in Requests : life'[s] # "created"
      BY <3>2, <3>4
    <3>10. loop' # "enqueuing"
      BY <2>1
    <3> QED
      BY <3>5, <3>6, <3>7, <3>8, <3>9, <3>10 DEF JobsInv, Current
  <2>9. NoOrphanJob'
    BY <2>1, <2>3, KeyAssumption, NoJobIsNoRequest
       DEF LifeInv, NoOrphanJob, BornStopped, Current, TypeInv, TypeOK
  <2>10. MapHoldsRunningJobs'
    BY <2>1, <2>3, <2>5, KeyAssumption
       DEF LifeInv, MapHoldsRunningJobs, BornStopped, TypeInv, TypeOK
  <2> QED
    BY <2>6, <2>7, <2>8, <2>9, <2>10 DEF LifeInv
<1>4. ASSUME NEW k \in Keys, DropExpiredJob(k) PROVE LifeInv'
  <2>1. /\ UNCHANGED <<writer, writeQ, pending, client, stopped, report, doneQ,
                       cancelled, target, jobs, life, loop>>
        /\ store' = delete_job(k) \/ store' = store
        /\ toRecover' = toRecover \ {k}
    BY <1>4 DEF DropExpiredJob, jobVars, channelVars, processVars
  <2>2. Outstanding' = Outstanding
    BY <2>1 DEF Outstanding
  <2>3. \A l \in Keys : store'[l] = store[l] \/ (l = k /\ store'[l] = NoJob)
    BY <2>1 DEF delete_job, TypeInv, TypeOK
  <2>4. KeysInv' /\ FreshInv'
    BY <2>1, <2>2, <2>3, NoJobIsNoRequest DEF LifeInv, KeysInv, FreshInv
  <2>5. StartInv'
    BY <2>1, <2>3
       DEF LifeInv, StartInv, Idle, Current, TypeInv, TypeOK
  <2> QED
    BY <2>1, <2>4, <2>5
       DEF LifeInv, JobsInv, NoOrphanJob, MapHoldsRunningJobs, Current
<1>5. CASE FinishRecovery
  <2>1. /\ UNCHANGED <<writer, writeQ, pending, client, stopped, report, doneQ,
                       cancelled, target, jobs, store, life, toRecover>>
        /\ loop = "recovering" /\ loop' = "select"
    BY <1>5 DEF FinishRecovery, jobVars, channelVars, processVars, storeVars
  <2>2. Outstanding' = Outstanding
    BY <2>1 DEF Outstanding
  <2> QED
    BY <2>1, <2>2
       DEF LifeInv, KeysInv, FreshInv, StartInv, Idle, JobsInv, NoOrphanJob,
           MapHoldsRunningJobs, Current
<1> QED
  BY <1>2, <1>3, <1>4, <1>5 DEF Recovery

LEMMA AddJobLives ==
  ASSUME TypeInv, LifeInv, NEW r \in Requests, AddJob(r)
  PROVE  LifeInv'
<1> DEFINE old == ReplacedBy(r)
<1>1. /\ loop = "select" /\ client[r] = "queued"
      /\ client' = [client EXCEPT ![r] = "accepted"]
      /\ stopped' = stopped \cup old \cup BornStopped(r)
      /\ jobs' = [jobs EXCEPT ![KeyOf[r]] = r]
      /\ life' = [life EXCEPT ![r] = "created"]
      /\ UNCHANGED <<toRecover, cancelled, report, doneQ, writer, writeQ, store>>
      /\ loop' = "enqueuing" /\ target' = r
  BY DEF AddJob, processVars, channelVars, storeVars, AwaitEnqueue
<1>2. pending' \in {[key |-> KeyOf[r], job |-> r, notify |-> TRUE], NoJob}
  BY DEF AddJob, AwaitEnqueue
<1>3. Outstanding' \subseteq Outstanding \cup ({pending'} \ {NoJob})
  BY <1>1, OutstandingAdded
<1>4. /\ life[r] = "none"
      /\ \A k \in Keys : jobs[k] # r /\ store[k] # r
      /\ \A op \in Outstanding : op.job # r
  BY <1>1 DEF LifeInv, FreshInv
<1>5. /\ old \subseteq Requests
      /\ \A j \in Requests : j \in old <=> jobs[KeyOf[r]] = j
      /\ r \notin old
  BY <1>4, KeyAssumption DEF ReplacedBy
<1>6. /\ KeyOf[r] \in Keys
      /\ life' \in [Requests -> {"none", "created", "live", "exited"}]
      /\ jobs' \in [Keys -> Requests \cup {NoJob}]
  BY <1>1, KeyAssumption DEF TypeInv, TypeOK
<1>7. toRecover = {}
  BY <1>1 DEF TypeInv
<1>8. r \notin stopped /\ report[r] = "no"
  BY <1>4 DEF LifeInv, JobsInv, TypeInv, TypeOK
<1>9. \A s \in Requests : life[s] # "created"
  BY <1>1 DEF LifeInv, JobsInv
<1>10. KeysInv'
  BY <1>1, <1>2, <1>3, <1>6 DEF LifeInv, KeysInv, TypeInv, TypeOK
<1>11. FreshInv'
  BY <1>1, <1>2, <1>3, <1>6 DEF LifeInv, FreshInv, TypeInv, TypeOK
<1>12. StartInv'
  BY <1>1, <1>7 DEF StartInv, Idle
<1>13. JobsInv'
  <2>1. \A j \in old : life[j] # "none"
    BY <1>5, NoJobIsNoRequest, KeyAssumption
       DEF LifeInv, JobsInv, KeysInv, Current
  <2> QED
    BY <1>1, <1>6, <1>8, <1>9, <2>1, KeyAssumption
       DEF LifeInv, JobsInv, BornStopped, Current, TypeInv, TypeOK
<1>14. NoOrphanJob'
  BY <1>1, <1>5, <1>6, KeyAssumption
     DEF LifeInv, NoOrphanJob, Current, TypeInv, TypeOK
<1>15. MapHoldsRunningJobs'
  BY <1>1, <1>4, <1>5, <1>6, <1>8, KeyAssumption
     DEF LifeInv, KeysInv, MapHoldsRunningJobs, BornStopped, TypeInv, TypeOK
<1> QED
  BY <1>10, <1>11, <1>12, <1>13, <1>14, <1>15 DEF LifeInv

LEMMA RoutingLives ==
  ASSUME TypeInv, LifeInv, FinishRouting \/ \E k \in Keys : RouteEvent(k)
  PROVE  LifeInv'
<1>1. /\ UNCHANGED <<jobs, store, writer, writeQ, pending, toRecover, life,
                     stopped, report, doneQ, cancelled, client>>
      /\ loop \in {"select", "routing"} /\ loop' \in {"select", "routing"}
  BY DEF RouteEvent, FinishRouting, processVars, jobVars, channelVars, storeVars
<1>2. Outstanding' = Outstanding
  BY <1>1 DEF Outstanding
<1> QED
  BY <1>1, <1>2 DEF LifeInv, KeysInv, FreshInv, StartInv, Idle, JobsInv,
                    NoOrphanJob, MapHoldsRunningJobs, Current

LEMMA TakeDoneLives ==
  ASSUME TypeInv, LifeInv, TakeDone
  PROVE  LifeInv'
<1> DEFINE j == Head(doneQ)
<1>1. /\ j \in Requests /\ report[j] = "sent" /\ loop = "select"
      /\ \A i \in DOMAIN doneQ' : report[doneQ'[i]] = "sent"
      /\ UNCHANGED <<toRecover, client, cancelled, life, stopped, report,
                     writer, writeQ, store>>
  BY DEF TakeDone, LifeInv, JobsInv, TypeInv, TypeOK, processVars, jobVars,
         storeVars
<1>2. life[j] \in {"live", "exited"}
  BY <1>1 DEF LifeInv, JobsInv
<1>3. CASE Current(j)
  <2>1. /\ jobs' = [jobs EXCEPT ![KeyOf[j]] = NoJob]
        /\ loop' = "enqueuing" /\ target' = j
        /\ pending' \in {[key |-> KeyOf[j], job |-> NoJob, notify |-> FALSE], NoJob}
    BY <1>3 DEF TakeDone, WithoutFinished, AwaitEnqueue
  <2>2. Outstanding' \subseteq Outstanding \cup ({pending'} \ {NoJob})
    BY <1>1, OutstandingAdded
  <2>3. \A k \in Keys : jobs'[k] = IF k = KeyOf[j] THEN NoJob ELSE jobs[k]
    BY <2>1 DEF TypeInv, TypeOK
  <2>4. \A s \in Requests : jobs'[KeyOf[s]] = s <=> jobs[KeyOf[s]] = s /\ s # j
    BY <1>1, <1>3, <2>3, KeyAssumption, NoJobIsNoRequest DEF Current
  <2>5. toRecover = {}
    BY <1>1 DEF TypeInv
  <2>6. KeysInv' /\ FreshInv'
    BY <1>1, <2>1, <2>2, <2>3, NoJobIsNoRequest DEF LifeInv, KeysInv, FreshInv
  <2>7. StartInv'
    BY <1>1, <2>1, <2>5 DEF StartInv, Idle
  <2>8. JobsInv'
    BY <1>1, <1>2, <2>1, <2>4 DEF LifeInv, JobsInv, Current
  <2>9. NoOrphanJob'
    BY <1>1, <2>1, <2>4 DEF LifeInv, NoOrphanJob, Current
  <2>10. MapHoldsRunningJobs'
    BY <1>1, <2>3 DEF LifeInv, MapHoldsRunningJobs
  <2> QED
    BY <2>6, <2>7, <2>8, <2>9, <2>10 DEF LifeInv
<1>4. CASE ~Current(j)
  <2>1. UNCHANGED <<jobs, loop, pending, target>>
    BY <1>4 DEF TakeDone
  <2>2. Outstanding' = Outstanding
    BY <1>1, <2>1 DEF Outstanding
  <2> QED
    BY <1>1, <2>1, <2>2 DEF LifeInv, KeysInv, FreshInv, StartInv, Idle,
                            JobsInv, NoOrphanJob, MapHoldsRunningJobs, Current
<1> QED
  BY <1>3, <1>4

LEMMA TakeRestartedLives ==
  ASSUME TypeInv, LifeInv, TakeRestarted
  PROVE  LifeInv'
<1> DEFINE j == Head(restartedQ)
<1>1. /\ j \in Requests /\ loop = "select"
      /\ UNCHANGED <<jobs, toRecover, client, cancelled, life, stopped, report,
                     doneQ, writer, writeQ, store>>
  BY DEF TakeRestarted, TypeInv, TypeOK, processVars, jobVars, storeVars
<1>2. CASE Current(j) /\ HasStore
  <2>1. /\ loop' = "enqueuing" /\ target' = NoJob
        /\ pending' \in {[key |-> KeyOf[j], job |-> j, notify |-> FALSE], NoJob}
    BY <1>2 DEF TakeRestarted, AwaitEnqueue
  <2>2. Outstanding' \subseteq Outstanding \cup ({pending'} \ {NoJob})
    BY <1>1, OutstandingAdded
  <2>3. life[j] # "none"
    BY <1>1, <1>2 DEF LifeInv, JobsInv
  <2>4. \A s \in Requests : life[s] # "created"
    BY <1>1 DEF LifeInv, JobsInv
  <2>5. KeysInv' /\ FreshInv'
    BY <1>1, <2>1, <2>2, <2>3 DEF LifeInv, KeysInv, FreshInv
  <2> QED
    BY <1>1, <2>1, <2>4, <2>5
       DEF LifeInv, StartInv, Idle, JobsInv, NoOrphanJob, MapHoldsRunningJobs,
           Current
<1>3. CASE ~(Current(j) /\ HasStore)
  <2>1. UNCHANGED <<loop, pending, target>>
    BY <1>3 DEF TakeRestarted
  <2> QED
    BY <1>1, <2>1, AsideLives
<1> QED
  BY <1>2, <1>3

LEMMA FinishEnqueueLives ==
  ASSUME TypeInv, LifeInv, FinishEnqueue
  PROVE  LifeInv'
<1>1. /\ loop = "enqueuing" /\ loop' = "select" /\ target' = NoJob
      /\ UNCHANGED <<jobs, toRecover, cancelled, report, doneQ, store>>
  BY DEF FinishEnqueue, processVars, channelVars
<1>2. Outstanding' \subseteq Outstanding
  BY OutstandingKept
<1>3. toRecover = {}
  BY <1>1 DEF TypeInv
<1>4. \A s \in Requests : client'[s] \in {"idle", "sending", "queued"} =>
            client[s] \in {"idle", "sending", "queued"}
  BY DEF FinishEnqueue, TypeInv, TypeOK
<1>5. CASE target # NoJob /\ life[target] = "created"
  <2>1. /\ life' = [life EXCEPT ![target] = "live"] /\ stopped' = stopped
        /\ target \in Requests
    BY <1>5 DEF FinishEnqueue, TypeInv, TypeOK
  <2>2. \A s \in Requests : life'[s] = IF s = target THEN "live" ELSE life[s]
    BY <2>1 DEF TypeInv, TypeOK
  <2>3. Current(target) /\ \A s \in Requests : life[s] = "created" => s = target
    BY <1>5, <2>1 DEF LifeInv, JobsInv
  <2> QED
    BY <1>1, <1>2, <1>3, <1>4, <1>5, <2>1, <2>2, <2>3, NoJobIsNoRequest
       DEF LifeInv, KeysInv, FreshInv, StartInv, Idle, JobsInv, NoOrphanJob,
           MapHoldsRunningJobs, Current, TypeInv, TypeOK
<1>6. CASE target # NoJob /\ life[target] # "created"
  <2>1. /\ life' = life /\ stopped' = stopped \cup {target}
        /\ target \in Requests
    BY <1>6 DEF FinishEnqueue, Stopping, TypeInv, TypeOK
  <2>2. ~Current(target) /\ life[target] # "none"
    BY <1>1, <1>6, <2>1 DEF LifeInv, JobsInv
  <2>3. \A s \in Requests : life[s] # "created"
    BY <1>6 DEF LifeInv, JobsInv
  <2>4. KeysInv' /\ FreshInv' /\ StartInv' /\ JobsInv' /\ NoOrphanJob'
    BY <1>1, <1>2, <1>3, <1>4, <2>1, <2>2, <2>3, NoJobIsNoRequest
       DEF LifeInv, KeysInv, FreshInv, StartInv, Idle, JobsInv, NoOrphanJob,
           Current
  <2>5. MapHoldsRunningJobs'
    BY <1>1, <2>1, <2>2 DEF LifeInv, KeysInv, MapHoldsRunningJobs, Current
  <2> QED
    BY <2>4, <2>5 DEF LifeInv
<1>7. CASE target = NoJob
  <2>1. life' = life /\ stopped' = stopped
    BY <1>7 DEF FinishEnqueue
  <2>2. \A s \in Requests : life[s] # "created"
    BY <1>7, NoJobIsNoRequest DEF LifeInv, JobsInv
  <2> QED
    BY <1>1, <1>2, <1>3, <1>4, <1>7, <2>1, <2>2, NoJobIsNoRequest
       DEF LifeInv, KeysInv, FreshInv, StartInv, Idle, JobsInv, NoOrphanJob,
           MapHoldsRunningJobs, Current
<1> QED
  BY <1>5, <1>6, <1>7

LEMMA ShutdownLives ==
  ASSUME TypeInv, LifeInv, Shutdown
  PROVE  LifeInv'
<1>1. UNCHANGED <<jobs, pending, target, toRecover, life, report, store, writer,
                  writeQ>>
  BY DEF Shutdown, Cancel, BeginShutdown, JoinJobs, JoinTimesOut, LeaveJoining,
         FinishShutdown, loopVars, jobVars, storeVars
<1>2. Outstanding' = Outstanding
  BY <1>1 DEF Outstanding
<1>3. CASE Cancel
  BY <1>1, <1>2, <1>3
     DEF Cancel, LifeInv, KeysInv, FreshInv, StartInv, Idle, JobsInv,
         NoOrphanJob, MapHoldsRunningJobs, Current, loopVars, channelVars
<1>4. CASE BeginShutdown
  <2>1. /\ loop = "select" /\ loop' = "joining" /\ cancelled /\ cancelled' /\ client' = client
        /\ stopped' = stopped \cup {r \in Requests : Current(r)}
        /\ doneQ' = <<>> /\ toRecover = {}
    BY <1>4 DEF BeginShutdown, processVars, TypeInv
  <2> QED
    BY <1>1, <1>2, <2>1
       DEF LifeInv, KeysInv, FreshInv, StartInv, Idle, JobsInv, NoOrphanJob,
           MapHoldsRunningJobs, Current
<1>5. CASE JoinJobs \/ JoinTimesOut \/ FinishShutdown
  <2>1. /\ loop \in {"joining", "flushing"} /\ loop' \in {"flushing", "done"}
        /\ UNCHANGED <<stopped, cancelled, doneQ>>
        /\ \A r \in Requests : client'[r] \in {"idle", "sending", "queued"} =>
                client[r] \in {"idle", "sending", "queued"}
    BY <1>5 DEF JoinJobs, JoinTimesOut, LeaveJoining, FinishShutdown,
                DropRequests, jobVars, channelVars, processVars
  <2> QED
    BY <1>1, <1>2, <2>1
       DEF LifeInv, KeysInv, FreshInv, StartInv, Idle, JobsInv, NoOrphanJob,
           MapHoldsRunningJobs, Current
<1> QED
  BY <1>3, <1>4, <1>5 DEF Shutdown

LEMMA WriterLives ==
  ASSUME TypeInv, LifeInv, Writer
  PROVE  LifeInv'
<1>1. UNCHANGED <<jobs, loop, pending, target, toRecover, life, stopped, report,
                  doneQ, cancelled>>
  BY DEF Writer, WriterTakes, WriterCompletes, WriterUnchanged, loopVars,
         processVars, jobVars, channelVars
<1>2. Outstanding' \subseteq Outstanding
  BY OutstandingKept DEF Writer
<1>3. \A s \in Requests : client'[s] \in {"idle", "sending", "queued"} =>
            client[s] \in {"idle", "sending", "queued"}
  BY DEF Writer, WriterTakes, WriterCompletes, TypeInv, TypeOK
<1>4. toRecover # {} => store' = store
  BY DEF Writer, WriterTakes, WriterCompletes, TypeInv, Idle
<1>5. \A k \in Keys : \/ store'[k] = store[k]
                      \/ store'[k] = NoJob
                      \/ \E op \in Outstanding : k = op.key /\ store'[k] = op.job
  <2>1. CASE WriterTakes
    BY <2>1 DEF WriterTakes
  <2>2. CASE WriterCompletes
    <3>1. writer \in Outstanding
      BY <2>2 DEF WriterCompletes, Outstanding
    <3> QED
      BY <2>2, <3>1 DEF WriterCompletes, save_job, delete_job, TypeInv, TypeOK
  <2> QED
    BY <2>1, <2>2 DEF Writer
<1>6. KeysInv' /\ FreshInv'
  BY <1>1, <1>2, <1>3, <1>5, NoJobIsNoRequest DEF LifeInv, KeysInv, FreshInv
<1>7. StartInv'
  BY <1>1, <1>4 DEF LifeInv, StartInv, Idle, Current
<1> QED
  BY <1>1, <1>6, <1>7
     DEF LifeInv, JobsInv, NoOrphanJob, MapHoldsRunningJobs, Current

LEMMA ProcessEndLives ==
  ASSUME TypeInv, LifeInv, ProcessEnds
  PROVE  LifeInv'
<1>1. /\ loop' = "down" /\ store' = store /\ toRecover' = {}
      /\ jobs' = [k \in Keys |-> NoJob]
      /\ life' = [r \in Requests |-> "none"] /\ stopped' = {}
      /\ report' = [r \in Requests |-> "no"] /\ doneQ' = <<>>
  BY DEF ProcessEnds
<1>2. Outstanding' = {}
  BY DEF ProcessEnds, Outstanding
<1>3. \A s \in Requests : client'[s] \in {"idle", "sending", "queued"} =>
            client[s] \in {"idle", "sending", "queued"}
  BY DEF ProcessEnds, TypeInv, TypeOK
<1> QED
  BY <1>1, <1>2, <1>3, NoJobIsNoRequest, KeyAssumption
     DEF LifeInv, KeysInv, FreshInv, StartInv, Idle, JobsInv, NoOrphanJob,
         MapHoldsRunningJobs, Current

LEMMA InitLives == Init => LifeInv
<1> SUFFICES ASSUME Init PROVE LifeInv
  OBVIOUS
<1>1. Outstanding = {}
  BY DEF Init, Outstanding
<1> QED
  BY <1>1, NoJobIsNoRequest, KeyAssumption
     DEF Init, LifeInv, KeysInv, FreshInv, StartInv, Idle, JobsInv,
         NoOrphanJob, MapHoldsRunningJobs, Current

LEMMA StepLives ==
  ASSUME TypeInv, LifeInv, [Next]_vars
  PROVE  LifeInv'
<1>1. CASE UNCHANGED vars
  BY <1>1, AsideLives DEF vars, loopVars, processVars, jobVars, channelVars,
                          storeVars
<1>2. CASE Select
  BY <1>2, AddJobLives, ClientLives, RoutingLives, TakeDoneLives,
     TakeRestartedLives, FinishEnqueueLives DEF Select
<1>3. ASSUME NEW r \in Requests, Client(r) \/ Job(r) PROVE LifeInv'
  BY <1>3, ClientLives, JobLives
<1> QED
  BY <1>1, <1>2, <1>3, RecoveryLives, ShutdownLives, WriterLives,
     ProcessEndLives DEF Next, Terminated

\* The loop accepts every request once, files everything under its key, and
\* knows of every job that runs: the invariant from which the next theorems
\* follow.
THEOREM LifeInvariant == Spec => []LifeInv
<1>1. TypeInv /\ LifeInv /\ [Next]_vars => LifeInv'
  BY StepLives
<1> QED
  BY InitLives, TypeCorrect, <1>1, PTL DEF Spec

\* A replaced or finished job never runs on behind the handler's back.
THEOREM NobodyOrphaned == Spec => []NoOrphanJob
<1>1. LifeInv => NoOrphanJob
  BY DEF LifeInv
<1> QED
  BY LifeInvariant, <1>1, PTL

\* The map of a handler that is not shutting down holds running jobs only, each
\* under its own key.
THEOREM MapIsAlive == Spec => []MapHoldsRunningJobs
<1>1. LifeInv => MapHoldsRunningJobs
  BY DEF LifeInv
<1> QED
  BY LifeInvariant, <1>1, PTL

\* A job leaves the map of a running process only by its own terminal signal or
\* for a newer job of its key: the late signal of a replaced job never removes
\* its replacement.
THEOREM RemovalIsReported == Spec => OnlyDoneRemoves
<1> DEFINE A == \A k \in Keys :
                    jobs[k] # NoJob /\ jobs'[k] = NoJob /\ loop' # "down" =>
                        report[jobs[k]] = "sent"
<1>1. TypeInv /\ LifeInv /\ [Next]_vars => A
  <2> SUFFICES ASSUME TypeInv, LifeInv, [Next]_vars, NEW k \in Keys,
                      jobs[k] # NoJob, jobs'[k] = NoJob, loop' # "down"
               PROVE  report[jobs[k]] = "sent"
    OBVIOUS
  <2>1. CASE TakeDone
    <3>1. Head(doneQ) \in Requests /\ report[Head(doneQ)] = "sent"
      BY <2>1 DEF TakeDone, LifeInv, JobsInv, TypeInv, TypeOK
    <3>2. jobs[k] = Head(doneQ)
      BY <2>1, <3>1 DEF TakeDone, Current, WithoutFinished, TypeInv, TypeOK
    <3> QED
      BY <3>1, <3>2
  <2>2. ASSUME NEW l \in Keys, RecoverJob(l) PROVE FALSE
    BY <2>2 DEF RecoverJob, TypeInv, TypeOK
  <2>3. ASSUME NEW r \in Requests, AddJob(r) PROVE FALSE
    BY <2>3, NoJobIsNoRequest, KeyAssumption DEF AddJob, TypeInv, TypeOK
  <2>4. CASE ProcessEnds
    BY <2>4 DEF ProcessEnds
  <2>5. CASE UNCHANGED jobs
    BY <2>5
  <2> QED
    BY <2>1, <2>2, <2>3, <2>4, <2>5
       DEF Next, vars, loopVars, Recovery, Start, DropExpiredJob,
           FinishRecovery, Select, RejectJob, RouteEvent, FinishRouting,
           TakeRestarted, FinishEnqueue, Shutdown, Cancel, BeginShutdown,
           JoinJobs, JoinTimesOut, LeaveJoining, FinishShutdown, Client,
           ClientCalls, ClientSends, ClientSeesShutdown, Reply,
           ClientUnchanged, Job, JobReads, JobEnds, SendDone, DropDone,
           JobRestarts, SendRestarted, DropRestarted, JobExits, JobUnchanged,
           Writer, WriterTakes, WriterCompletes, WriterUnchanged, Terminated
<1>2. TypeInv /\ LifeInv /\ [Next]_vars => [A]_vars
  BY <1>1
<1> QED
  BY TypeCorrect, LifeInvariant, <1>2, PTL DEF Spec, OnlyDoneRemoves

-----------------------------------------------------------------------------
(* The store. *)

Working == HasStore /\ ~StoreFails

LastOp == Len(writeQ) + 2

\* Where the operations are.
Shape ==
    /\ Len(writeQ) \in Nat
    /\ DOMAIN Operations = 1 .. LastOp
    /\ Operations[1] = writer
    /\ \A i \in 1 .. Len(writeQ) : Operations[i + 1] = writeQ[i]
    /\ Operations[LastOp] = pending
    /\ \A i \in DOMAIN Operations :
            Operations[i] # NoJob =>
                Operations[i] \in StoreOp /\ Operations[i] \in Outstanding

LEMMA OperationsShape == TypeInv => Shape
<1> SUFFICES ASSUME TypeInv PROVE Shape
  OBVIOUS
<1>1. /\ writeQ \in Seq(StoreOp) /\ writer \in StoreOp \cup {NoJob}
      /\ pending \in StoreOp \cup {NoJob}
  BY DEF TypeInv, TypeOK
<1>2. writeQ \in Seq(StoreOp \cup {NoJob})
  BY <1>1
<1>3. /\ <<writer>> \in Seq(StoreOp \cup {NoJob}) /\ Len(<<writer>>) = 1
      /\ <<pending>> \in Seq(StoreOp \cup {NoJob}) /\ Len(<<pending>>) = 1
  BY <1>1
<1> DEFINE front == <<writer>> \o writeQ
<1>4. /\ front \in Seq(StoreOp \cup {NoJob}) /\ Len(front) = Len(writeQ) + 1
      /\ front[1] = writer
      /\ \A i \in 1 .. Len(writeQ) : front[i + 1] = writeQ[i]
  BY <1>2, <1>3
<1>5. /\ Len(writeQ) \in Nat
      /\ Operations \in Seq(StoreOp \cup {NoJob}) /\ Len(Operations) = LastOp
      /\ \A i \in 1 .. Len(writeQ) + 1 : Operations[i] = front[i]
      /\ Operations[LastOp] = pending
  BY <1>1, <1>3, <1>4 DEF Operations, LastOp
<1>6. ASSUME NEW i \in 1 .. LastOp, Operations[i] # NoJob
      PROVE  Operations[i] \in StoreOp /\ Operations[i] \in Outstanding
  <2>1. i = 1 \/ i = LastOp \/ (i - 1 \in 1 .. Len(writeQ) /\ (i - 1) + 1 = i)
    BY <1>5, <1>6 DEF LastOp
  <2>2. \/ Operations[i] \in {writer, pending}
        \/ \E l \in DOMAIN writeQ : Operations[i] = writeQ[l]
    BY <2>1, <1>1, <1>4, <1>5 DEF LastOp
  <2> QED
    BY <1>1, <1>6, <2>2 DEF Outstanding
<1> HIDE DEF front
<1>7. Operations[1] = writer
  <2>1. 1 \in 1 .. Len(writeQ) + 1
    BY <1>5
  <2> QED
    BY <1>4, <1>5, <2>1
<1>8. ASSUME NEW i \in 1 .. Len(writeQ) PROVE Operations[i + 1] = writeQ[i]
  <2>1. i + 1 \in 1 .. Len(writeQ) + 1
    BY <1>5
  <2>2. Operations[i + 1] = front[i + 1]
    BY <1>5, <2>1
  <2> QED
    BY <1>4, <2>2
<1>9. DOMAIN Operations = 1 .. LastOp
  BY <1>5 DEF LastOp
<1> QED
  BY <1>5, <1>6, <1>7, <1>8, <1>9 DEF Shape

LEMMA NextShape == TypeInv' => Shape'
BY OperationsShape, PTL

\* What a key has outstanding is an operation on it.
LEMMA OperationTyped ==
  ASSUME TypeInv, NEW k \in Keys, NEW i \in OperationsOn(k)
  PROVE  /\ i \in Nat /\ 1 <= i /\ i <= LastOp
         /\ Operations[i] \in StoreOp /\ Operations[i] \in Outstanding
         /\ Operations[i].key = k
         /\ Operations[i].job \in Requests \cup {NoJob}
BY OperationsShape DEF Shape, OperationsOn, LastOp, StoreOp

\* Awaiting the enqueuing of an operation adds it behind the others.
LEMMA AwaitAppends ==
  ASSUME TypeInv, TypeInv', UNCHANGED <<writer, writeQ>>, pending = NoJob,
         NEW op \in StoreOp, pending' = op, NEW k \in Keys
  PROVE  /\ OperationsOn(k)' =
                OperationsOn(k) \cup (IF k = op.key THEN {LastOp} ELSE {})
         /\ \A i \in OperationsOn(k) : i < LastOp /\ Operations'[i] = Operations[i]
         /\ Operations'[LastOp] = op
<1>0. Shape /\ Shape'
  BY OperationsShape, NextShape
<1>1. LastOp' = LastOp /\ Len(writeQ)' = Len(writeQ)
  BY DEF LastOp
<1>2. /\ Operations[LastOp] = NoJob /\ Operations'[LastOp] = op
      /\ LastOp \in DOMAIN Operations /\ op # NoJob
  BY <1>1, <1>0, NoOpAssumption DEF Shape, LastOp
<1>3. ASSUME NEW i \in DOMAIN Operations, i # LastOp
      PROVE  Operations'[i] = Operations[i] /\ i < LastOp
  <2>1. i = 1 \/ (i - 1 \in 1 .. Len(writeQ) /\ (i - 1) + 1 = i)
    BY <1>3, <1>0 DEF Shape, LastOp
  <2>2. Operations'[1] = Operations[1]
    BY <1>0 DEF Shape
  <2>3. ASSUME NEW l \in 1 .. Len(writeQ)
        PROVE  Operations'[l + 1] = Operations[l + 1]
    BY <1>0 DEF Shape
  <2> QED
    BY <1>3, <2>1, <2>2, <2>3, <1>0 DEF Shape, LastOp
<1>4. DOMAIN Operations' = DOMAIN Operations
  BY <1>1, <1>0 DEF Shape
<1>5. \A i : i \in OperationsOn(k)' <=>
                i \in OperationsOn(k) \/ (i = LastOp /\ k = op.key)
  BY <1>2, <1>3, <1>4 DEF OperationsOn
<1>6. \A i \in OperationsOn(k) : i < LastOp /\ Operations'[i] = Operations[i]
  BY <1>2, <1>3 DEF OperationsOn
<1> QED
  BY <1>2, <1>5, <1>6

\* Enqueuing it leaves it where it is.
LEMMA EnqueueKeeps ==
  ASSUME TypeInv, TypeInv', FinishEnqueue, NEW k \in Keys
  PROVE  /\ OperationsOn(k)' = OperationsOn(k)
         /\ \A i \in OperationsOn(k) : Operations'[i] = Operations[i]
<1>0. Shape /\ Shape'
  BY OperationsShape, NextShape
<1>1. writeQ \in Seq(StoreOp) /\ writer' = writer /\ pending' = NoJob
  BY DEF FinishEnqueue, TypeInv, TypeOK
<1>2. CASE pending = NoJob
  <2>1. Operations' = Operations
    BY <1>1, <1>2 DEF FinishEnqueue, Operations
  <2> QED
    BY <2>1 DEF OperationsOn
<1>3. CASE pending # NoJob
  <2>1. pending \in StoreOp /\ writeQ' = Append(writeQ, pending)
    BY <1>3 DEF FinishEnqueue, TypeInv, TypeOK
  <2>2. /\ Len(writeQ') = Len(writeQ) + 1
        /\ \A i \in 1 .. Len(writeQ) : writeQ'[i] = writeQ[i]
        /\ writeQ'[Len(writeQ) + 1] = pending
    BY <1>1, <2>1
  <2>3. Len(writeQ) \in Nat
    BY <1>1
  <2>4. DOMAIN Operations' = DOMAIN Operations \cup {LastOp + 1}
    BY <2>2, <2>3, <1>0 DEF Shape, LastOp
  <2>5. ASSUME NEW i \in DOMAIN Operations
        PROVE  Operations'[i] = Operations[i]
    <3>1. i = 1 \/ i = LastOp \/ (i - 1 \in 1 .. Len(writeQ) /\ (i - 1) + 1 = i)
      BY <2>3, <1>0 DEF Shape, LastOp
    <3>2. Operations'[1] = Operations[1]
      BY <1>1, <1>0 DEF Shape
    <3>3. Operations'[LastOp] = Operations[LastOp]
      <4>1. /\ Len(writeQ) + 1 \in 1 .. Len(writeQ')
            /\ (Len(writeQ) + 1) + 1 = LastOp
        BY <2>2, <2>3 DEF LastOp
      <4>2. Operations'[(Len(writeQ) + 1) + 1] = writeQ'[Len(writeQ) + 1]
        BY <4>1, <1>0 DEF Shape
      <4> QED
        BY <2>2, <4>1, <4>2, <1>0 DEF Shape
    <3>4. ASSUME NEW l \in 1 .. Len(writeQ)
          PROVE  Operations'[l + 1] = Operations[l + 1]
      BY <2>2, <2>3, <1>0 DEF Shape
    <3> QED
      BY <3>1, <3>2, <3>3, <3>4
  <2>6. Operations'[LastOp + 1] = NoJob
    BY <1>1, <2>2, <2>3, <1>0 DEF Shape, LastOp
  <2>7. \A i : i \in OperationsOn(k)' <=> i \in OperationsOn(k)
    BY <2>4, <2>5, <2>6 DEF OperationsOn
  <2>8. \A i \in OperationsOn(k) : Operations'[i] = Operations[i]
    BY <2>5 DEF OperationsOn
  <2> QED
    BY <2>7, <2>8
<1> QED
  BY <1>2, <1>3

\* The writer takes the first, and all move up.
LEMMA TakeShifts ==
  ASSUME TypeInv, TypeInv', WriterTakes, NEW k \in Keys
  PROVE  /\ \A i \in OperationsOn(k) :
                i - 1 \in OperationsOn(k)' /\ Operations'[i - 1] = Operations[i]
         /\ \A i \in OperationsOn(k)' :
                i + 1 \in OperationsOn(k) /\ Operations'[i] = Operations[i + 1]
<1>0. Shape /\ Shape'
  BY OperationsShape, NextShape
<1>1. /\ writeQ \in Seq(StoreOp) /\ writer = NoJob /\ writeQ # <<>>
      /\ writer' = writeQ[1] /\ writeQ' = Tail(writeQ) /\ pending' = pending
  BY DEF WriterTakes, WriterUnchanged, loopVars, TypeInv, TypeOK
<1>2. /\ Len(writeQ) \in Nat \ {0} /\ Len(writeQ') = Len(writeQ) - 1
      /\ \A i \in 1 .. Len(writeQ) - 1 : writeQ'[i] = writeQ[i + 1]
  BY <1>1
<1>3. /\ DOMAIN Operations = 1 .. LastOp /\ DOMAIN Operations' = 1 .. LastOp - 1
      /\ LastOp \in Nat /\ LastOp >= 3
  BY <1>2, <1>0 DEF Shape, LastOp
<1>4. Operations[1] = NoJob
  BY <1>1, <1>0 DEF Shape
<1>5. ASSUME NEW i \in 1 .. LastOp - 1
      PROVE  Operations'[i] = Operations[i + 1]
  <2>1. CASE i = 1
    <3>1. 1 \in 1 .. Len(writeQ)
      BY <1>2
    <3>2. Operations'[1] = writer' /\ Operations[1 + 1] = writeQ[1]
      BY <3>1, <1>0 DEF Shape
    <3> QED
      BY <1>1, <2>1, <3>2
  <2>2. CASE i = LastOp - 1
    <3>1. LastOp' = LastOp - 1 /\ i + 1 = LastOp
      BY <1>2, <2>2 DEF LastOp
    <3> QED
      BY <1>1, <2>2, <3>1, <1>0 DEF Shape
  <2>3. CASE i # 1 /\ i # LastOp - 1
    <3>1. /\ i - 1 \in 1 .. Len(writeQ) - 1 /\ (i - 1) + 1 = i
          /\ i \in 1 .. Len(writeQ) /\ i - 1 \in 1 .. Len(writeQ')
      BY <1>2, <1>3, <2>3 DEF LastOp
    <3>2. Operations'[(i - 1) + 1] = writeQ'[i - 1]
      BY <3>1, <1>0 DEF Shape
    <3>3. Operations[i + 1] = writeQ[i]
      BY <3>1, <1>0 DEF Shape
    <3> QED
      BY <1>2, <3>1, <3>2, <3>3
  <2> QED
    BY <2>1, <2>2, <2>3
<1>6. ASSUME NEW i \in OperationsOn(k)
      PROVE  i - 1 \in OperationsOn(k)' /\ Operations'[i - 1] = Operations[i]
  <2>1. i \in 1 .. LastOp /\ Operations[i] # NoJob /\ Operations[i].key = k
    BY <1>3 DEF OperationsOn
  <2>2. i - 1 \in 1 .. LastOp - 1 /\ (i - 1) + 1 = i
    BY <1>3, <1>4, <2>1
  <2>3. Operations'[i - 1] = Operations[i]
    BY <1>5, <2>2
  <2> QED
    BY <1>3, <2>1, <2>2, <2>3 DEF OperationsOn
<1>7. ASSUME NEW i \in OperationsOn(k)'
      PROVE  i + 1 \in OperationsOn(k) /\ Operations'[i] = Operations[i + 1]
  <2>1. i \in 1 .. LastOp - 1 /\ Operations'[i] # NoJob /\ Operations'[i].key = k
    BY <1>3 DEF OperationsOn
  <2>2. i + 1 \in DOMAIN Operations
    BY <1>3, <2>1
  <2> QED
    BY <1>5, <2>1, <2>2 DEF OperationsOn
<1> QED
  BY <1>6, <1>7

\* Completing it removes it.
LEMMA CompleteRemoves ==
  ASSUME TypeInv, TypeInv', WriterCompletes, NEW k \in Keys
  PROVE  /\ OperationsOn(k)' = OperationsOn(k) \ {1}
         /\ \A i \in OperationsOn(k)' : Operations'[i] = Operations[i]
         /\ 1 \in OperationsOn(k) <=> k = writer.key
         /\ Operations[1] = writer
<1>0. Shape /\ Shape'
  BY OperationsShape, NextShape
<1>1. /\ writer # NoJob /\ writer' = NoJob /\ writeQ' = writeQ
      /\ pending' = pending /\ LastOp' = LastOp
  BY DEF WriterCompletes, WriterUnchanged, loopVars, LastOp
<1>2. /\ DOMAIN Operations' = DOMAIN Operations /\ 1 \in DOMAIN Operations
      /\ Operations[1] = writer /\ Operations'[1] = NoJob
  BY <1>1, <1>0 DEF Shape, LastOp
<1>3. ASSUME NEW i \in DOMAIN Operations, i # 1
      PROVE  Operations'[i] = Operations[i]
  <2>1. i = LastOp \/ (i - 1 \in 1 .. Len(writeQ) /\ (i - 1) + 1 = i)
    BY <1>3, <1>0 DEF Shape, LastOp
  <2>2. Operations'[LastOp] = Operations[LastOp]
    BY <1>1, <1>0 DEF Shape
  <2>3. ASSUME NEW l \in 1 .. Len(writeQ)
        PROVE  Operations'[l + 1] = Operations[l + 1]
    BY <1>1, <1>0 DEF Shape
  <2> QED
    BY <2>1, <2>2, <2>3
<1>4. \A i : i \in OperationsOn(k)' <=> i \in OperationsOn(k) /\ i # 1
  BY <1>2, <1>3 DEF OperationsOn
<1>5. \A i \in OperationsOn(k)' : Operations'[i] = Operations[i]
  BY <1>2, <1>3, <1>4 DEF OperationsOn
<1> QED
  BY <1>1, <1>2, <1>4, <1>5 DEF OperationsOn

\* What a recovering process has not looked at yet is all that its map lacks.
RecoveryInv ==
    Working /\ loop = "recovering" =>
        \A k \in Keys : k \in toRecover \/ jobs[k] = store[k]

\* A job whose caller waits for a write is current unless it has gone for good,
\* and no later write of its key undoes it.
AwaitedInv ==
    Working =>
        \A k \in Keys : \A i \in OperationsOn(k) :
            Operations[i].notify =>
                LET r == Operations[i].job
                IN  /\ r \in Requests
                    /\ r \notin retired =>
                            /\ jobs[k] = r
                            /\ \A later \in OperationsOn(k) :
                                    later > i => Operations[later].job = r

\* The same of a job that was written, which is in the store, too.
AckedInv ==
    Working =>
        \A r \in Requests :
            client[r] \in {"durable", "ok"} /\ r \notin retired =>
                /\ store[KeyOf[r]] = r
                /\ ~Idle => Current(r)
                /\ \A i \in OperationsOn(KeyOf[r]) : Operations[i].job = r

StoreInv == RecoveryInv /\ StoreFollowsMap /\ AwaitedInv /\ AckedInv

\* A step that leaves the map, the store and the operations alone.
LEMMA AsideStores ==
  ASSUME StoreInv,
         UNCHANGED <<jobs, store, writer, writeQ, pending, toRecover, storeKind,
                     retired>>,
         loop' = loop \/ (~Idle /\ ~Idle'),
         \A r \in Requests : client'[r] \in {"durable", "ok"} =>
                client[r] \in {"durable", "ok"}
  PROVE  StoreInv'
<1>1. Operations' = Operations
  BY DEF Operations
<1>2. \A k : OperationsOn(k)' = OperationsOn(k)
  BY <1>1 DEF OperationsOn
<1> QED
  BY <1>1, <1>2
     DEF StoreInv, RecoveryInv, StoreFollowsMap, AwaitedInv, AckedInv, Working,
         HasStore, StoreFails, Idle, Current

LEMMA ClientStores ==
  ASSUME TypeInv, StoreInv, NEW r \in Requests, Client(r) \/ RejectJob(r)
  PROVE  StoreInv'
<1>1. UNCHANGED <<jobs, store, writer, writeQ, pending, toRecover, storeKind,
                  retired, loop>>
  BY DEF Client, ClientCalls, ClientSends, ClientSeesShutdown, Reply,
         ClientUnchanged, RejectJob, loopVars, processVars, jobVars,
         channelVars, storeVars
<1>2. \A s \in Requests : client'[s] \in {"durable", "ok"} =>
                client[s] \in {"durable", "ok"}
  BY DEF TypeInv, TypeOK, Client, ClientCalls, ClientSends,
         ClientSeesShutdown, Reply, RejectJob
<1> QED
  BY <1>1, <1>2, AsideStores

LEMMA JobStores ==
  ASSUME TypeInv, StoreInv, NEW r \in Requests, Job(r)
  PROVE  StoreInv'
<1>1. UNCHANGED <<jobs, store, writer, writeQ, pending, toRecover, storeKind,
                  retired, loop, client>>
  BY DEF Job, JobReads, JobEnds, SendDone, DropDone, JobRestarts,
         SendRestarted, DropRestarted, JobExits, JobUnchanged, loopVars,
         processVars, storeVars
<1> QED
  BY <1>1, AsideStores

LEMMA RoutingStores ==
  ASSUME TypeInv, StoreInv, FinishRouting \/ \E k \in Keys : RouteEvent(k)
  PROVE  StoreInv'
<1>1. /\ UNCHANGED <<jobs, store, writer, writeQ, pending, toRecover, storeKind,
                     retired, client>>
      /\ loop \in {"select", "routing"} /\ loop' \in {"select", "routing"}
  BY DEF RouteEvent, FinishRouting, processVars, jobVars, channelVars, storeVars
<1> QED
  BY <1>1, AsideStores DEF Idle

LEMMA ShutdownStores ==
  ASSUME TypeInv, StoreInv, Shutdown
  PROVE  StoreInv'
<1>1. UNCHANGED <<jobs, store, writer, writeQ, pending, toRecover, storeKind,
                  retired>>
  BY DEF Shutdown, Cancel, BeginShutdown, JoinJobs, JoinTimesOut, LeaveJoining,
         FinishShutdown, loopVars, jobVars, storeVars, processVars
<1>2. loop' = loop \/ (~Idle /\ ~Idle')
  BY DEF Shutdown, Cancel, BeginShutdown, JoinJobs, JoinTimesOut, LeaveJoining,
         FinishShutdown, loopVars, Idle
<1>3. \A r \in Requests : client'[r] \in {"durable", "ok"} =>
                client[r] \in {"durable", "ok"}
  BY DEF Shutdown, Cancel, BeginShutdown, JoinJobs, JoinTimesOut, LeaveJoining,
         FinishShutdown, DropRequests, TypeInv, TypeOK
<1> QED
  BY <1>1, <1>2, <1>3, AsideStores

\* Nothing is outstanding before the select!.
LEMMA IdleHasNoOperations ==
  ASSUME TypeInv, Idle, NEW k \in Keys
  PROVE  OperationsOn(k) = {}
<1> SUFFICES ASSUME NEW i \in OperationsOn(k) PROVE FALSE
  OBVIOUS
<1>1. Operations[i] \in Outstanding
  BY OperationTyped
<1>2. Outstanding = {}
  BY DEF Outstanding, TypeInv, Idle
<1> QED
  BY <1>1, <1>2

LEMMA RecoveryStores ==
  ASSUME TypeInv, LifeInv, StoreInv, Recovery
  PROVE  StoreInv'
<1>1. /\ Idle
      /\ UNCHANGED <<writer, writeQ, pending, storeKind, client>>
  BY DEF Idle, Recovery, Start, RecoverJob, DropExpiredJob, FinishRecovery,
         loopVars, processVars, jobVars, channelVars, storeVars
<1>2. Operations' = Operations
  BY <1>1 DEF Operations
<1>3. \A k \in Keys : OperationsOn(k) = {} /\ OperationsOn(k)' = {}
  BY <1>1, <1>2, IdleHasNoOperations DEF OperationsOn
<1>4. AwaitedInv'
  BY <1>3 DEF AwaitedInv
<1>5. ASSUME Working PROVE RecoveryInv' /\ StoreFollowsMap' /\ AckedInv'
  <2>1. CASE Start
    <3>1. /\ loop = "down" /\ loop' = "recovering" /\ jobs' = jobs
          /\ store' = store /\ retired' = retired
          /\ toRecover' = {k \in Keys : store[k] # NoJob}
      BY <1>5, <2>1 DEF Start, all_jobs, Working, storeVars
    <3>2. \A k \in Keys : jobs[k] = NoJob
      BY <3>1 DEF LifeInv, StartInv
    <3> QED
      BY <1>1, <1>3, <3>1, <3>2, KeyAssumption
         DEF StoreInv, RecoveryInv, StoreFollowsMap, AckedInv, Idle, Working,
             HasStore, StoreFails
  <2>2. ASSUME NEW k \in Keys, RecoverJob(k)
        PROVE  RecoveryInv' /\ StoreFollowsMap' /\ AckedInv'
    <3>1. /\ loop = "recovering" /\ loop' = "recovering"
          /\ jobs' = [jobs EXCEPT ![k] = store[k]]
          /\ store' = store /\ retired' = retired
          /\ toRecover' = toRecover \ {k}
      BY <2>2 DEF RecoverJob, storeVars
    <3> QED
      BY <1>1, <1>3, <3>1, KeyAssumption
         DEF StoreInv, RecoveryInv, StoreFollowsMap, AckedInv, Idle, Working,
             HasStore, StoreFails, TypeInv, TypeOK
  <2>3. ASSUME NEW k \in Keys, DropExpiredJob(k)
        PROVE  RecoveryInv' /\ StoreFollowsMap' /\ AckedInv'
    <3>1. /\ loop = "recovering" /\ loop' = "recovering" /\ jobs' = jobs
          /\ store' = [store EXCEPT ![k] = NoJob]
          /\ retired' = retired \cup {store[k]}
          /\ toRecover' = toRecover \ {k} /\ k \in toRecover
      BY <1>5, <2>3 DEF DropExpiredJob, delete_job, Working
    <3>2. jobs[k] = NoJob
      BY <3>1 DEF LifeInv, StartInv
    <3> QED
      BY <1>1, <1>3, <3>1, <3>2, KeyAssumption
         DEF StoreInv, RecoveryInv, StoreFollowsMap, AckedInv, Idle, Working,
             HasStore, StoreFails, TypeInv, TypeOK
  <2>4. CASE FinishRecovery
    <3>1. /\ loop = "recovering" /\ loop' = "select" /\ jobs' = jobs
          /\ store' = store /\ retired' = retired /\ toRecover = {}
      BY <2>4 DEF FinishRecovery, storeVars
    <3>2. \A k \in Keys : jobs[k] = store[k]
      BY <1>5, <3>1 DEF StoreInv, RecoveryInv
    <3> QED
      BY <1>1, <1>3, <3>1, <3>2, KeyAssumption
         DEF StoreInv, RecoveryInv, StoreFollowsMap, AckedInv, Idle, Current,
             Working, HasStore, StoreFails
  <2> QED
    BY <2>1, <2>2, <2>3, <2>4 DEF Recovery
<1>6. Working' <=> Working
  BY <1>1 DEF Working, HasStore, StoreFails
<1> QED
  BY <1>4, <1>5, <1>6
     DEF StoreInv, RecoveryInv, StoreFollowsMap, AckedInv, Working

\* The loop awaits the write of what it has just put in the map.
LEMMA AwaitStores ==
  ASSUME TypeInv, TypeInv', LifeInv, StoreInv, Working,
         NEW op \in StoreOp, NEW j \in Requests \cup {NoJob},
         loop = "select", AwaitEnqueue(op, j),
         UNCHANGED <<writer, writeQ, store, storeKind>>,
         jobs' = [jobs EXCEPT ![op.key] = op.job],
         op.notify => op.job \in Requests,
         retired \subseteq retired',
         \A r \in Requests : Current(r) /\ r \notin retired' =>
                KeyOf[r] # op.key \/ r = op.job,
         \A r \in Requests : client'[r] \in {"durable", "ok"} =>
                client[r] \in {"durable", "ok"}
  PROVE  StoreInv'
<1>1. /\ pending = NoJob /\ pending' = op /\ loop' = "enqueuing"
      /\ op.key \in Keys /\ op.job \in Requests \cup {NoJob}
  BY DEF TypeInv, AwaitEnqueue, Working, StoreOp
<1>2. ASSUME NEW k \in Keys
      PROVE  /\ OperationsOn(k)' =
                    OperationsOn(k) \cup (IF k = op.key THEN {LastOp} ELSE {})
             /\ \A i \in OperationsOn(k) :
                    i < LastOp /\ i \in Nat /\ Operations'[i] = Operations[i]
             /\ Operations'[LastOp] = op
  BY <1>1, AwaitAppends, OperationTyped
<1>3. \A k \in Keys : jobs'[k] = IF k = op.key THEN op.job ELSE jobs[k]
  BY <1>1 DEF TypeInv, TypeOK
<1>4. LastOp \in Nat
  BY OperationsShape DEF Shape, LastOp
<1>5. StoreFollowsMap'
  <2> SUFFICES ASSUME NEW k \in Keys
               PROVE  /\ OperationsOn(k)' # {} \/ store'[k] = jobs'[k]
                      /\ \A i \in OperationsOn(k)' :
                            \/ Operations'[i].job = jobs'[k]
                            \/ \E later \in OperationsOn(k)' : later > i
    BY DEF StoreFollowsMap
  <2>1. CASE k = op.key
    <3>1. LastOp \in OperationsOn(k)'
      BY <1>2, <2>1
    <3>2. ASSUME NEW i \in OperationsOn(k)'
          PROVE  i = LastOp \/ LastOp > i
      BY <1>2, <1>4
    <3> QED
      BY <1>2, <1>3, <2>1, <3>1, <3>2
  <2>2. CASE k # op.key
    BY <1>2, <1>3, <2>2 DEF StoreInv, StoreFollowsMap, Working
  <2> QED
    BY <2>1, <2>2
<1>6. ASSUME NEW k \in Keys, NEW i \in OperationsOn(k),
             Operations[i].job \in Requests
      PROVE  KeyOf[Operations[i].job] = k
  BY <1>6, OperationTyped, NoJobIsNoRequest DEF LifeInv, KeysInv
<1>7. AwaitedInv'
  <2> SUFFICES ASSUME NEW k \in Keys, NEW i \in OperationsOn(k)',
                      Operations'[i].notify
               PROVE  /\ Operations'[i].job \in Requests
                      /\ Operations'[i].job \notin retired' =>
                            /\ jobs'[k] = Operations'[i].job
                            /\ \A later \in OperationsOn(k)' : later > i =>
                                    Operations'[later].job = Operations'[i].job
    BY DEF AwaitedInv
  <2>1. CASE i = LastOp /\ k = op.key
    <3>1. \A later \in OperationsOn(k)' : ~(later > LastOp)
      BY <1>2, <1>4
    <3> QED
      BY <1>2, <1>3, <2>1, <3>1
  <2>2. CASE i \in OperationsOn(k)
    <3> DEFINE r == Operations[i].job
    <3>1. Operations'[i] = Operations[i]
      BY <1>2, <2>2
    <3>2. /\ r \in Requests
          /\ r \notin retired =>
                /\ jobs[k] = r
                /\ \A later \in OperationsOn(k) :
                        later > i => Operations[later].job = r
      BY <2>2, <3>1 DEF StoreInv, AwaitedInv
    <3>3. r \notin retired' => Current(r) /\ (k = op.key => r = op.job)
      BY <1>6, <2>2, <3>2 DEF Current
    <3>4. r \notin retired' => jobs'[k] = r
      BY <1>3, <3>2, <3>3
    <3>5. ASSUME r \notin retired', NEW later \in OperationsOn(k)', later > i
          PROVE  Operations'[later].job = r
      <4>1. CASE later = LastOp /\ k = op.key
        BY <1>2, <3>3, <3>5, <4>1
      <4>2. CASE later \in OperationsOn(k)
        BY <1>2, <3>2, <3>5, <4>2
      <4> QED
        BY <1>2, <4>1, <4>2
    <3> HIDE DEF r
    <3> QED
      BY <3>1, <3>2, <3>4, <3>5 DEF r
  <2> QED
    BY <1>2, <2>1, <2>2
<1>8. AckedInv'
  <2> SUFFICES ASSUME NEW r \in Requests, client'[r] \in {"durable", "ok"},
                      r \notin retired'
               PROVE  /\ store'[KeyOf[r]] = r
                      /\ jobs'[KeyOf[r]] = r
                      /\ \A i \in OperationsOn(KeyOf[r])' : Operations'[i].job = r
    BY DEF AckedInv, Current
  <2>1. /\ store[KeyOf[r]] = r /\ Current(r)
        /\ \A i \in OperationsOn(KeyOf[r]) : Operations[i].job = r
    BY DEF StoreInv, AckedInv, Idle
  <2>2. KeyOf[r] \in Keys
    BY KeyAssumption
  <2> QED
    BY <1>2, <1>3, <2>1, <2>2 DEF Current
<1>9. RecoveryInv'
  BY <1>1 DEF RecoveryInv
<1> QED
  BY <1>5, <1>7, <1>8, <1>9 DEF StoreInv

LEMMA ArmStores ==
  ASSUME TypeInv, TypeInv', LifeInv, StoreInv, Working,
         TakeDone \/ TakeRestarted \/ \E r \in Requests : AddJob(r)
  PROVE  StoreInv'
<1>1. ASSUME NEW r \in Requests, AddJob(r) PROVE StoreInv'
  <2> DEFINE op == [key |-> KeyOf[r], job |-> r, notify |-> TRUE]
  <2>1. /\ op \in StoreOp /\ op.key = KeyOf[r] /\ op.job = r /\ op.notify
        /\ KeyOf[r] \in Keys
    BY KeyAssumption, OperationsTyped
  <2>2. /\ loop = "select" /\ AwaitEnqueue(op, r)
        /\ UNCHANGED <<writer, writeQ, store, storeKind>>
        /\ jobs' = [jobs EXCEPT ![KeyOf[r]] = r]
        /\ client' = [client EXCEPT ![r] = "accepted"]
        /\ retired' = retired \cup ReplacedBy(r)
    BY <1>1 DEF AddJob, storeVars, processVars
  <2>3. \A s \in Requests : Current(s) /\ s \notin retired' =>
                KeyOf[s] # KeyOf[r] \/ s = r
    BY <2>2 DEF ReplacedBy, Current
  <2>4. \A s \in Requests : client'[s] \in {"durable", "ok"} =>
                client[s] \in {"durable", "ok"}
    BY <2>2 DEF TypeInv, TypeOK
  <2> HIDE DEF op
  <2> QED
    BY <2>1, <2>2, <2>3, <2>4, AwaitStores
<1>2. CASE TakeDone
  <2> DEFINE j == Head(doneQ)
             op == [key |-> KeyOf[j], job |-> NoJob, notify |-> FALSE]
  <2>1. /\ j \in Requests /\ loop = "select" /\ KeyOf[j] \in Keys
        /\ UNCHANGED <<writer, writeQ, store, storeKind, toRecover, client>>
    BY <1>2, KeyAssumption DEF TakeDone, TypeInv, TypeOK, storeVars, processVars
  <2>2. op \in StoreOp /\ op.key = KeyOf[j] /\ op.job = NoJob /\ ~op.notify
    BY <2>1, OperationsTyped
  <2>3. CASE Current(j)
    <3>1. /\ AwaitEnqueue(op, j) /\ retired' = retired \cup {j}
          /\ jobs' = [jobs EXCEPT ![KeyOf[j]] = NoJob]
      BY <1>2, <2>3 DEF TakeDone, WithoutFinished
    <3>2. \A s \in Requests : Current(s) /\ s \notin retired' =>
                KeyOf[s] # KeyOf[j]
      BY <2>3, <3>1 DEF Current
    <3> HIDE DEF op, j
    <3> QED
      BY <2>1, <2>2, <3>1, <3>2, AwaitStores
  <2>4. CASE ~Current(j)
    <3>1. UNCHANGED <<jobs, loop, pending, retired>>
      BY <1>2, <2>4 DEF TakeDone
    <3> QED
      BY <2>1, <3>1, AsideStores
  <2> QED
    BY <2>3, <2>4
<1>3. CASE TakeRestarted
  <2> DEFINE j == Head(restartedQ)
             op == [key |-> KeyOf[j], job |-> j, notify |-> FALSE]
  <2>1. /\ j \in Requests /\ loop = "select" /\ KeyOf[j] \in Keys
        /\ UNCHANGED <<jobs, writer, writeQ, store, storeKind, toRecover, client,
                       retired>>
    BY <1>3, KeyAssumption
       DEF TakeRestarted, TypeInv, TypeOK, storeVars, processVars
  <2>2. op \in StoreOp /\ op.key = KeyOf[j] /\ op.job = j /\ ~op.notify
    BY <2>1, OperationsTyped
  <2>3. CASE Current(j)
    <3>1. AwaitEnqueue(op, NoJob)
      BY <1>3, <2>3 DEF TakeRestarted, Working
    <3>2. \A s \in Requests : Current(s) => KeyOf[s] # KeyOf[j] \/ s = j
      BY <2>3 DEF Current
    <3>3. jobs' = [jobs EXCEPT ![KeyOf[j]] = j]
      BY <2>1, <2>3 DEF Current, TypeInv, TypeOK
    <3> HIDE DEF op, j
    <3> QED
      BY <2>1, <2>2, <3>1, <3>2, <3>3, AwaitStores
  <2>4. CASE ~Current(j)
    <3>1. UNCHANGED <<loop, pending>>
      BY <1>3, <2>4 DEF TakeRestarted
    <3> QED
      BY <2>1, <3>1, AsideStores
  <2> QED
    BY <2>3, <2>4
<1> QED
  BY <1>1, <1>2, <1>3

LEMMA FinishEnqueueStores ==
  ASSUME TypeInv, TypeInv', StoreInv, Working, FinishEnqueue
  PROVE  StoreInv'
<1>1. /\ UNCHANGED <<jobs, store, retired, client, storeKind>>
      /\ loop = "enqueuing" /\ loop' = "select"
  BY DEF FinishEnqueue, AnswersAtOnce, Working, processVars
<1>2. \A k \in Keys :
        /\ OperationsOn(k)' = OperationsOn(k)
        /\ \A i \in OperationsOn(k) : Operations'[i] = Operations[i]
  BY EnqueueKeeps
<1> QED
  BY <1>1, <1>2, KeyAssumption
     DEF StoreInv, RecoveryInv, StoreFollowsMap, AwaitedInv, AckedInv, Working,
         HasStore, StoreFails, Idle, Current

LEMMA TakeStores ==
  ASSUME TypeInv, TypeInv', StoreInv, Working, WriterTakes
  PROVE  StoreInv'
<1>1. UNCHANGED <<jobs, store, retired, client, storeKind, loop, toRecover>>
  BY DEF WriterTakes, WriterUnchanged, loopVars, processVars
<1>2. \A k \in Keys :
        /\ \A i \in OperationsOn(k) :
                i - 1 \in OperationsOn(k)' /\ Operations'[i - 1] = Operations[i]
        /\ \A i \in OperationsOn(k)' :
                i + 1 \in OperationsOn(k) /\ Operations'[i] = Operations[i + 1]
  BY TakeShifts
<1>3. \A k \in Keys :
        /\ \A i \in OperationsOn(k) : i \in Nat
        /\ \A i \in OperationsOn(k)' : i \in Nat
  <2>1. Shape /\ Shape'
    BY OperationsShape, NextShape
  <2> QED
    BY <2>1 DEF Shape, LastOp, OperationsOn
<1>4. StoreFollowsMap'
  <2> SUFFICES ASSUME NEW k \in Keys, loop \notin {"down", "recovering"}
               PROVE  /\ OperationsOn(k)' # {} \/ store[k] = jobs[k]
                      /\ \A i \in OperationsOn(k)' :
                            \/ Operations'[i].job = jobs[k]
                            \/ \E later \in OperationsOn(k)' : later > i
    BY <1>1 DEF StoreFollowsMap
  <2>1. OperationsOn(k)' # {} \/ OperationsOn(k) = {}
    BY <1>2
  <2>2. ASSUME NEW i \in OperationsOn(k)', Operations'[i].job # jobs[k]
        PROVE  \E later \in OperationsOn(k)' : later > i
    <3>1. i + 1 \in OperationsOn(k) /\ Operations[i + 1].job # jobs[k]
      BY <1>2, <2>2
    <3>2. PICK later \in OperationsOn(k) : later > i + 1
      BY <3>1 DEF StoreInv, StoreFollowsMap, Working
    <3>3. later - 1 \in OperationsOn(k)' /\ later - 1 > i
      BY <1>2, <1>3, <3>2
    <3> QED
      BY <3>3
  <2> QED
    BY <2>1, <2>2 DEF StoreInv, StoreFollowsMap, Working
<1>5. AwaitedInv'
  <2> SUFFICES ASSUME NEW k \in Keys, NEW i \in OperationsOn(k)',
                      Operations'[i].notify
               PROVE  /\ Operations'[i].job \in Requests
                      /\ Operations'[i].job \notin retired =>
                            /\ jobs[k] = Operations'[i].job
                            /\ \A later \in OperationsOn(k)' : later > i =>
                                    Operations'[later].job = Operations'[i].job
    BY <1>1 DEF AwaitedInv
  <2>1. i + 1 \in OperationsOn(k) /\ Operations'[i] = Operations[i + 1]
    BY <1>2
  <2>2. ASSUME NEW later \in OperationsOn(k)', later > i
        PROVE  /\ later + 1 \in OperationsOn(k) /\ later + 1 > i + 1
               /\ Operations'[later] = Operations[later + 1]
    BY <1>2, <1>3, <2>2
  <2> QED
    BY <2>1, <2>2 DEF StoreInv, AwaitedInv
<1>6. AckedInv'
  BY <1>1, <1>2, KeyAssumption
     DEF StoreInv, AckedInv, Idle, Current, Working, HasStore, StoreFails
<1>7. RecoveryInv'
  BY <1>1 DEF StoreInv, RecoveryInv, Working, HasStore, StoreFails
<1> QED
  BY <1>4, <1>5, <1>6, <1>7 DEF StoreInv

LEMMA CompleteStores ==
  ASSUME TypeInv, TypeInv', LifeInv, StoreInv, Working, WriterCompletes
  PROVE  StoreInv'
<1>1. /\ UNCHANGED <<jobs, retired, storeKind, loop, toRecover>>
      /\ ~Idle /\ writer \in StoreOp
      /\ client' = IF writer.notify
                   THEN [client EXCEPT ![writer.job] = "durable"] ELSE client
  BY DEF WriterCompletes, WriterUnchanged, loopVars, processVars, TypeInv,
         TypeOK
<1>2. /\ writer.key \in Keys /\ writer.job \in Requests \cup {NoJob}
      /\ store' = [store EXCEPT ![writer.key] = writer.job]
  BY <1>1 DEF WriterCompletes, save_job, delete_job, StoreOp, Working
<1>3. \A k \in Keys : store'[k] = IF k = writer.key THEN writer.job ELSE store[k]
  BY <1>2 DEF TypeInv, TypeOK
<1>4. ASSUME NEW k \in Keys
      PROVE  /\ OperationsOn(k)' = OperationsOn(k) \ {1}
             /\ \A i \in OperationsOn(k)' : Operations'[i] = Operations[i]
             /\ 1 \in OperationsOn(k) <=> k = writer.key
             /\ Operations[1] = writer
             /\ \A i \in OperationsOn(k) : i \in Nat /\ 1 <= i
  BY CompleteRemoves, OperationTyped
<1>5. StoreFollowsMap'
  <2> SUFFICES ASSUME NEW k \in Keys
               PROVE  /\ OperationsOn(k)' # {} \/ store'[k] = jobs[k]
                      /\ \A i \in OperationsOn(k)' :
                            \/ Operations'[i].job = jobs[k]
                            \/ \E later \in OperationsOn(k)' : later > i
    BY <1>1 DEF StoreFollowsMap
  <2>1. /\ OperationsOn(k) = {} => store[k] = jobs[k]
        /\ \A i \in OperationsOn(k) :
                \/ Operations[i].job = jobs[k]
                \/ \E later \in OperationsOn(k) : later > i
    BY <1>1 DEF StoreInv, StoreFollowsMap, Working, Idle
  <2>2. OperationsOn(k)' # {} \/ store'[k] = jobs[k]
    <3>1. CASE k = writer.key
      <4>1. 1 \in OperationsOn(k)
        BY <1>4, <3>1
      <4>2. CASE writer.job = jobs[k]
        BY <1>3, <3>1, <4>2
      <4>3. CASE \E later \in OperationsOn(k) : later > 1
        BY <1>4, <4>3
      <4> QED
        BY <1>4, <2>1, <4>1, <4>2, <4>3
    <3>2. CASE k # writer.key
      BY <1>3, <1>4, <2>1, <3>2
    <3> QED
      BY <3>1, <3>2
  <2>3. ASSUME NEW i \in OperationsOn(k)', Operations'[i].job # jobs[k]
        PROVE  \E later \in OperationsOn(k)' : later > i
    <3>1. i \in OperationsOn(k) /\ Operations[i].job # jobs[k]
      BY <1>4, <2>3
    <3>2. PICK later \in OperationsOn(k) : later > i
      BY <2>1, <3>1
    <3>3. later # 1
      BY <1>4, <3>1, <3>2
    <3> QED
      BY <1>4, <3>2, <3>3
  <2> QED
    BY <2>2, <2>3
<1>6. AwaitedInv'
  BY <1>1, <1>4
     DEF StoreInv, AwaitedInv, Working, HasStore, StoreFails
<1>7. AckedInv'
  <2> SUFFICES ASSUME NEW r \in Requests, client'[r] \in {"durable", "ok"},
                      r \notin retired
               PROVE  /\ store'[KeyOf[r]] = r
                      /\ jobs[KeyOf[r]] = r
                      /\ \A i \in OperationsOn(KeyOf[r])' : Operations'[i].job = r
    BY <1>1 DEF AckedInv, Current
  <2> DEFINE k == KeyOf[r]
  <2>1. k \in Keys
    BY KeyAssumption
  <2>2. CASE client[r] \in {"durable", "ok"}
    <3>1. /\ store[k] = r /\ jobs[k] = r
          /\ \A i \in OperationsOn(k) : Operations[i].job = r
      BY <1>1, <2>2 DEF StoreInv, AckedInv, Current
    <3> HIDE DEF k
    <3> QED
      BY <1>3, <1>4, <2>1, <3>1 DEF k
  <2>3. CASE client[r] \notin {"durable", "ok"}
    <3>1. writer.notify /\ writer.job = r
      BY <1>1, <1>2, <2>3 DEF TypeInv, TypeOK
    <3>2. 1 \in OperationsOn(writer.key) /\ Operations[1] = writer
      BY <1>2, <1>4
    <3>3. /\ jobs[writer.key] = r
          /\ \A later \in OperationsOn(writer.key) : later > 1 =>
                    Operations[later].job = r
      BY <1>2, <3>1, <3>2 DEF StoreInv, AwaitedInv
    <3>4. writer.key = k
      BY <1>2, <3>1, <3>3, NoJobIsNoRequest DEF LifeInv, KeysInv
    <3>5. \A i \in OperationsOn(k)' : i > 1 /\ i \in OperationsOn(k)
      BY <1>4, <2>1
    <3> HIDE DEF k
    <3> QED
      BY <1>3, <1>4, <2>1, <3>1, <3>3, <3>4, <3>5 DEF k
  <2> QED
    BY <2>2, <2>3
<1>8. RecoveryInv'
  BY <1>1 DEF RecoveryInv, Idle
<1> QED
  BY <1>5, <1>6, <1>7, <1>8 DEF StoreInv

LEMMA ProcessEndStores ==
  ASSUME TypeInv, TypeInv', LifeInv, StoreInv, Working, ProcessEnds
  PROVE  StoreInv'
<1>1. /\ loop' = "down" /\ store' = store /\ retired' = retired
      /\ storeKind' = storeKind /\ writer' = NoJob /\ writeQ' = <<>> /\ pending' = NoJob
  BY DEF ProcessEnds
<1>2. ASSUME NEW k \in Keys PROVE OperationsOn(k)' = {}
  <2> SUFFICES ASSUME NEW i \in OperationsOn(k)' PROVE FALSE
    OBVIOUS
  <2>1. Operations'[i] \in Outstanding'
    BY NextShape DEF Shape, OperationsOn
  <2>2. Outstanding' = {}
    BY <1>1 DEF Outstanding
  <2> QED
    BY <2>1, <2>2
<1>3. \A r \in Requests : client'[r] \in {"durable", "ok"} =>
                client[r] \in {"durable", "ok"}
  BY DEF ProcessEnds, TypeInv, TypeOK
<1> QED
  BY <1>1, <1>2, <1>3, KeyAssumption
     DEF StoreInv, RecoveryInv, StoreFollowsMap, AwaitedInv, AckedInv, Working,
         HasStore, StoreFails, Idle

LEMMA InitStores == Init => StoreInv
<1> SUFFICES ASSUME Init PROVE StoreInv
  OBVIOUS
<1>1. TypeInv /\ Idle
  BY InitTyped DEF Init, Idle
<1>2. \A k \in Keys : OperationsOn(k) = {}
  BY <1>1, IdleHasNoOperations
<1> QED
  BY <1>2 DEF Init, StoreInv, RecoveryInv, StoreFollowsMap, AwaitedInv, AckedInv

LEMMA StepStores ==
  ASSUME TypeInv, TypeInv', LifeInv, StoreInv, [Next]_vars
  PROVE  StoreInv'
<1>1. storeKind' = storeKind
  BY DEF Next, vars, processVars, Recovery, Start, RecoverJob, DropExpiredJob,
         FinishRecovery, Select, AddJob, RejectJob, RouteEvent, FinishRouting,
         TakeDone, TakeRestarted, FinishEnqueue, Shutdown, Cancel,
         BeginShutdown, JoinJobs, JoinTimesOut, LeaveJoining, FinishShutdown,
         Client, ClientCalls, ClientSends, ClientSeesShutdown, Reply,
         ClientUnchanged, Job, JobReads, JobEnds, SendDone, DropDone,
         JobRestarts, SendRestarted, DropRestarted, JobExits, JobUnchanged,
         Writer, WriterTakes, WriterCompletes, WriterUnchanged, ProcessEnds,
         Terminated
<1>2. CASE ~Working
  BY <1>1, <1>2 DEF StoreInv, RecoveryInv, StoreFollowsMap, AwaitedInv,
                    AckedInv, Working, HasStore, StoreFails
<1>3. CASE Working
  <2>1. CASE UNCHANGED vars
    BY <2>1, AsideStores
       DEF vars, loopVars, processVars, storeVars
  <2>2. CASE Select
    BY <1>3, <2>2, ArmStores, ClientStores, RoutingStores, FinishEnqueueStores
       DEF Select
  <2>3. ASSUME NEW r \in Requests, Client(r) \/ Job(r) PROVE StoreInv'
    BY <2>3, ClientStores, JobStores
  <2> QED
    BY <1>3, <2>1, <2>2, <2>3, RecoveryStores, ShutdownStores, TakeStores,
       CompleteStores, ProcessEndStores DEF Next, Writer, Terminated
<1> QED
  BY <1>2, <1>3

\* The store, the map and the operations between them agree, in any process.
THEOREM StoreInvariant == Spec => []StoreInv
<1>1. TypeInv /\ TypeInv' /\ LifeInv /\ StoreInv /\ [Next]_vars => StoreInv'
  BY StepStores
<1> QED
  BY InitStores, TypeCorrect, LifeInvariant, <1>1, PTL DEF Spec

\* While the store works, what the handler has written or is about to write of a
\* key ends with what its map holds, whatever the size of the writer's queue.
THEOREM StoreAgrees == Spec => []StoreFollowsMap
<1>1. StoreInv => StoreFollowsMap
  BY DEF StoreInv
<1> QED
  BY StoreInvariant, <1>1, PTL

\* A caller who was told of success finds its job in the store until it is done,
\* replaced or expired, however often the process crashes.
THEOREM Durable == Spec => []AcknowledgedIsDurable
<1>1. StoreInv => AcknowledgedIsDurable
  BY DEF StoreInv, AckedInv, AcknowledgedIsDurable, Working
<1> QED
  BY StoreInvariant, <1>1, PTL

=============================================================================
