---------------------------- MODULE RecoveryProofs ----------------------------
(***************************************************************************)
(* Theorems about Recovery, for any number of crashes, stops and restarts. *)
(*                                                                         *)
(* SchedInv of SchedulerProofs holds while the daemon is up and not while  *)
(* it stops: a scheduler task that was cancelled has no job any more, and  *)
(* what it was doing is still in the table and in _current_job_id.         *)
(* DaemonInv says what is left of it in each phase, and StrayInv to whom   *)
(* the processes without a runner belong.                                  *)
(***************************************************************************)
EXTENDS Recovery, SchedulerProofs

DaemonInv ==
  /\ phase = "up" => SchedInv
  /\ phase = "stopping" =>
       /\ downs < MaxDowns
       /\ sched \in {"wait", "drain"}
       /\ sched = "wait" => job = None /\ child = "none"
       /\ sched = "drain" => job \in Job /\ jobs[job].state = "running" /\ child = "nonzero"
  /\ phase = "down" => sched = "loop" /\ job = None /\ cur = None /\ child = "none"

StrayInv ==
  \A j \in strays :
    \/ jobs[j].state = "failed"
    \/ phase = "up" /\ j = job /\ sched = "drain" /\ child = "nonzero"
    \/ phase # "up" /\ jobs[j].state = "running"

-----------------------------------------------------------------------------
(* The steps that Recovery takes over from Scheduler.                      *)

(* Handlers of requests change nothing that the scheduler task owns.       *)
LEMMA ServingFrame ==
  ASSUME TypeOK, Serving
  PROVE  TypeOK' /\ UNCHANGED <<schedVars, daemonVars>> /\ WritesWaitingRows
<1>1. UNCHANGED daemonVars
  BY DEF Serving
<1>2. CASE QueueRequest
  BY <1>1, <1>2, TypeQueueRequest, RequestFrame
<1>3. ASSUME NEW c \in Lease, LeaseTask(c) \/ LeaseClient(c)
      PROVE  TypeOK' /\ UNCHANGED schedVars /\ WritesWaitingRows
  BY <1>3, TypeLease, LeaseFrame DEF WritesWaitingRows
<1> QED
  BY <1>1, <1>2, <1>3 DEF Serving, LeaseClient

(* Clients by themselves and stray processes change even less.             *)
LEMMA AloneFrame ==
  ASSUME TypeOK, Alone
  PROVE  /\ TypeOK'
         /\ UNCHANGED <<jobs, sched, job, cur, child, daemonVars>>
         /\ strays' \subseteq strays
<1>1. UNCHANGED daemonVars
  BY DEF Alone
<1>2. ASSUME NEW c \in Lease, LeaseTask(c) \/ LeaseClient(c)
      PROVE  TypeOK' /\ UNCHANGED <<jobs, schedVars>>
  BY <1>2, TypeLease, LeaseFrame
<1>3. ASSUME NEW j \in Job, StrayExits(j)
      PROVE  /\ TypeOK'
             /\ UNCHANGED <<jobs, sched, job, cur, child>>
             /\ strays' \subseteq strays
  BY <1>3 DEF StrayExits, TypeOK, queueVars, leaseVars
<1> QED
  BY <1>1, <1>2, <1>3 DEF Alone, LeaseClient, schedVars

(* The daemon at work is the daemon of Scheduler.                          *)
LEMMA WorkingFrame ==
  ASSUME TypeOK, DaemonInv, Working
  PROVE  /\ phase = "up" /\ SchedInv /\ UNCHANGED daemonVars
         /\ SchedulerTask \/ RunnerTask \/ ChildExits
         /\ TypeOK' /\ SchedInv'
<1>1. phase = "up" /\ SchedInv /\ UNCHANGED daemonVars
  BY DEF Working, DaemonInv
<1>2. (SchedulerTask \/ RunnerTask \/ ChildExits) /\ Next
  BY DEF Working, Next
<1> QED
  BY <1>1, <1>2, TypeNext, SchedInvStep

-----------------------------------------------------------------------------
(* Type correctness and the rows.                                          *)

LEMMA ReconcileType ==
  ASSUME NEW t \in Table
  PROVE  /\ Reconcile(t) \in Table
         /\ Active(Reconcile(t)) = {}
         /\ \A j \in Job : IF t[j].state \in Running
                           THEN Reconcile(t)[j].state = "failed"
                           ELSE Reconcile(t)[j] = t[j]
<1>1. ASSUME NEW j \in Job, t[j].state \in Running
      PROVE  Reconcile(t)[j] \in Row /\ Reconcile(t)[j].state = "failed"
  BY <1>1 DEF Reconcile, Active, Table, Row, State, Terminal
<1>2. ASSUME NEW j \in Job, t[j].state \notin Running
      PROVE  Reconcile(t)[j] \in Row /\ Reconcile(t)[j] = t[j]
  BY <1>2 DEF Reconcile, Active, Table
<1>3. Reconcile(t) \in Table
  BY <1>1, <1>2 DEF Reconcile, Table
<1>4. Active(Reconcile(t)) = {}
  BY <1>1, <1>2 DEF Active, Running
<1> QED
  BY <1>1, <1>2, <1>3, <1>4

LEMMA GoDownType == TypeOK /\ GoDown => TypeOK'
<1> SUFFICES ASSUME TypeOK, GoDown
             PROVE  TypeOK'
  OBVIOUS
<1>1. handler' \in [Lease -> HandlerPoint] /\ client' \in [Lease -> ClientPoint]
  BY DEF GoDown, TypeOK, HandlerPoint, ClientPoint
<1>2. strays' \subseteq Job
  BY DEF GoDown, TypeOK, Processes
<1> QED
  BY <1>1, <1>2 DEF GoDown, TypeOK, SchedPoint, ChildState

LEMMA RecoveryTypeStep ==
  RecoveryTypeOK /\ DaemonInv /\ [RecoveryNext]_recoveryVars => RecoveryTypeOK'
<1> SUFFICES ASSUME RecoveryTypeOK, DaemonInv, [RecoveryNext]_recoveryVars
             PROVE  RecoveryTypeOK'
  OBVIOUS
<1>0. TypeOK
  BY DEF RecoveryTypeOK
<1>1. CASE Working
  BY <1>0, <1>1, WorkingFrame DEF RecoveryTypeOK, daemonVars
<1>2. CASE Serving
  BY <1>0, <1>2, ServingFrame DEF RecoveryTypeOK, daemonVars
<1>3. CASE Alone
  BY <1>0, <1>3, AloneFrame DEF RecoveryTypeOK, daemonVars
<1>4. CASE Stop
  <2>1. strays' \subseteq Job
    BY <1>0, <1>4 DEF Stop, TypeOK, Abandoned
  <2> QED
    BY <1>0, <1>4, <2>1 DEF Stop, RecoveryTypeOK, TypeOK, SchedPoint, ChildState, leaseVars
<1>5. CASE StopFinish
  <2>1. jobs' \in Table
    BY <1>0, <1>5, UpdateStateType DEF StopFinish, DaemonInv, TypeOK, State, Terminal
  <2> QED
    BY <1>5, <2>1 DEF StopFinish, RecoveryTypeOK, TypeOK, SchedPoint, ChildState, leaseVars,
                      daemonVars
<1>6. CASE Exit \/ Crash
  <2>1. GoDown /\ downs < MaxDowns
    BY <1>6 DEF Exit, Crash, DaemonInv
  <2> QED
    BY <1>0, <2>1, GoDownType, RecoveryAssumption DEF GoDown, RecoveryTypeOK
<1>7. CASE Start
  <2>1. jobs' \in Table
    BY <1>0, <1>7, ReconcileType DEF Start, TypeOK
  <2> QED
    BY <1>7, <2>1 DEF Start, RecoveryTypeOK, TypeOK, schedVars, leaseVars
<1>8. CASE \E c \in Lease : LeaveUnheard(c)
  BY <1>8 DEF LeaveUnheard, RecoveryTypeOK, TypeOK, ClientPoint, queueVars, schedVars, daemonVars
<1>9. CASE UNCHANGED recoveryVars
  BY <1>9 DEF recoveryVars, vars, daemonVars, RecoveryTypeOK, TypeOK
<1> QED
  BY <1>1, <1>2, <1>3, <1>4, <1>5, <1>6, <1>7, <1>8, <1>9 DEF RecoveryNext

(* Every step moves the rows as RowMoves says: this is where a crash, a    *)
(* stop or a restart could bring a row back to life.                       *)
LEMMA RowMovesStep ==
  RecoveryTypeOK /\ DaemonInv /\ [RecoveryNext]_recoveryVars => RowMoves
<1> SUFFICES ASSUME RecoveryTypeOK, DaemonInv, [RecoveryNext]_recoveryVars
             PROVE  RowMoves
  OBVIOUS
<1>0. TypeOK
  BY DEF RecoveryTypeOK
<1> USE DEF RowMoves
<1>1. CASE Working
  BY <1>0, <1>1, WorkingFrame, RowMovesNext DEF Next
<1>2. CASE Serving
  BY <1>0, <1>2, ServingFrame DEF WritesWaitingRows
<1>3. CASE Alone
  BY <1>0, <1>3, AloneFrame
<1>4. CASE StopFinish
  <2>1. job \in Job /\ jobs[job].state = "running" /\ jobs' = UpdateState(jobs, job, "failed")
    BY <1>4 DEF StopFinish, DaemonInv
  <2>2. jobs'[job].state = "failed" /\ \A k \in Job \ {job} : jobs'[k] = jobs[k]
    BY <1>0, <2>1, WriteState DEF TypeOK, Exists, State, Terminal
  <2> QED
    BY <2>1, <2>2 DEF Running
<1>5. CASE Start
  BY <1>0, <1>5, ReconcileType DEF Start, TypeOK
<1>6. CASE Stop \/ Exit \/ Crash \/ (\E c \in Lease : LeaveUnheard(c)) \/ UNCHANGED recoveryVars
  BY <1>6 DEF Stop, Exit, Crash, GoDown, LeaveUnheard, recoveryVars, vars, queueVars
<1> QED
  BY <1>1, <1>2, <1>3, <1>4, <1>5, <1>6 DEF RecoveryNext
-----------------------------------------------------------------------------
(* The two parts of the inductive invariant.                               *)

LEMMA DaemonInvStep ==
  RecoveryTypeOK /\ DaemonInv /\ [RecoveryNext]_recoveryVars => DaemonInv'
<1> SUFFICES ASSUME RecoveryTypeOK, DaemonInv, [RecoveryNext]_recoveryVars
             PROVE  DaemonInv'
  OBVIOUS
<1>0. TypeOK
  BY DEF RecoveryTypeOK
<1>1. CASE Working
  BY <1>0, <1>1, WorkingFrame DEF DaemonInv, daemonVars
<1>2. CASE Serving
  <2>1. UNCHANGED <<schedVars, daemonVars>> /\ WritesWaitingRows
    BY <1>0, <1>2, ServingFrame
  <2>2. \A j \in Active(jobs') : j \in Active(jobs) /\ jobs'[j] = jobs[j]
    BY <2>1 DEF WritesWaitingRows, Active, Running
  <2>3. \A j \in Job : jobs[j].state \in Running => jobs'[j] = jobs[j]
    BY <2>1 DEF WritesWaitingRows, Running
  <2> QED
    BY <2>1, <2>2, <2>3, JobTableAssumption
       DEF DaemonInv, SchedInv, schedVars, daemonVars, Running, WritesWaitingRows
<1>3. CASE Alone
  BY <1>0, <1>3, AloneFrame DEF DaemonInv, SchedInv, Active, daemonVars
<1>4. CASE Stop
  <2>1. SchedInv
    BY <1>4 DEF Stop, DaemonInv
  <2> QED
    BY <1>4, <2>1 DEF Stop, SchedInv, DaemonInv
<1>5. CASE StopFinish
  BY <1>5 DEF StopFinish, DaemonInv, daemonVars
<1>6. CASE Exit \/ Crash
  BY <1>6 DEF Exit, Crash, GoDown, DaemonInv
<1>7. CASE Start
  <2>1. Active(jobs') = {}
    BY <1>0, <1>7, ReconcileType DEF Start, TypeOK
  <2> QED
    BY <1>7, <2>1 DEF Start, DaemonInv, SchedInv, schedVars
<1>8. CASE (\E c \in Lease : LeaveUnheard(c)) \/ UNCHANGED recoveryVars
  BY <1>8 DEF LeaveUnheard, recoveryVars, vars, queueVars, schedVars, daemonVars, DaemonInv,
              SchedInv, Active
<1> QED
  BY <1>1, <1>2, <1>3, <1>4, <1>5, <1>6, <1>7, <1>8 DEF RecoveryNext

LEMMA StrayInvStep ==
  RecoveryTypeOK /\ DaemonInv /\ StrayInv /\ [RecoveryNext]_recoveryVars => StrayInv'
<1> SUFFICES ASSUME RecoveryTypeOK, DaemonInv, StrayInv, [RecoveryNext]_recoveryVars
             PROVE  StrayInv'
  OBVIOUS
<1>0. TypeOK /\ RowMoves
  BY RowMovesStep DEF RecoveryTypeOK
<1>1. \A j \in Job : jobs[j].state = "failed" => jobs'[j].state = "failed"
  BY <1>0 DEF RowMoves, Running
<1>2. strays \subseteq Job
  BY <1>0 DEF TypeOK
<1>3. CASE Working
  <2>1. phase = "up" /\ phase' = "up" /\ SchedInv
    BY <1>0, <1>3, WorkingFrame DEF daemonVars
  <2>2. CASE sched # "drain" /\ strays' = strays
    BY <1>1, <1>2, <2>1, <2>2 DEF StrayInv
  <2>3. CASE RunLeavesChild
    BY <1>1, <1>2, <2>1, <2>3 DEF RunLeavesChild, StrayInv
  <2>4. CASE Finish
    <3>1. child = "nonzero" => jobs'[job].state = "failed"
      <4>1. job \in Job /\ jobs[job].state = "running"
        BY <2>1, <2>4 DEF Finish, SchedInv
      <4>2. child = "nonzero" => jobs' = UpdateState(jobs, job, "failed")
        BY <2>4 DEF Finish
      <4> QED
        BY <1>0, <4>1, <4>2, WriteState DEF TypeOK, Exists, State, Terminal
    <3>2. strays' = strays
      BY <2>4 DEF Finish
    <3> QED
      BY <1>1, <1>2, <2>1, <3>1, <3>2 DEF StrayInv
  <2>5. RunLeavesChild \/ Finish \/ (sched # "drain" /\ strays' = strays)
    BY <1>3, <2>1
       DEF Working, SchedulerTask, Wake, LeaseWaitOver, LoopIdle, LoopLeased, PopNothing, Pop,
           EvictDone, RunJobCrashes, OpenRun, RunReturns, RunnerTask, Spawn, ChildExits,
           SchedInv, schedVars
  <2> QED
    BY <2>2, <2>3, <2>4, <2>5
<1>4. CASE Serving
  <2>1. UNCHANGED <<schedVars, daemonVars>> /\ WritesWaitingRows
    BY <1>0, <1>4, ServingFrame
  <2>2. \A j \in Job : jobs[j].state \in Running => jobs'[j] = jobs[j]
    BY <2>1 DEF WritesWaitingRows, Running
  <2> QED
    BY <1>1, <1>2, <2>1, <2>2 DEF StrayInv, Running, schedVars, daemonVars
<1>5. CASE Alone
  BY <1>0, <1>5, AloneFrame DEF StrayInv, daemonVars
<1>6. CASE Stop
  <2>1. SchedInv /\ jobs' = jobs /\ phase = "up" /\ phase' = "stopping"
    BY <1>6 DEF Stop, DaemonInv
  <2>2. \A j \in strays' \ strays : jobs[j].state = "running"
    BY <1>6, <2>1 DEF Stop, Abandoned, SchedInv
  <2>3. \A j \in strays : jobs[j].state = "failed" \/ jobs[j].state = "running"
    BY <2>1 DEF StrayInv, SchedInv
  <2> QED
    BY <2>1, <2>2, <2>3 DEF StrayInv
<1>7. CASE StopFinish
  <2>1. /\ jobs'[job].state = "failed" /\ \A k \in Job \ {job} : jobs'[k] = jobs[k]
        /\ strays' = strays /\ phase = "stopping" /\ phase' = "stopping"
    <3>1. job \in Job /\ jobs[job].state = "running"
      BY <1>7 DEF StopFinish, DaemonInv
    <3> QED
      BY <1>0, <1>7, <3>1, WriteState DEF StopFinish, daemonVars, TypeOK, Exists, State, Terminal
  <2> QED
    BY <1>2, <2>1 DEF StrayInv
<1>8. CASE Exit \/ Crash
  <2>1. /\ phase \in {"up", "stopping"} /\ phase' = "down"
        /\ jobs' = jobs /\ strays' = Processes
    BY <1>8 DEF Exit, Crash, GoDown, RecoveryTypeOK
  <2>2. \A j \in strays' \ strays : jobs[j].state = "running"
    BY <1>0, <2>1
       DEF Processes, DaemonInv, SchedInv, TypeOK, SchedPoint
  <2>3. \A j \in strays : jobs[j].state = "failed" \/ jobs[j].state = "running"
    BY <2>1 DEF StrayInv, DaemonInv, SchedInv
  <2> QED
    BY <2>1, <2>2, <2>3 DEF StrayInv
<1>9. CASE Start
  BY <1>0, <1>2, <1>9, ReconcileType DEF Start, StrayInv, Running, TypeOK, schedVars
<1>10. CASE (\E c \in Lease : LeaveUnheard(c)) \/ UNCHANGED recoveryVars
  BY <1>10 DEF LeaveUnheard, recoveryVars, vars, queueVars, schedVars, daemonVars, StrayInv
<1> QED
  BY <1>3, <1>4, <1>5, <1>6, <1>7, <1>8, <1>9, <1>10 DEF RecoveryNext

-----------------------------------------------------------------------------
(* The theorems.                                                           *)

LEMMA RecoveryInvariant == RecoverySpec => [](RecoveryTypeOK /\ DaemonInv)
<1>1. RecoveryInit => RecoveryTypeOK /\ DaemonInv
  BY InitInv, RecoveryAssumption DEF RecoveryInit, RecoveryTypeOK, DaemonInv
<1>2. /\ RecoveryTypeOK /\ DaemonInv /\ [RecoveryNext]_recoveryVars
      => (RecoveryTypeOK /\ DaemonInv)'
  BY RecoveryTypeStep, DaemonInvStep
<1> QED
  BY <1>1, <1>2, PTL DEF RecoverySpec

(* Types are kept through crashes, stops and restarts, and the daemon goes *)
(* down no more often than the bound says (Server.start, Server.stop).     *)
THEOREM RecoveryTypeCorrect == RecoverySpec => []RecoveryTypeOK
BY RecoveryInvariant, PTL

(* Whenever the daemon is up a row that neither the scheduler task nor a   *)
(* process belongs to is not active, whatever earlier lives have left      *)
(* behind (_reconcile_on_startup).                                         *)
THEOREM LostRowsSettle == RecoverySpec => []LostRowsAreSettled
<1>1. DaemonInv => LostRowsAreSettled
  BY DEF DaemonInv, SchedInv, LostRowsAreSettled
<1> QED
  BY <1>1, RecoveryInvariant, PTL

(* The job of a process is running or failed, be the process awaited by a  *)
(* runner, given up by its run or older than the daemon, and at any moment *)
(* of a stop or a restart (_reconcile_on_startup, the finally clause of    *)
(* _run_job).                                                              *)
THEOREM ProcessesAreOfRunningOrFailed == RecoverySpec => []NoProcessIsDone
<1>1. RecoveryInit => StrayInv
  BY DEF RecoveryInit, Init, StrayInv
<1>2. (RecoveryTypeOK /\ DaemonInv) /\ StrayInv /\ [RecoveryNext]_recoveryVars => StrayInv'
  BY StrayInvStep
<1>3. RecoveryTypeOK /\ DaemonInv /\ StrayInv => NoProcessIsDone
  <2> SUFFICES ASSUME RecoveryTypeOK, DaemonInv, StrayInv, NEW j \in Processes
               PROVE  jobs[j].state \in {"running", "failed"}
    BY DEF NoProcessIsDone
  <2>1. CASE j \in strays
    BY <2>1 DEF StrayInv, DaemonInv, SchedInv
  <2>2. CASE j = job /\ child = "alive"
    <3>1. phase = "up"
      BY <2>2 DEF RecoveryTypeOK, DaemonInv
    <3>2. SchedInv /\ sched \in SchedPoint
      BY <3>1 DEF RecoveryTypeOK, TypeOK, DaemonInv
    <3> QED
      BY <2>2, <3>2 DEF SchedInv, SchedPoint
  <2> QED
    BY <2>1, <2>2 DEF Processes
<1> QED
  BY <1>1, <1>2, <1>3, RecoveryInvariant, PTL DEF RecoverySpec

(* No row gets back into the queue, so no job is run twice (Server.start). *)
THEOREM NothingIsRequeued == RecoverySpec => NeverRequeued
<1> DEFINE Kept == \A j \in Job : jobs[j].state \notin {"unused", "queued"} =>
                     jobs'[j].state # "queued"
<1>1. RowMoves => Kept
  BY DEF RowMoves
<1>2. (RecoveryTypeOK /\ DaemonInv) /\ [RecoveryNext]_recoveryVars => [Kept]_recoveryVars
  BY <1>1, RowMovesStep
<1> QED
  BY <1>2, RecoveryInvariant, PTL DEF RecoverySpec, NeverRequeued

(* A settled row outlives the daemon as it is (update_state, _reconcile).  *)
THEOREM SettledRowsOutlive == RecoverySpec => TerminalIsFinalAcrossRestarts
<1> DEFINE Kept == \A j \in Settled(jobs) : jobs'[j] = jobs[j]
<1>1. RowMoves => Kept
  BY DEF RowMoves, Settled, Terminal, Running
<1>2. (RecoveryTypeOK /\ DaemonInv) /\ [RecoveryNext]_recoveryVars => [Kept]_recoveryVars
  BY <1>1, RowMovesStep
<1> QED
  BY <1>2, RecoveryInvariant, PTL DEF RecoverySpec, TerminalIsFinalAcrossRestarts
=============================================================================
