--------------------------- MODULE SchedulerProofs ---------------------------
(***************************************************************************)
(* Theorems about Scheduler, for any set of jobs, priorities and leases,   *)
(* with their proofs.                                                      *)
(*                                                                         *)
(* The inductive invariant has three parts, each of them inductive         *)
(* together with TypeOK: SchedInv ties the scheduler task's control point  *)
(* to its locals, the table and the child; WakeInv says that the event is  *)
(* set whenever a row is queued, asleep or not; LeaseInv, for a daemon     *)
(* whose evict() never suspends and whose runs never leave a child, says   *)
(* where the scheduler task can be while a lease is held, and whose lease  *)
(* it is.                                                                  *)
(***************************************************************************)
EXTENDS Scheduler, TLAPS

SchedInv ==
  /\ \A j \in Active(jobs) : j = job
  /\ sched \in {"loop", "wait", "lease_wait"} =>
       job = None /\ cur = None /\ child = "none"
  /\ sched \in {"evict", "open"} =>
       /\ job \in Job /\ jobs[job].state = "starting"
       /\ cur = None /\ child = "none"
  /\ sched \in {"launch", "drain"} =>
       job \in Job /\ cur = job /\ jobs[job].state = "running"
  /\ sched = "drain" => child \in {"zero", "nonzero"}

WakeInv == Queued(jobs) # {} => notify

NoStrays == strays = {}

LeaseInv ==
  /\ sched # "evict"
  /\ strays = {}
  /\ \A c \in Lease : handler[c] # "evicting"
  /\ leaseHeld => sched \in {"loop", "wait", "lease_wait"}
  /\ leaseHeld <=> leaseId # None
  /\ \A c \in Lease : client[c] \in {"inside", "leaving"} => handler[c] = "granted"
  /\ \A c \in Lease : handler[c] = "granted" /\ client[c] # "gone" => leaseId = c

(* The steps of the processes: the runner's spawn, and exits.              *)
ProcessStep == RunnerTask \/ ChildExits \/ \E j \in Job : StrayExits(j)

-----------------------------------------------------------------------------
(* The table's operators keep it a table (JobRepo.insert, .update_state).  *)
LEMMA InsertType ==
  ASSUME NEW t \in Table, NEW j \in Job, NEW p \in Int, NEW n \in Nat
  PROVE  Insert(t, j, p, n) \in Table
BY DEF Insert, Table, Row, State, Waiting

LEMMA UpdateStateType ==
  ASSUME NEW t \in Table, NEW j \in Job, NEW s \in State
  PROVE  UpdateState(t, j, s) \in Table
<1> DEFINE r == IF Exists(t, j) THEN s ELSE t[j].state
<1>1. r \in State
  BY DEF Table, Row
<1>2. UpdateState(t, j, s) = [t EXCEPT ![j].state = r]
  BY DEF UpdateState
<1> HIDE DEF r
<1> QED
  BY <1>1, <1>2 DEF Table, Row

LEMMA SetPriorityType ==
  ASSUME NEW t \in Table, NEW j \in Job, NEW p \in Int
  PROVE  SetPriority(t, j, p) \in Table
BY DEF SetPriority, Table, Row

(* The priority bump and --next give beats every other queued row's.       *)
LEMMA FrontPriorityBeats ==
  ASSUME NEW t \in Table, NEW X, NEW p \in FrontPriority(t, X)
  PROVE  /\ p \in Int
         /\ \A i \in Queued(t) \ X : t[i].priority < p
<1>1. \A i \in Queued(t) : t[i].priority \in Int
  BY DEF Queued, Table, Row
<1>2. CASE Queued(t) \ X = {}
  BY <1>2 DEF FrontPriority
<1>3. CASE Queued(t) \ X # {}
  <2>1. PICK k \in Queued(t) \ X :
          /\ p = t[k].priority + 1
          /\ \A i \in Queued(t) \ X : t[i].priority <= t[k].priority
    BY <1>3 DEF FrontPriority, MaxQueuedPriority
  <2> QED
    BY <1>1, <2>1
<1> QED
  BY <1>2, <1>3

(* A row whose priority beats every other queued row's is the next one.    *)
LEMMA BeatsMeansNext ==
  ASSUME NEW t \in Table, NEW j \in Queued(t),
         \A i \in Queued(t) \ {j} : t[i].priority < t[j].priority
  PROVE  NextQueued(t) = {j}
<1>1. \A i \in Queued(t) : t[i].priority \in Int
  BY DEF Queued, Table, Row
<1>2. j \in NextQueued(t)
  BY <1>1 DEF NextQueued, Before
<1>3. ASSUME NEW k \in NextQueued(t), k # j
      PROVE  FALSE
  <2>1. k \in Queued(t) /\ j \in Queued(t) \ {k}
    BY <1>3 DEF NextQueued
  <2>2. Before(t, k, j)
    BY <1>3, <2>1 DEF NextQueued
  <2>3. t[k].priority < t[j].priority
    BY <1>3, <2>1
  <2> QED
    BY <1>1, <2>1, <2>2, <2>3 DEF Before
<1> QED
  BY <1>2, <1>3

-----------------------------------------------------------------------------
(* Type correctness.                                                       *)

LEMMA TypeInit == Init => TypeOK
<1> SUFFICES ASSUME Init
             PROVE  TypeOK
  OBVIOUS
<1>1. EmptyTable \in Table
  BY DEF EmptyTable, Table, Row, State
<1>2. handler \in [Lease -> HandlerPoint] /\ client \in [Lease -> ClientPoint]
  BY DEF Init, HandlerPoint, ClientPoint
<1> QED
  BY <1>1, <1>2 DEF Init, TypeOK, SchedPoint, ChildState

(* Requests to the queue keep the types.                                   *)
LEMMA TypeQueueRequest == TypeOK /\ QueueRequest => TypeOK'
<1> SUFFICES ASSUME TypeOK, QueueRequest
             PROVE  TypeOK'
  OBVIOUS
<1> USE DEF TypeOK
<1>1. ASSUME NEW j \in Job, NEW p \in Int, Enqueue(j, p), UNCHANGED <<schedVars, leaseVars>>
      PROVE  TypeOK'
  <2>1. jobs' \in Table
    BY <1>1, InsertType DEF Enqueue
  <2> QED
    BY <1>1, <2>1 DEF Enqueue, schedVars, leaseVars
<1>2. ASSUME NEW j \in Job, NEW p \in Priority, Submit(j, p)
      PROVE  TypeOK'
  BY <1>1, <1>2, JobTableAssumption DEF Submit
<1>3. ASSUME NEW j \in Job, SubmitNext(j)
      PROVE  TypeOK'
  BY <1>1, <1>3, FrontPriorityBeats DEF SubmitNext
<1>4. ASSUME NEW i \in Job, NEW j \in Job, NEW force \in BOOLEAN, Retry(i, j, force)
      PROVE  TypeOK'
  <2>1. jobs[i].priority \in Int
    BY DEF Table, Row
  <2> QED
    BY <1>1, <1>4, <2>1 DEF Retry
<1>5. ASSUME NEW j \in Job, Bump(j)
      PROVE  TypeOK'
  <2>1. jobs' \in Table
    BY <1>5, FrontPriorityBeats, SetPriorityType DEF Bump
  <2> QED
    BY <1>5, <2>1 DEF Bump, schedVars, leaseVars
<1>6. ASSUME NEW j \in Job, CancelQueued(j)
      PROVE  TypeOK'
  <2>1. jobs' \in Table
    BY <1>6, UpdateStateType DEF CancelQueued, State, Terminal
  <2> QED
    BY <1>6, <2>1 DEF CancelQueued, schedVars, leaseVars
<1> QED
  BY <1>2, <1>3, <1>4, <1>5, <1>6 DEF QueueRequest

(* So do the steps of the scheduler task.                                  *)
LEMMA TypeSchedulerTask ==
  ASSUME TypeOK, SchedInv, SchedulerTask
  PROVE  TypeOK'
<1> USE DEF TypeOK, SchedPoint
<1>1. CASE Wake \/ LeaseWaitOver \/ LoopIdle \/ LoopLeased \/ EvictDone
  BY <1>1 DEF Wake, LeaseWaitOver, LoopIdle, LoopLeased, EvictDone, queueVars, leaseVars
<1>2. CASE PopNothing
  BY <1>2 DEF PopNothing, schedVars, leaseVars
<1>3. CASE Pop
  <2>1. PICK j \in Queued(jobs) : jobs' = UpdateState(jobs, j, "starting") /\ job' = j
    BY <1>3 DEF Pop, NextQueued
  <2>2. j \in Job /\ jobs' \in Table
    BY <2>1, UpdateStateType DEF Queued, State, Running
  <2> QED
    BY <1>3, <2>1, <2>2 DEF Pop, leaseVars
<1>4. CASE RunJobCrashes
  <2>1. jobs' \in Table
    BY <1>4, UpdateStateType DEF RunJobCrashes, SchedInv, State, Terminal
  <2> QED
    BY <1>4, <2>1 DEF RunJobCrashes, leaseVars
<1>5. CASE OpenRun
  <2>1. job \in Job /\ jobs' \in Table
    BY <1>5, UpdateStateType DEF OpenRun, SchedInv, State, Running
  <2> QED
    BY <1>5, <2>1 DEF OpenRun, leaseVars
<1>6. CASE RunReturns \/ RunLeavesChild
  BY <1>6 DEF RunReturns, RunLeavesChild, SchedInv, ChildState, queueVars, leaseVars
<1>7. CASE Finish
  <2>1. jobs' \in Table
    BY <1>7, UpdateStateType DEF Finish, SchedInv, State, Terminal
  <2> QED
    BY <1>7, <2>1 DEF Finish, ChildState, leaseVars
<1> QED
  BY <1>1, <1>2, <1>3, <1>4, <1>5, <1>6, <1>7 DEF SchedulerTask

(* And those of the child, the lease handlers and their clients.           *)
LEMMA TypeLease ==
  ASSUME TypeOK, NEW c \in Lease, LeaseTask(c) \/ LeaseClient(c)
  PROVE  TypeOK'
<1> USE DEF TypeOK, HandlerPoint, ClientPoint
<1>1. ASSUME Grant(c), UNCHANGED <<queueVars, schedVars>>
      PROVE  TypeOK'
  BY <1>1 DEF Grant, queueVars, schedVars
<1>2. CASE PollLease(c)
  <2>1. CASE OllamaInstalled
    BY <1>2, <2>1 DEF PollLease, PassGate, queueVars, schedVars
  <2>2. CASE ~OllamaInstalled
    BY <1>1, <1>2, <2>2 DEF PollLease, PassGate
  <2> QED
    BY <2>1, <2>2
<1>3. CASE LeaseEvicted(c)
  BY <1>1, <1>3 DEF LeaseEvicted
<1>4. CASE LeaseEvictFails(c)
  BY <1>4 DEF LeaseEvictFails, queueVars, schedVars
<1>5. CASE AskLease(c)
  BY <1>5 DEF AskLease, queueVars, schedVars
<1>6. CASE Release(c)
  BY <1>6 DEF Release, schedVars
<1>7. CASE EnterBlock(c) \/ LeaveBlock(c) \/ ClientDies(c)
  BY <1>7 DEF EnterBlock, LeaveBlock, ClientDies, queueVars, schedVars
<1> QED
  BY <1>2, <1>3, <1>4, <1>5, <1>6, <1>7 DEF LeaseTask, LeaseClient

LEMMA TypeNext == TypeOK /\ SchedInv /\ [Next]_vars => TypeOK'
<1> SUFFICES ASSUME TypeOK, SchedInv, [Next]_vars
             PROVE  TypeOK'
  OBVIOUS
<1>1. CASE ProcessStep
  BY <1>1 DEF ProcessStep, RunnerTask, Spawn, ChildExits, StrayExits, TypeOK, ChildState,
              queueVars, leaseVars
<1>2. CASE UNCHANGED vars
  BY <1>2 DEF vars, TypeOK
<1> QED
  BY <1>1, <1>2, TypeQueueRequest, TypeSchedulerTask, TypeLease DEF Next, ProcessStep

-----------------------------------------------------------------------------
(* What a step may do to the table and to the scheduler task's locals.     *)

(* Requests write rows that are unused or queued, and nothing else than    *)
(* the queue's own variables.  One that queues a row sets the event.       *)
WritesWaitingRows ==
  \A k \in Job :
    \/ jobs'[k] = jobs[k]
    \/ /\ jobs[k].state \in {"unused", "queued"}
       /\ jobs'[k].state \in {"queued", "cancelled"}

KeepsWakeUp == notify' = TRUE \/ (notify' = notify /\ Queued(jobs') \subseteq Queued(jobs))

LEMMA RequestFrame ==
  ASSUME TypeOK, QueueRequest
  PROVE  UNCHANGED <<schedVars, leaseVars>> /\ WritesWaitingRows /\ KeepsWakeUp
<1> USE DEF TypeOK
<1>1. ASSUME NEW j \in Job, NEW p, Enqueue(j, p), jobs[j].state = "unused"
      PROVE  WritesWaitingRows /\ KeepsWakeUp
  BY <1>1 DEF Enqueue, Insert, Table, WritesWaitingRows, KeepsWakeUp
<1>2. ASSUME NEW j \in Job, NEW p \in Priority, Submit(j, p)
      PROVE  UNCHANGED <<schedVars, leaseVars>> /\ WritesWaitingRows /\ KeepsWakeUp
  BY <1>1, <1>2 DEF Submit
<1>3. ASSUME NEW j \in Job, SubmitNext(j)
      PROVE  UNCHANGED <<schedVars, leaseVars>> /\ WritesWaitingRows /\ KeepsWakeUp
  BY <1>1, <1>3 DEF SubmitNext
<1>4. ASSUME NEW i \in Job, NEW j \in Job, NEW force \in BOOLEAN, Retry(i, j, force)
      PROVE  UNCHANGED <<schedVars, leaseVars>> /\ WritesWaitingRows /\ KeepsWakeUp
  BY <1>1, <1>4 DEF Retry
<1>5. ASSUME NEW j \in Job, Bump(j)
      PROVE  UNCHANGED <<schedVars, leaseVars>> /\ WritesWaitingRows /\ KeepsWakeUp
  BY <1>5 DEF Bump, SetPriority, Queued, Waiting, Table, Row, WritesWaitingRows, KeepsWakeUp
<1>6. ASSUME NEW j \in Job, CancelQueued(j)
      PROVE  UNCHANGED <<schedVars, leaseVars>> /\ WritesWaitingRows /\ KeepsWakeUp
  BY <1>6 DEF CancelQueued, UpdateState, Exists, Queued, Waiting, Table, Row,
              WritesWaitingRows, KeepsWakeUp
<1> QED
  BY <1>2, <1>3, <1>4, <1>5, <1>6 DEF QueueRequest

(* The steps of the scheduler task that write no row.                      *)
Quiet == Wake \/ LeaseWaitOver \/ LoopIdle \/ LoopLeased \/ PopNothing \/ EvictDone

(* UPDATE jobs SET state writes the one row.                               *)
LEMMA WriteState ==
  ASSUME NEW t \in Table, NEW j \in Job, NEW s \in State, Exists(t, j)
  PROVE  /\ UpdateState(t, j, s)[j].state = s
         /\ \A k \in Job \ {j} : UpdateState(t, j, s)[k] = t[k]
BY DEF UpdateState, Table, Row

(* Every other step writes one row, which was not settled; none of them    *)
(* touches the leases.                                                     *)
LEMMA SchedulerFrame ==
  ASSUME TypeOK, SchedInv, SchedulerTask
  PROVE  /\ UNCHANGED leaseVars
         /\ \/ Quiet /\ UNCHANGED <<jobs, job, cur, child, strays>>
            \/ /\ RunReturns /\ child # "alive" /\ child' # "alive"
               /\ UNCHANGED <<jobs, job, cur, strays>>
            \/ RunLeavesChild /\ UNCHANGED <<jobs, job, cur>>
            \/ /\ Pop /\ sched' \in {"evict", "open"}
               /\ job' \in Queued(jobs) /\ jobs'[job'].state = "starting"
               /\ \A k \in Job \ {job'} : jobs'[k] = jobs[k]
               /\ UNCHANGED <<cur, child, strays>>
            \/ /\ OpenRun
               /\ job' = job /\ jobs'[job].state = "running"
               /\ \A k \in Job \ {job} : jobs'[k] = jobs[k]
            \/ /\ RunJobCrashes \/ Finish
               /\ jobs'[job].state \in {"done", "failed"}
               /\ \A k \in Job \ {job} : jobs'[k] = jobs[k]
<1>1. CASE Quiet
  BY <1>1 DEF Quiet, Wake, LeaseWaitOver, LoopIdle, LoopLeased, PopNothing, EvictDone,
              queueVars, schedVars
<1>2. CASE Pop
  <2>1. PICK j \in Queued(jobs) : jobs' = UpdateState(jobs, j, "starting") /\ job' = j
    BY <1>2 DEF Pop, NextQueued
  <2>2. j \in Job /\ Exists(jobs, j) /\ "starting" \in State
    BY <2>1 DEF Queued, Waiting, Exists, State, Running
  <2>3. jobs'[j].state = "starting" /\ \A k \in Job \ {j} : jobs'[k] = jobs[k]
    BY <2>1, <2>2, WriteState DEF TypeOK
  <2> QED
    BY <1>2, <2>1, <2>3 DEF Pop
<1>3. CASE OpenRun
  <2>1. job \in Job /\ Exists(jobs, job) /\ "running" \in State
    BY <1>3 DEF OpenRun, SchedInv, Exists, State, Running
  <2> QED
    BY <1>3, <2>1, WriteState DEF OpenRun, TypeOK
<1>4. CASE RunJobCrashes \/ Finish
  <2>1. job \in Job /\ Exists(jobs, job) /\ {"done", "failed"} \subseteq State
    BY <1>4 DEF RunJobCrashes, Finish, SchedInv, Exists, State, Terminal
  <2>2. PICK s \in {"done", "failed"} : jobs' = UpdateState(jobs, job, s)
    BY <1>4 DEF RunJobCrashes, Finish
  <2>3. jobs'[job].state = s /\ \A k \in Job \ {job} : jobs'[k] = jobs[k]
    BY <2>1, <2>2, WriteState DEF TypeOK
  <2> QED
    BY <1>4, <2>3 DEF RunJobCrashes, Finish
<1>5. CASE RunLeavesChild
  BY <1>5 DEF RunLeavesChild, queueVars
<1>6. CASE RunReturns
  BY <1>6 DEF RunReturns, queueVars
<1> QED
  BY <1>1, <1>2, <1>3, <1>4, <1>5, <1>6 DEF SchedulerTask, Quiet

(* Handlers and clients of leases leave the table and the task alone, and  *)
(* a step of theirs never clears the event.                                *)
LEMMA LeaseFrame ==
  ASSUME NEW c \in Lease, LeaseTask(c) \/ LeaseClient(c)
  PROVE  UNCHANGED <<jobs, schedVars>> /\ KeepsWakeUp
<1>1. UNCHANGED <<jobs, schedVars>>
  BY DEF LeaseTask, LeaseClient, PollLease, LeaseEvicted, LeaseEvictFails, AskLease,
         EnterBlock, LeaveBlock, Release, ClientDies, queueVars
<1>2. notify' = notify \/ notify' = TRUE
  BY DEF LeaseTask, LeaseClient, PollLease, LeaseEvicted, LeaseEvictFails, AskLease,
         EnterBlock, LeaveBlock, Release, ClientDies, queueVars
<1> QED
  BY <1>1, <1>2 DEF KeepsWakeUp, Queued

-----------------------------------------------------------------------------
(* The three parts of the inductive invariant.                             *)

LEMMA SchedInvStep == TypeOK /\ SchedInv /\ [Next]_vars => SchedInv'
<1> SUFFICES ASSUME TypeOK, SchedInv, [Next]_vars
             PROVE  SchedInv'
  OBVIOUS
<1>1. CASE QueueRequest
  <2>1. UNCHANGED schedVars /\ WritesWaitingRows
    BY <1>1, RequestFrame
  <2>2. Active(jobs') \subseteq Active(jobs)
    BY <2>1 DEF WritesWaitingRows, Active, Running
  <2>3. \A k \in Job : jobs[k].state \in {"starting", "running"} => jobs'[k] = jobs[k]
    BY <2>1 DEF WritesWaitingRows
  <2> QED
    BY <2>1, <2>2, <2>3 DEF SchedInv, schedVars
<1>2. CASE SchedulerTask
  <2>1. CASE Quiet /\ UNCHANGED <<jobs, job, cur, child, strays>>
    BY <2>1 DEF Quiet, Wake, LeaseWaitOver, LoopIdle, LoopLeased, PopNothing, EvictDone,
                schedVars, SchedInv, Active
  <2>2. CASE /\ Pop /\ sched' \in {"evict", "open"}
             /\ job' \in Queued(jobs) /\ jobs'[job'].state = "starting"
             /\ \A k \in Job \ {job'} : jobs'[k] = jobs[k]
             /\ UNCHANGED <<cur, child, strays>>
    <3>1. \A k \in Job : k \notin Active(jobs)
      BY <2>2, JobTableAssumption DEF Pop, SchedInv, Active
    <3> QED
      BY <2>2, <3>1 DEF Pop, SchedInv, Active, Queued
  <2>3. CASE /\ OpenRun
             /\ job' = job /\ jobs'[job].state = "running"
             /\ \A k \in Job \ {job} : jobs'[k] = jobs[k]
    BY <2>3 DEF OpenRun, SchedInv, Active
  <2>4. CASE /\ RunJobCrashes \/ Finish
             /\ jobs'[job].state \in {"done", "failed"}
             /\ \A k \in Job \ {job} : jobs'[k] = jobs[k]
    <3>1. \A k \in Job : k \notin Active(jobs')
      BY <2>4 DEF SchedInv, Active, Running
    <3> QED
      BY <2>4, <3>1 DEF RunJobCrashes, Finish, SchedInv, Active
  <2>5. CASE (RunReturns \/ RunLeavesChild) /\ UNCHANGED <<jobs, job, cur>>
    BY <2>5 DEF RunReturns, RunLeavesChild, SchedInv, Active
  <2> QED
    BY <1>2, <2>1, <2>2, <2>3, <2>4, <2>5, SchedulerFrame
<1>3. CASE ProcessStep
  BY <1>3 DEF ProcessStep, RunnerTask, Spawn, ChildExits, StrayExits, SchedInv, Active,
              queueVars
<1>4. CASE \E c \in Lease : LeaseTask(c) \/ LeaseClient(c)
  BY <1>4, LeaseFrame DEF SchedInv, Active, schedVars
<1>5. CASE UNCHANGED vars
  BY <1>5 DEF vars, SchedInv, Active
<1> QED
  BY <1>1, <1>2, <1>3, <1>4, <1>5 DEF Next, ProcessStep

LEMMA WakeInvStep == TypeOK /\ SchedInv /\ WakeInv /\ [Next]_vars => WakeInv'
<1> SUFFICES ASSUME TypeOK, SchedInv, WakeInv, [Next]_vars
             PROVE  WakeInv'
  OBVIOUS
<1>1. CASE QueueRequest
  BY <1>1, RequestFrame DEF KeepsWakeUp, WakeInv
<1>2. CASE SchedulerTask
  <2>1. CASE PopNothing
    BY <2>1 DEF PopNothing, WakeInv, Queued
  <2>2. CASE ~PopNothing
    <3>1. notify' = notify
      BY <1>2, <2>2 DEF SchedulerTask, Wake, LeaseWaitOver, LoopIdle, LoopLeased, Pop,
                        EvictDone, RunJobCrashes, OpenRun, RunReturns, RunLeavesChild, Finish,
                        queueVars
    <3>2. Queued(jobs') \subseteq Queued(jobs)
      BY <1>2, SchedulerFrame DEF Queued, Waiting
    <3> QED
      BY <3>1, <3>2 DEF WakeInv
  <2> QED
    BY <2>1, <2>2
<1>3. CASE ProcessStep
  BY <1>3 DEF ProcessStep, RunnerTask, Spawn, ChildExits, StrayExits, WakeInv, Queued,
              queueVars
<1>4. CASE \E c \in Lease : LeaseTask(c) \/ LeaseClient(c)
  BY <1>4, LeaseFrame DEF KeepsWakeUp, WakeInv
<1>5. CASE UNCHANGED vars
  BY <1>5 DEF vars, WakeInv, Queued
<1> QED
  BY <1>1, <1>2, <1>3, <1>4, <1>5 DEF Next, ProcessStep

(* When no run may leave its child alive there are no stray processes.     *)
LEMMA NoStraysStep ==
  ASSUME ~RunMayLeaveChild
  PROVE  TypeOK /\ SchedInv /\ NoStrays /\ [Next]_vars => NoStrays'
<1> SUFFICES ASSUME TypeOK, SchedInv, NoStrays, [Next]_vars
             PROVE  NoStrays'
  OBVIOUS
<1> USE DEF NoStrays
<1>1. CASE SchedulerTask
  BY <1>1, SchedulerFrame DEF OpenRun, RunJobCrashes, Finish, RunLeavesChild
<1>2. CASE QueueRequest \/ \E c \in Lease : LeaseTask(c) \/ LeaseClient(c)
  BY <1>2, RequestFrame, LeaseFrame DEF schedVars
<1>3. CASE ProcessStep
  BY <1>3 DEF ProcessStep, RunnerTask, Spawn, ChildExits, StrayExits
<1>4. CASE UNCHANGED vars
  BY <1>4 DEF vars
<1> QED
  BY <1>1, <1>2, <1>3, <1>4 DEF Next, ProcessStep

LEMMA LeaseInvStep ==
  ASSUME ~OllamaInstalled, ~RunMayLeaveChild
  PROVE  TypeOK /\ SchedInv /\ LeaseInv /\ [Next]_vars => LeaseInv'
<1> SUFFICES ASSUME TypeOK, SchedInv, LeaseInv, [Next]_vars
             PROVE  LeaseInv'
  OBVIOUS
<1>1. CASE QueueRequest
  BY <1>1, RequestFrame DEF LeaseInv, schedVars, leaseVars
<1>2. CASE SchedulerTask
  BY <1>2, SchedulerFrame
     DEF LeaseInv, leaseVars, schedVars, SchedulerTask, Wake, LeaseWaitOver, LoopIdle,
         LoopLeased, PopNothing, Pop, EvictDone, RunJobCrashes, OpenRun, RunReturns,
         RunLeavesChild, Finish
<1>3. CASE ProcessStep
  BY <1>3 DEF ProcessStep, RunnerTask, Spawn, ChildExits, StrayExits, LeaseInv, leaseVars
<1>4. ASSUME NEW c \in Lease, LeaseTask(c) \/ LeaseClient(c)
      PROVE  LeaseInv'
  <2> USE DEF TypeOK, HandlerPoint, ClientPoint
  <2>1. UNCHANGED schedVars
    BY <1>4, LeaseFrame
  <2>2. CASE PollLease(c)
    <3>1. sched \in {"wait", "lease_wait"} /\ ~leaseHeld
      BY <2>2, JobTableAssumption
      DEF PollLease, LoopFree, GpuLooksFree, SchedInv, LeaseInv, SchedPoint
    <3>2. Grant(c)
      BY <2>2 DEF PollLease, PassGate
    <3>3. \A d \in Lease : handler[d] = "granted" => client[d] = "gone"
      BY <3>1, SchedulerAssumption DEF LeaseInv
    <3> QED
      BY <2>1, <3>1, <3>2, <3>3, SchedulerAssumption DEF Grant, LeaseInv, schedVars
  <2>3. CASE LeaseEvicted(c) \/ LeaseEvictFails(c)
    BY <2>3 DEF LeaseEvicted, LeaseEvictFails, LeaseInv
  <2>4. CASE AskLease(c)
    BY <2>1, <2>4 DEF AskLease, LeaseInv, schedVars
  <2>5. CASE Release(c)
    BY <2>1, <2>5 DEF Release, LeaseInv, schedVars
  <2>6. CASE EnterBlock(c) \/ LeaveBlock(c) \/ ClientDies(c)
    BY <2>1, <2>6 DEF EnterBlock, LeaveBlock, ClientDies, LeaseInv, schedVars
  <2> QED
    BY <1>4, <2>2, <2>3, <2>4, <2>5, <2>6 DEF LeaseTask, LeaseClient
<1>5. CASE UNCHANGED vars
  BY <1>5 DEF vars, LeaseInv
<1> QED
  BY <1>1, <1>2, <1>3, <1>4, <1>5 DEF Next, ProcessStep

-----------------------------------------------------------------------------
(* What a step may do to a row: a queued one is cancelled, bumped or       *)
(* started, an active one goes on or settles, and the others stay.         *)
RowMoves ==
  \A j \in Job :
    \/ jobs'[j] = jobs[j]
    \/ /\ jobs[j].state \in {"unused", "queued"}
       /\ jobs'[j].state \in {"queued", "cancelled", "starting"}
    \/ jobs[j].state \in Running /\ jobs'[j].state \in {"running", "done", "failed"}

LEMMA RowMovesNext == TypeOK /\ SchedInv /\ [Next]_vars => RowMoves
<1> SUFFICES ASSUME TypeOK, SchedInv, [Next]_vars
             PROVE  RowMoves
  OBVIOUS
<1> USE DEF RowMoves
<1>1. CASE QueueRequest
  BY <1>1, RequestFrame DEF WritesWaitingRows
<1>2. CASE SchedulerTask
  <2>1. CASE jobs' = jobs
    BY <2>1
  <2>2. CASE /\ job' \in Queued(jobs) /\ jobs'[job'].state = "starting"
             /\ \A k \in Job \ {job'} : jobs'[k] = jobs[k]
    BY <2>2 DEF Queued, Waiting
  <2>3. CASE /\ OpenRun \/ RunJobCrashes \/ Finish
             /\ jobs'[job].state \in {"running", "done", "failed"}
             /\ \A k \in Job \ {job} : jobs'[k] = jobs[k]
    BY <2>3 DEF OpenRun, RunJobCrashes, Finish, SchedInv, Running
  <2> QED
    BY <1>2, <2>1, <2>2, <2>3, SchedulerFrame
<1>3. CASE ProcessStep
  BY <1>3 DEF ProcessStep, RunnerTask, Spawn, ChildExits, StrayExits, queueVars
<1>4. CASE \E c \in Lease : LeaseTask(c) \/ LeaseClient(c)
  BY <1>4, LeaseFrame
<1>5. CASE UNCHANGED vars
  BY <1>5 DEF vars
<1> QED
  BY <1>1, <1>2, <1>3, <1>4, <1>5 DEF Next, ProcessStep

-----------------------------------------------------------------------------
(* The theorems.                                                           *)

LEMMA InitInv == Init => TypeOK /\ SchedInv /\ WakeInv /\ LeaseInv
<1> SUFFICES ASSUME Init
             PROVE  TypeOK /\ SchedInv /\ WakeInv /\ LeaseInv
  OBVIOUS
<1>1. Active(jobs) = {} /\ Queued(jobs) = {}
  BY DEF Init, EmptyTable, Active, Running, Queued, Waiting
<1> QED
  BY <1>1, TypeInit DEF Init, SchedInv, WakeInv, LeaseInv

LEMMA SchedInvariant == Spec => [](TypeOK /\ SchedInv)
<1>1. Init => TypeOK /\ SchedInv
  BY InitInv
<1>2. TypeOK /\ SchedInv /\ [Next]_vars => (TypeOK /\ SchedInv)'
  BY TypeNext, SchedInvStep
<1> QED
  BY <1>1, <1>2, PTL DEF Spec

(* Every reachable state is one of the records and sets TypeOK names; in   *)
(* particular the scheduler task never runs a job whose id it does not     *)
(* have (Server._scheduler).                                               *)
THEOREM TypeCorrect == Spec => []TypeOK
BY SchedInvariant, PTL

(* Jobs run one at a time, whatever the requests, leases and evictions     *)
(* that interleave with them (Server._run_job).                            *)
THEOREM JobsAreSerial == Spec => []OneActiveJob
<1>1. TypeOK /\ SchedInv => OneActiveJob
  BY JobTableAssumption DEF TypeOK, SchedPoint, SchedInv, OneActiveJob
<1> QED
  BY <1>1, SchedInvariant, PTL

(* The event is set whenever a row is queued, so the scheduler never       *)
(* sleeps on a job (Queue.enqueue, Queue.pop).                             *)
THEOREM WakeupsAreKept == Spec => []NoLostWakeup
<1>1. Init => WakeInv
  BY InitInv
<1>2. (TypeOK /\ SchedInv) /\ WakeInv /\ [Next]_vars => WakeInv'
  BY WakeInvStep
<1>3. WakeInv => NoLostWakeup
  BY DEF WakeInv, NoLostWakeup
<1> QED
  BY <1>1, <1>2, <1>3, SchedInvariant, PTL DEF Spec

(* On a machine without ollama, where evict() returns without suspending,  *)
(* and when no child outlives its Runner.run, a lease excludes jobs and    *)
(* other leases.  Both hypotheses are needed: without either the code      *)
(* breaks it (Server._handle_lease, Server._run_job, Runner.run).          *)
THEOREM LeaseIsExclusive ==
  ASSUME ~OllamaInstalled, ~RunMayLeaveChild
  PROVE  Spec => []LeaseExcludesJobs
<1>1. Init => LeaseInv
  BY InitInv
<1>2. (TypeOK /\ SchedInv) /\ LeaseInv /\ [Next]_vars => LeaseInv'
  BY LeaseInvStep
<1>3. (TypeOK /\ SchedInv) /\ LeaseInv => LeaseExcludesJobs
  BY SchedulerAssumption DEF SchedInv, LeaseInv, LeaseExcludesJobs, Processes
<1> QED
  BY <1>1, <1>2, <1>3, SchedInvariant, PTL DEF Spec

(* On such a machine the daemon implements the lock of GpuLock.            *)
THEOREM SchedulerImplementsGpuLock ==
  ASSUME ~OllamaInstalled, ~RunMayLeaveChild
  PROVE  Spec => ImplementsGpuLock
<1>1. Init => Gpu!Init
  BY DEF Init, Gpu!Init, Owner, Users, Processes
<1>2. Init => LeaseInv
  BY InitInv
<1>3. (TypeOK /\ SchedInv) /\ LeaseInv /\ [Next]_vars => LeaseInv'
  BY LeaseInvStep
<1>4. (TypeOK /\ SchedInv) /\ (TypeOK /\ SchedInv)' /\ LeaseInv /\ [Next]_vars
        => [Gpu!Next]_<<Owner, Users>>
  <2> SUFFICES ASSUME TypeOK, SchedInv, TypeOK', SchedInv', LeaseInv, [Next]_vars
               PROVE  Gpu!Next \/ UNCHANGED <<Owner, Users>>
    OBVIOUS
  <2> USE DEF TypeOK, Gpu!Next, Processes
  <2>0. strays = {}
    BY DEF LeaseInv
  <2>1. CASE QueueRequest
    BY <2>1, RequestFrame DEF schedVars, leaseVars, Owner, Users
  <2>2. CASE SchedulerTask
    <3>1. CASE Quiet /\ UNCHANGED <<job, child, strays>>
      BY <2>2, <3>1, SchedulerFrame DEF leaseVars, Owner, Users
    <3>2. CASE Pop
      <4>1. /\ job = None /\ leaseId = None /\ child = "none" /\ job' \in Job
            /\ UNCHANGED <<child, strays, client>>
        BY <3>2 DEF Pop, SchedInv, LeaseInv, NextQueued, Queued, leaseVars
      <4>2. Owner = None /\ Owner' = job' /\ UNCHANGED Users
        BY <4>1, JobTableAssumption DEF Owner, Users
      <4>3. Gpu!Acquire(job')
        BY <4>2 DEF Gpu!Acquire
      <4> QED
        BY <4>1, <4>3
    <3>3. CASE OpenRun \/ (RunReturns /\ child # "alive" /\ child' # "alive")
      BY <3>3 DEF OpenRun, RunReturns, leaseVars, Owner, Users
    <3>4. CASE RunJobCrashes \/ Finish
      <4>1. /\ job \in Job /\ job' = None /\ child # "alive" /\ child' # "alive"
            /\ UNCHANGED <<leaseId, client, strays>> /\ leaseId = None
        BY <3>4 DEF RunJobCrashes, Finish, SchedInv, LeaseInv, leaseVars
      <4>2. Owner = job /\ Owner' = None /\ UNCHANGED Users /\ job \notin Users
        BY <2>0, <4>1, JobTableAssumption, SchedulerAssumption DEF Owner, Users
      <4>3. Gpu!Release(job)
        BY <4>2 DEF Gpu!Release
      <4> QED
        BY <4>1, <4>3
    <3> QED
      BY <2>2, <3>1, <3>2, <3>3, <3>4, SchedulerFrame DEF RunLeavesChild
  <2>3. CASE Spawn \/ ChildExits
    <3>1. job \in Job /\ Owner = job /\ UNCHANGED <<Owner, job, strays, client>>
      BY <2>3, JobTableAssumption
         DEF Spawn, ChildExits, SchedInv, SchedPoint, Owner, leaseVars
    <3>2. CASE child' = "alive"
      <4>1. Users' = Users \cup {job}
        BY <3>1, <3>2 DEF Users
      <4> QED
        BY <3>1, <4>1 DEF Gpu!Begin
    <3>3. CASE child = "alive" /\ child' # "alive"
      <4>1. job \in Users /\ Users' = Users \ {job}
        BY <2>0, <3>1, <3>3, SchedulerAssumption DEF Users
      <4> QED
        BY <3>1, <4>1 DEF Gpu!End
    <3>4. CASE child # "alive" /\ child' # "alive"
      BY <3>1, <3>4 DEF Users
    <3> QED
      BY <3>2, <3>3, <3>4
  <2>4. ASSUME NEW c \in Lease, LeaseTask(c) \/ LeaseClient(c)
        PROVE  Gpu!Next \/ UNCHANGED <<Owner, Users>>
    <3>1. UNCHANGED <<job, child, strays>>
      BY <2>4, LeaseFrame DEF schedVars
    <3>2. CASE PollLease(c)
      <4>1. job = None /\ ~leaseHeld /\ Grant(c)
        BY <3>2, JobTableAssumption
           DEF PollLease, PassGate, LoopFree, GpuLooksFree, SchedInv, LeaseInv, SchedPoint
      <4>2. Owner = None /\ Owner' = c /\ UNCHANGED Users
        BY <3>1, <4>1 DEF Grant, Owner, Users, LeaseInv
      <4> QED
        BY <4>2 DEF Gpu!Acquire
    <3>3. CASE LeaseEvicted(c) \/ LeaseEvictFails(c)
      BY <3>3 DEF LeaseEvicted, LeaseEvictFails, LeaseInv
    <3>4. CASE AskLease(c)
      BY <3>1, <3>4 DEF AskLease, Owner, Users
    <3>5. ASSUME handler[c] = "granted" /\ client[c] # "gone"
          PROVE  Owner = c
      BY <3>5, SchedulerAssumption DEF LeaseInv, SchedInv, Owner
    <3>6. CASE EnterBlock(c)
      <4>1. Owner = c /\ UNCHANGED Owner /\ Users' = Users \cup {c}
        BY <3>1, <3>5, <3>6 DEF EnterBlock, Owner, Users
      <4> QED
        BY <4>1 DEF Gpu!Begin
    <3>7. CASE (LeaveBlock(c) \/ ClientDies(c)) /\ client[c] = "inside"
      <4>1. UNCHANGED Owner /\ c \in Users /\ Users' = Users \ {c}
        BY <2>0, <3>1, <3>7, SchedulerAssumption DEF LeaveBlock, ClientDies, Owner, Users
      <4> QED
        BY <4>1 DEF Gpu!End
    <3>8. CASE ClientDies(c) /\ client[c] # "inside"
      BY <3>1, <3>8 DEF ClientDies, Owner, Users
    <3>9. CASE Release(c)
      <4>1. Owner = c /\ c \notin Users
        BY <2>0, <3>5, <3>9, SchedulerAssumption DEF Release, LeaseInv, Users
      <4>2. Owner' = None /\ UNCHANGED Users
        BY <3>1, <3>9, <4>1, SchedulerAssumption DEF Release, LeaseInv, Owner, Users
      <4> QED
        BY <4>1, <4>2 DEF Gpu!Release
    <3> QED
      BY <2>4, <3>2, <3>3, <3>4, <3>6, <3>7, <3>8, <3>9 DEF LeaseTask, LeaseClient, LeaveBlock
  <2>5. CASE UNCHANGED vars
    BY <2>5 DEF vars, Owner, Users
  <2> QED
    BY <2>0, <2>1, <2>2, <2>3, <2>4, <2>5 DEF Next, RunnerTask, StrayExits
<1> QED
  BY <1>1, <1>2, <1>3, <1>4, SchedInvariant, PTL DEF Spec, ImplementsGpuLock, Gpu!Spec

(* A settled row is never written again: neither a request nor the end of  *)
(* a run reaches it (JobRepo.update_state and its callers).                *)
THEOREM SettledRowsStay == Spec => TerminalIsFinal
<1> DEFINE Kept == \A j \in Settled(jobs) : jobs'[j] = jobs[j]
<1>1. RowMoves => Kept
  BY DEF RowMoves, Settled, Terminal, Running
<1>2. (TypeOK /\ SchedInv) /\ [Next]_vars => [Kept]_vars
  BY <1>1, RowMovesNext
<1> QED
  BY <1>2, SchedInvariant, PTL DEF Spec, TerminalIsFinal

(* Bumping a job, or submitting it with --next, puts it at the head of the *)
(* queue, for any priorities and any ties (JobRepo.bump, _handle_submit).  *)
THEOREM FrontIsNext == Spec => FrontMeansNext
<1> DEFINE InFront == \A j \in Job : Bump(j) \/ SubmitNext(j) => NextQueued(jobs') = {j}
<1>1. TypeOK /\ TypeOK' => InFront
  <2> SUFFICES ASSUME TypeOK, TypeOK', NEW j \in Job, Bump(j) \/ SubmitNext(j)
               PROVE  NextQueued(jobs') = {j}
    OBVIOUS
  <2> USE DEF TypeOK
  <2>1. /\ j \in Queued(jobs')
        /\ \A i \in Queued(jobs') \ {j} : jobs'[i].priority < jobs'[j].priority
    <3>1. CASE Bump(j)
      <4>1. PICK p \in FrontPriority(jobs, {j}) : jobs' = SetPriority(jobs, j, p)
        BY <3>1 DEF Bump
      <4>2. Queued(jobs') = Queued(jobs) /\ jobs'[j].priority = p
        BY <4>1 DEF SetPriority, Queued, Table, Row
      <4>3. \A i \in Queued(jobs) \ {j} : jobs'[i].priority < p
        BY <4>1, FrontPriorityBeats DEF SetPriority, Queued, Table
      <4> QED
        BY <3>1, <4>2, <4>3 DEF Bump
    <3>2. CASE SubmitNext(j)
      <4>1. PICK p \in FrontPriority(jobs, {}) : jobs' = Insert(jobs, j, p, clock)
        BY <3>2 DEF SubmitNext, Enqueue
      <4>2. Queued(jobs') = Queued(jobs) \cup {j} /\ jobs'[j].priority = p
        BY <4>1 DEF Insert, Queued, Waiting, Table
      <4>3. \A i \in Queued(jobs) \ {j} : jobs'[i].priority < p
        BY <4>1, FrontPriorityBeats DEF Insert, Queued, Table
      <4> QED
        BY <4>2, <4>3
    <3> QED
      BY <3>1, <3>2
  <2> QED
    BY <2>1, BeatsMeansNext
<1>2. (TypeOK /\ SchedInv) /\ (TypeOK /\ SchedInv)' => [InFront]_vars
  BY <1>1
<1> QED
  BY <1>2, SchedInvariant, PTL DEF Spec, FrontMeansNext
=============================================================================
