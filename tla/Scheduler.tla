------------------------------ MODULE Scheduler ------------------------------
(***************************************************************************)
(* Who may use the GPU: the scheduler task, the job it runs, and the lease *)
(* handlers of src/gpuq/daemon/server.py, all of them tasks on one asyncio *)
(* event loop.                                                             *)
(*                                                                         *)
(* A task runs until it really suspends, so an action is what a task does  *)
(* between two suspensions.  Awaiting a coroutine suspends only if that    *)
(* coroutine does: ollama.evict() waits for a subprocess when the ollama   *)
(* command exists, and returns at once when it does not.  In the control   *)
(* points "loop" and "open" the scheduler task has not suspended, and no   *)
(* other task of the daemon can run: LoopFree guards every handler.        *)
(* Clients and the child process are other processes and need no such      *)
(* guard.                                                                  *)
(*                                                                         *)
(* Here the daemon neither stops nor crashes (Recovery adds that), and     *)
(* every SQL statement succeeds.                                           *)
(***************************************************************************)
EXTENDS JobTable

CONSTANTS Lease,            \* the calls of gpuq.lease(), each of them one client
          OllamaInstalled,  \* whether create_subprocess_exec finds "ollama"
          RunMayLeaveChild, \* whether Runner.run may end with its child alive:
                            \* a pump raises when a line is longer than the
                            \* StreamReader's limit or cannot be written, a child
                            \* that outlives SIGKILL is given up (see RunJob)
          Mortal,           \* the lease clients that may die without releasing
          MaxPriority       \* bound on the priorities bump and --next can reach

ASSUME SchedulerAssumption ==
  /\ OllamaInstalled \in BOOLEAN
  /\ RunMayLeaveChild \in BOOLEAN
  /\ Mortal \subseteq Lease
  /\ MaxPriority \in Int
  /\ None \notin Lease
  /\ Job \cap Lease = {}

VARIABLES
  jobs,       \* the jobs table
  clock,      \* the stamp of the next insert
  notify,     \* Queue.notify
  sched,      \* where the scheduler task is
  job,        \* its local variable `job'
  cur,        \* _current_job_id, set and cleared together with _current_runner
  child,      \* the process of the current runner
  strays,     \* the jobs that have a live process which no runner awaits
  leaseHeld,  \* _lease_held
  leaseId,    \* _lease_id
  handler,    \* where each _handle_lease task is
  client      \* where each client of a lease is

queueVars == <<jobs, clock, notify>>
schedVars == <<sched, job, cur, child, strays>>
leaseVars == <<leaseHeld, leaseId, handler, client>>
vars      == <<jobs, clock, notify, sched, job, cur, child, strays,
               leaseHeld, leaseId, handler, client>>

(* "wait": in notify.wait(); "lease_wait": in _wait_lease_released;        *)
(* "evict": awaiting ollama.evict(); "launch": awaiting the runner;        *)
(* "drain": awaiting the mirror task; "loop" and "open": running.          *)
SchedPoint == {"loop", "wait", "lease_wait", "evict", "open", "launch", "drain"}

(* What became of the runner's child: its exit status is zero or nonzero;  *)
(* a command that cannot be spawned counts as nonzero.                     *)
ChildState == {"none", "alive", "zero", "nonzero"}

HandlerPoint == {"none", "polling", "evicting", "granted"}
ClientPoint  == {"outside", "asking", "inside", "leaving", "gone"}

TypeOK ==
  /\ jobs \in Table
  /\ clock \in Nat
  /\ notify \in BOOLEAN
  /\ sched \in SchedPoint
  /\ job \in Job \cup {None}
  /\ cur \in Job \cup {None}
  /\ child \in ChildState
  /\ strays \subseteq Job
  /\ leaseHeld \in BOOLEAN
  /\ leaseId \in Lease \cup {None}
  /\ handler \in [Lease -> HandlerPoint]
  /\ client \in [Lease -> ClientPoint]

Init ==
  /\ jobs = EmptyTable
  /\ clock = 0
  /\ notify = FALSE
  /\ sched = "loop"
  /\ job = None
  /\ cur = None
  /\ child = "none"
  /\ strays = {}
  /\ leaseHeld = FALSE
  /\ leaseId = None
  /\ handler = [c \in Lease |-> "none"]
  /\ client = [c \in Lease |-> "outside"]

LoopFree == sched \notin {"loop", "open"}

-----------------------------------------------------------------------------
(* The queue's requests.                                                   *)

(* Seeded fault: the row is inserted but nobody is woken.                  *)
EnqueueSilently(j, p) ==
  /\ jobs' = Insert(jobs, j, p, clock)
  /\ clock' = clock + 1
  /\ UNCHANGED notify

(* Queue.enqueue                                                           *)
Enqueue(j, p) ==
  /\ jobs' = Insert(jobs, j, p, clock)
  /\ clock' = clock + 1
  /\ notify' = TRUE

(* Submit, at a priority of the client's choice.                           *)
Submit(j, p) ==
  /\ LoopFree
  /\ jobs[j].state = "unused"
  /\ Enqueue(j, p)
  /\ UNCHANGED <<schedVars, leaseVars>>

(* Submit with --next.                                                     *)
SubmitNext(j) ==
  /\ LoopFree
  /\ jobs[j].state = "unused"
  /\ \E p \in FrontPriority(jobs, {}) : p <= MaxPriority /\ Enqueue(j, p)
  /\ UNCHANGED <<schedVars, leaseVars>>

(* Retry of job i as the new job j; force also accepts a job that is done. *)
Retry(i, j, force) ==
  /\ LoopFree
  /\ jobs[i].state \in {"failed", "cancelled"} \cup IF force THEN {"done"} ELSE {}
  /\ jobs[j].state = "unused"
  /\ Enqueue(j, jobs[i].priority)
  /\ UNCHANGED <<schedVars, leaseVars>>

(* JobRepo.bump                                                            *)
Bump(j) ==
  /\ LoopFree
  /\ j \in Queued(jobs)
  /\ \E p \in FrontPriority(jobs, {j}) :
       p <= MaxPriority /\ jobs' = SetPriority(jobs, j, p)
  /\ UNCHANGED <<clock, notify, schedVars, leaseVars>>

(* Seeded fault: the state is spelt as nobody else spells it.              *)
CancelQueuedMisspelt(j) ==
  /\ LoopFree
  /\ j \in Queued(jobs)
  /\ jobs' = UpdateState(jobs, j, "canceled")
  /\ UNCHANGED <<clock, notify, schedVars, leaseVars>>

(* Seeded fault: Queue.cancel does not look at the state.                  *)
CancelWhatever(j) ==
  /\ LoopFree
  /\ Exists(jobs, j)
  /\ jobs' = UpdateState(jobs, j, "cancelled")
  /\ UNCHANGED <<clock, notify, schedVars, leaseVars>>

(* Cancel of a job that is still queued.                                   *)
CancelQueued(j) ==
  /\ LoopFree
  /\ j \in Queued(jobs)
  /\ jobs' = UpdateState(jobs, j, "cancelled")
  /\ UNCHANGED <<clock, notify, schedVars, leaseVars>>

-----------------------------------------------------------------------------
(* The scheduler task.                                                     *)

(* notify.wait() returns.                                                  *)
Wake ==
  /\ sched = "wait" /\ notify
  /\ sched' = "loop"
  /\ UNCHANGED <<queueVars, job, cur, child, strays, leaseVars>>

(* The poll of _wait_lease_released finds the lease gone.                  *)
LeaseWaitOver ==
  /\ sched = "lease_wait" /\ ~leaseHeld
  /\ sched' = "loop"
  /\ UNCHANGED <<queueVars, job, cur, child, strays, leaseVars>>

(* The top of the loop: notify.wait() suspends.                            *)
LoopIdle ==
  /\ sched = "loop" /\ ~notify
  /\ sched' = "wait"
  /\ UNCHANGED <<queueVars, job, cur, child, strays, leaseVars>>

(* The top of the loop: a lease is held.                                   *)
LoopLeased ==
  /\ sched = "loop" /\ notify /\ leaseHeld
  /\ sched' = "lease_wait"
  /\ UNCHANGED <<queueVars, job, cur, child, strays, leaseVars>>

(* Queue.pop finds nothing and the loop goes round to notify.wait().       *)
PopNothing ==
  /\ sched = "loop" /\ notify /\ ~leaseHeld
  /\ Queued(jobs) = {}
  /\ notify' = FALSE
  /\ UNCHANGED <<jobs, clock, schedVars, leaseVars>>

(* Seeded fault: the pop does not look at the lease.                       *)
PopDespiteLease ==
  /\ sched = "loop" /\ notify
  /\ \E j \in NextQueued(jobs) :
       /\ jobs' = UpdateState(jobs, j, "starting")
       /\ job' = j
  /\ sched' = IF OllamaInstalled THEN "evict" ELSE "open"
  /\ UNCHANGED <<clock, notify, cur, child, strays, leaseVars>>

(* Seeded fault: the pop clears the wake-up it has not used up.            *)
PopAndForget ==
  /\ sched = "loop" /\ notify /\ ~leaseHeld
  /\ \E j \in NextQueued(jobs) :
       /\ jobs' = UpdateState(jobs, j, "starting")
       /\ job' = j
  /\ sched' = IF OllamaInstalled THEN "evict" ELSE "open"
  /\ notify' = FALSE
  /\ UNCHANGED <<clock, cur, child, strays, leaseVars>>

(* Queue.pop takes a job, and _run_job starts by evicting ollama.          *)
Pop ==
  /\ sched = "loop" /\ notify /\ ~leaseHeld
  /\ \E j \in NextQueued(jobs) :
       /\ jobs' = UpdateState(jobs, j, "starting")
       /\ job' = j
  /\ sched' = IF OllamaInstalled THEN "evict" ELSE "open"
  /\ UNCHANGED <<clock, notify, cur, child, strays, leaseVars>>

EvictDone ==
  /\ sched = "evict"
  /\ sched' = "open"
  /\ UNCHANGED <<queueVars, job, cur, child, strays, leaseVars>>

(* evict() or JobLogs.open() raises: the scheduler's except clause.        *)
RunJobCrashes ==
  /\ sched = "open"
  /\ jobs' = UpdateState(jobs, job, "failed")
  /\ sched' = "loop"
  /\ job' = None
  /\ UNCHANGED <<clock, notify, cur, child, strays, leaseVars>>

(* The job becomes current and its runner's task is created.               *)
OpenRun ==
  /\ sched = "open"
  /\ cur' = job
  /\ jobs' = UpdateState(jobs, job, "running")
  /\ sched' = "launch"
  /\ UNCHANGED <<clock, notify, job, child, strays, leaseVars>>

(* create_subprocess_exec makes the child, or raises.                      *)
Spawn ==
  /\ sched = "launch" /\ child = "none"
  /\ child' \in {"alive", "nonzero"}
  /\ UNCHANGED <<queueVars, sched, job, cur, strays, leaseVars>>

ChildExits ==
  /\ child = "alive"
  /\ child' \in {"zero", "nonzero"}
  /\ UNCHANGED <<queueVars, sched, job, cur, strays, leaseVars>>

(* Runner.run returns or raises, and the end of the log is announced.  A   *)
(* run that raises, or that misses its child's exit, counts as failed      *)
(* whatever the child's status.                                            *)
RunReturns ==
  /\ sched = "launch" /\ child \in {"zero", "nonzero"}
  /\ sched' = "drain"
  /\ child' \in {child, "nonzero"}
  /\ UNCHANGED <<queueVars, job, cur, strays, leaseVars>>

(* Runner.run raises, or returns -1, although its child is alive, and the  *)
(* job will be failed.                                                     *)
RunLeavesChild ==
  /\ RunMayLeaveChild
  /\ sched = "launch" /\ child = "alive"
  /\ sched' = "drain"
  /\ child' = "nonzero"
  /\ strays' = strays \cup {job}
  /\ UNCHANGED <<queueVars, job, cur, leaseVars>>

StrayExits(j) ==
  /\ j \in strays
  /\ strays' = strays \ {j}
  /\ UNCHANGED <<queueVars, sched, job, cur, child, leaseVars>>

(* Seeded fault: the outcome is not written.                               *)
FinishUnrecorded ==
  /\ sched = "drain"
  /\ cur' = None
  /\ job' = None
  /\ child' = "none"
  /\ sched' = "loop"
  /\ UNCHANGED <<queueVars, strays, leaseVars>>

(* The mirror task has drained: the job is over and the loop goes round.   *)
Finish ==
  /\ sched = "drain"
  /\ cur' = None
  /\ jobs' = UpdateState(jobs, job, IF child = "zero" THEN "done" ELSE "failed")
  /\ job' = None
  /\ child' = "none"
  /\ sched' = "loop"
  /\ UNCHANGED <<clock, notify, strays, leaseVars>>

-----------------------------------------------------------------------------
(* Leases: _handle_lease, _handle_release and the client's with-block.     *)

(* The handler's loop condition is false.                                  *)
GpuLooksFree == cur = None /\ ~leaseHeld

(* The lines after evict(): the lease is recorded and answered, even if the *)
(* client is no longer there to read the answer.                           *)
Grant(c) ==
  /\ leaseHeld' = TRUE
  /\ leaseId' = c
  /\ handler' = [handler EXCEPT ![c] = "granted"]
  /\ UNCHANGED client

(* A handler sees the GPU free and evicts ollama, which may suspend it.    *)
PassGate(c) ==
  IF OllamaInstalled
  THEN /\ handler' = [handler EXCEPT ![c] = "evicting"]
       /\ UNCHANGED <<leaseHeld, leaseId, client>>
  ELSE Grant(c)

AskLease(c) ==
  /\ client[c] = "outside"
  /\ client' = [client EXCEPT ![c] = "asking"]
  /\ handler' = [handler EXCEPT ![c] = "polling"]
  /\ UNCHANGED <<queueVars, schedVars, leaseHeld, leaseId>>

(* Seeded fault: the poll asks about the current job only.                 *)
PollIgnoringLease(c) ==
  /\ LoopFree
  /\ handler[c] = "polling" /\ cur = None
  /\ PassGate(c)
  /\ UNCHANGED <<queueVars, schedVars>>

PollLease(c) ==
  /\ LoopFree
  /\ handler[c] = "polling" /\ GpuLooksFree
  /\ PassGate(c)
  /\ UNCHANGED <<queueVars, schedVars>>

LeaseEvicted(c) ==
  /\ LoopFree
  /\ handler[c] = "evicting"
  /\ Grant(c)
  /\ UNCHANGED <<queueVars, schedVars>>

(* evict() raises: the client gets an error event and its lease() fails.   *)
LeaseEvictFails(c) ==
  /\ LoopFree
  /\ handler[c] = "evicting"
  /\ handler' = [handler EXCEPT ![c] = "none"]
  /\ client' = [client EXCEPT ![c] = "gone"]
  /\ UNCHANGED <<queueVars, schedVars, leaseHeld, leaseId>>

(* The client reads the answer and enters its with-block; it leaves it;    *)
(* and the daemon handles the release it then sends.                       *)
EnterBlock(c) ==
  /\ client[c] = "asking" /\ handler[c] = "granted"
  /\ client' = [client EXCEPT ![c] = "inside"]
  /\ UNCHANGED <<queueVars, schedVars, leaseHeld, leaseId, handler>>

LeaveBlock(c) ==
  /\ client[c] = "inside"
  /\ client' = [client EXCEPT ![c] = "leaving"]
  /\ UNCHANGED <<queueVars, schedVars, leaseHeld, leaseId, handler>>

(* Seeded fault: the released lease stays held.                            *)
ReleaseKeepsHeld(c) ==
  /\ LoopFree
  /\ client[c] = "leaving"
  /\ client' = [client EXCEPT ![c] = "gone"]
  /\ IF leaseId = c
     THEN leaseId' = None /\ UNCHANGED leaseHeld
     ELSE UNCHANGED <<leaseHeld, leaseId>>
  /\ UNCHANGED <<queueVars, schedVars, handler>>

(* _handle_release: nothing happens when the daemon knows the lease under  *)
(* another id by now.                                                      *)
Release(c) ==
  /\ LoopFree
  /\ client[c] = "leaving"
  /\ client' = [client EXCEPT ![c] = "gone"]
  /\ IF leaseId = c
     THEN leaseHeld' = FALSE /\ leaseId' = None /\ notify' = TRUE
     ELSE UNCHANGED <<leaseHeld, leaseId, notify>>
  /\ UNCHANGED <<jobs, clock, schedVars, handler>>

(* A client is killed, or the write of the leases table in its release     *)
(* raises: nobody will release its lease.                                  *)
ClientDies(c) ==
  /\ c \in Mortal
  /\ client[c] \in {"asking", "inside", "leaving"}
  /\ client' = [client EXCEPT ![c] = "gone"]
  /\ UNCHANGED <<queueVars, schedVars, leaseHeld, leaseId, handler>>

-----------------------------------------------------------------------------
SchedulerTask ==
  \/ Wake \/ LeaseWaitOver \/ LoopIdle \/ LoopLeased \/ PopNothing \/ Pop
  \/ EvictDone \/ RunJobCrashes \/ OpenRun \/ RunReturns \/ RunLeavesChild \/ Finish

RunnerTask == Spawn

LeaseTask(c) == PollLease(c) \/ LeaseEvicted(c) \/ LeaseEvictFails(c)

QueueRequest ==
  \/ \E j \in Job, p \in Priority : Submit(j, p)
  \/ \E j \in Job : SubmitNext(j) \/ Bump(j) \/ CancelQueued(j)
  \/ \E i, j \in Job, force \in BOOLEAN : Retry(i, j, force)

LeaseClient(c) ==
  AskLease(c) \/ EnterBlock(c) \/ LeaveBlock(c) \/ Release(c) \/ ClientDies(c)

Next ==
  \/ QueueRequest
  \/ SchedulerTask
  \/ RunnerTask
  \/ ChildExits
  \/ \E j \in Job : StrayExits(j)
  \/ \E c \in Lease : LeaseTask(c) \/ LeaseClient(c)

Spec == Init /\ [][Next]_vars

-----------------------------------------------------------------------------
(* Properties.                                                             *)

(* The jobs that have a live process.                                      *)
Processes == strays \cup {j \in Job : j = job /\ child = "alive"}

(* Jobs run one at a time: the row the table calls starting or running is  *)
(* the one job the scheduler task has taken, and a live child is the child *)
(* of that job while it is the current one (Server._run_job, Queue.pop).   *)
OneActiveJob ==
  /\ \A j \in Active(jobs) : j = job
  /\ child = "alive" => /\ cur = job
                        /\ cur # None
                        /\ jobs[cur].state = "running"

(* "runs them one at a time on the GPU" (the design document): no two jobs *)
(* have a process at the same time (Runner.run against Server._run_job).   *)
OneProcess == \A i, j \in Processes : i = j

(* The scheduler implements the lock of GpuLock: the GPU is the job's from *)
(* its pop to the end of _run_job and the lease's from its grant to its    *)
(* release, and only the owner has a process on it.                        *)
Owner == IF job # None THEN job ELSE leaseId

Users == Processes \cup {c \in Lease : client[c] = "inside"}

Gpu == INSTANCE GpuLock WITH Task <- Job \cup Lease, owner <- Owner, users <- Users

ImplementsGpuLock == Gpu!Spec

(* The GPU has one owner: while a lease client is inside its with-block no *)
(* job has a process, no job is current, and no other client is inside     *)
(* (Server._scheduler against Server._handle_lease).                       *)
LeaseExcludesJobs ==
  \A c \in Lease : client[c] = "inside" =>
    /\ Processes = {} /\ cur = None
    /\ \A d \in Lease : client[d] = "inside" => d = c

(* No wake-up is lost: the scheduler never sleeps in notify.wait() on a    *)
(* cleared event while a row is queued (Queue.enqueue against Queue.pop).  *)
NoLostWakeup == sched = "wait" /\ Queued(jobs) # {} => notify

(* A job that is done, failed or cancelled stays exactly that: neither the *)
(* end of another run nor any request rewrites a settled row.              *)
TerminalIsFinal == [][\A j \in Settled(jobs) : jobs'[j] = jobs[j]]_vars

(* A job that was bumped or submitted with --next is the one the next pop  *)
(* takes, whatever priorities and ties the queue holds                     *)
(* (JobRepo.bump, _handle_submit).                                         *)
FrontMeansNext ==
  [][\A j \in Job : Bump(j) \/ SubmitNext(j) => NextQueued(jobs') = {j}]_vars

(* The position a client has been told stays true until the queue is       *)
(* touched, and then moves by one: the next pop moves every job that waits *)
(* up, and a job that jumps the queue moves back those it overtakes and no *)
(* others, whatever priorities they have (Queue.position against Queue.pop *)
(* and JobRepo.bump: two queries that each sort the table for themselves). *)
PositionsMoveByOne ==
  [][\A j \in Queued(jobs) \cap Queued(jobs') :
       LET back == Position(jobs', j) - Position(jobs, j)
       IN  /\ Pop => back = -1
           /\ \A k \in Job \ {j} :
                /\ SubmitNext(k) => back = 1
                /\ Bump(k) => back = IF Before(jobs, j, k) THEN 1 ELSE 0]_vars
=============================================================================
