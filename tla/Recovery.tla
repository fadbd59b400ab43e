------------------------------ MODULE Recovery ------------------------------
(***************************************************************************)
(* The daemon of Scheduler when it may stop (Server.stop), crash, and be   *)
(* started again (Server.start).  The jobs table is on disk; everything    *)
(* else the daemon knows is gone when it goes down.  Its child may live on *)
(* without it, and so may the clients that hold a lease.                   *)
(***************************************************************************)
EXTENDS Scheduler

CONSTANT MaxDowns  \* bound on how often the daemon goes down

ASSUME RecoveryAssumption == MaxDowns \in Nat

VARIABLES
  phase,  \* of the daemon: it runs, is inside Server.stop, or is no process
  downs   \* how often the daemon has gone down

daemonVars   == <<phase, downs>>
recoveryVars == <<vars, daemonVars>>

RecoveryTypeOK ==
  /\ TypeOK
  /\ phase \in {"up", "stopping", "down"}
  /\ downs \in 0..MaxDowns

RecoveryInit == Init /\ phase = "up" /\ downs = 0

(* Cancelling _run_job where it awaits the runner cancels run() too: at     *)
(* the creation of the child, so that it may or may not be there later, or *)
(* while it waits for a child that nobody signals.                         *)
Abandoned == {j \in Job : j = job /\ sched = "launch" /\ child \in {"none", "alive"}}

-----------------------------------------------------------------------------
(* Going down.                                                             *)

(* SIGTERM: stop() cancels the scheduler task.  A runner being awaited is  *)
(* abandoned with its child, and _run_job goes on to its finally clause;   *)
(* at any other point the task just ends, with what it has written so far. *)
Stop ==
  /\ phase = "up" /\ LoopFree /\ downs < MaxDowns
  /\ phase' = "stopping"
  /\ notify' = TRUE
  /\ IF sched = "launch"
     THEN sched' = "drain" /\ UNCHANGED job
     ELSE sched' = "wait" /\ job' = None
  /\ child' = IF sched = "launch" THEN "nonzero" ELSE "none"
  /\ \E escaped \in SUBSET Abandoned : strays' = strays \cup escaped
  /\ UNCHANGED <<jobs, clock, cur, leaseVars, downs>>

(* The finally clause of the cancelled _run_job: rc is still -1.           *)
StopFinish ==
  /\ phase = "stopping" /\ sched = "drain"
  /\ jobs' = UpdateState(jobs, job, "failed")
  /\ cur' = None
  /\ job' = None
  /\ child' = "none"
  /\ sched' = "wait"
  /\ UNCHANGED <<clock, notify, strays, leaseVars, daemonVars>>

(* The process ends.  A lease that was answered is in its client's hands;  *)
(* a client that still waits reads the end of the stream and fails.        *)
GoDown ==
  /\ phase' = "down"
  /\ downs' = downs + 1
  /\ notify' = FALSE
  /\ sched' = "loop"
  /\ job' = None
  /\ cur' = None
  /\ child' = "none"
  /\ leaseHeld' = FALSE
  /\ leaseId' = None
  /\ handler' = [c \in Lease |-> "none"]
  /\ client' = [c \in Lease |-> IF client[c] # "asking" THEN client[c]
                                ELSE IF handler[c] = "granted" THEN "inside" ELSE "gone"]
  /\ strays' = Processes
  /\ UNCHANGED <<jobs, clock>>

(* The end of stop(): the scheduler task is over.                          *)
Exit == phase = "stopping" /\ sched = "wait" /\ GoDown

(* The daemon is killed, wherever its tasks are.                           *)
Crash == phase # "down" /\ downs < MaxDowns /\ GoDown

-----------------------------------------------------------------------------
(* While it is down, and up again.                                         *)

(* release() finds no daemon and raises in the client.                     *)
LeaveUnheard(c) ==
  /\ phase = "down" /\ client[c] = "leaving"
  /\ client' = [client EXCEPT ![c] = "gone"]
  /\ UNCHANGED <<queueVars, schedVars, leaseHeld, leaseId, handler, daemonVars>>

(* Seeded fault: a job that was only starting is not reconciled.           *)
ReconcileRunning(t) ==
  [j \in Job |-> IF t[j].state = "running" THEN [t[j] EXCEPT !.state = "failed"] ELSE t[j]]

(* Seeded fault: interrupted jobs go back to the queue.                    *)
ReconcileByRequeueing(t) ==
  [j \in Job |-> IF j \in Active(t) THEN [t[j] EXCEPT !.state = "queued"] ELSE t[j]]

(* Seeded fault: reconciliation fails whatever has not succeeded.          *)
ReconcileTooMuch(t) ==
  [j \in Job |-> IF Exists(t, j) /\ t[j].state \notin {"queued", "done"}
                 THEN [t[j] EXCEPT !.state = "failed"] ELSE t[j]]

(* Seeded fault: they get a state of their own, which nobody knows.        *)
ReconcileAsLost(t) ==
  [j \in Job |-> IF j \in Active(t) THEN [t[j] EXCEPT !.state = "lost"] ELSE t[j]]

(* Seeded fault: a child that is not this daemon's is taken to be done.    *)
ReconcileAsDone(t) ==
  [j \in Job |-> IF j \in Active(t)
                 THEN [t[j] EXCEPT !.state = IF @ = "running" THEN "done" ELSE "failed"]
                 ELSE t[j]]

(* _reconcile_on_startup                                                   *)
Reconcile(t) ==
  [j \in Job |-> IF j \in Active(t) THEN [t[j] EXCEPT !.state = "failed"] ELSE t[j]]

(* start(): rows left active are reconciled, and a new Queue, whose event  *)
(* is clear, is handed to a new scheduler task.                            *)
Start ==
  /\ phase = "down"
  /\ phase' = "up"
  /\ jobs' = Reconcile(jobs)
  /\ UNCHANGED <<clock, notify, schedVars, leaseVars, downs>>

-----------------------------------------------------------------------------
(* What the daemon does when it is up or, its tasks but the scheduler's,   *)
(* stopping.                                                               *)
Working ==
  /\ phase = "up"
  /\ SchedulerTask \/ RunnerTask \/ ChildExits
  /\ UNCHANGED daemonVars

Serving ==
  /\ phase # "down"
  /\ \/ QueueRequest
     \/ \E c \in Lease : LeaseTask(c) \/ AskLease(c) \/ EnterBlock(c) \/ Release(c)
  /\ UNCHANGED daemonVars

(* Clients and stray processes need no daemon.                             *)
Alone ==
  /\ \/ \E c \in Lease : LeaveBlock(c) \/ ClientDies(c)
     \/ \E j \in Job : StrayExits(j)
  /\ UNCHANGED daemonVars

RecoveryNext ==
  \/ Working
  \/ Serving
  \/ Alone
  \/ Stop \/ StopFinish \/ Exit \/ Crash \/ Start
  \/ \E c \in Lease : LeaveUnheard(c)

RecoverySpec == RecoveryInit /\ [][RecoveryNext]_recoveryVars

(* The event loop runs every task that is ready; jobs are taken to end and *)
(* lease clients to leave their with-blocks; stop() comes to its end, and  *)
(* a daemon that is down is started again (scripts/gpuq.service restarts   *)
(* one that crashed).  Nobody has to ask for anything.                     *)
RecoveryFairness ==
  /\ WF_recoveryVars(phase = "up" /\ SchedulerTask /\ UNCHANGED daemonVars)
  /\ WF_recoveryVars(phase = "up" /\ RunnerTask /\ UNCHANGED daemonVars)
  /\ WF_recoveryVars(phase = "up" /\ ChildExits /\ UNCHANGED daemonVars)
  /\ \A c \in Lease :
       /\ WF_recoveryVars(phase # "down" /\ LeaseTask(c) /\ UNCHANGED daemonVars)
       /\ WF_recoveryVars(phase # "down" /\ EnterBlock(c) /\ UNCHANGED daemonVars)
       /\ WF_recoveryVars(LeaveBlock(c) /\ UNCHANGED daemonVars)
       /\ WF_recoveryVars(phase # "down" /\ Release(c) /\ UNCHANGED daemonVars)
       /\ WF_recoveryVars(LeaveUnheard(c))
  /\ WF_recoveryVars(StopFinish)
  /\ WF_recoveryVars(Exit)
  /\ WF_recoveryVars(Start)

FairRecoverySpec == RecoverySpec /\ RecoveryFairness
-----------------------------------------------------------------------------
(* Properties.                                                             *)

(* While the daemon is up a row is active only if something can still      *)
(* settle it or is still running for it: it is the scheduler task's, or    *)
(* its process is alive.  A crash or a stop, wherever it comes, leaves no  *)
(* other row behind (Server.start, _reconcile_on_startup).                 *)
LostRowsAreSettled == phase = "up" => \A j \in Active(jobs) : j = job \/ j \in strays

(* As long as a job has a process, be it that of the runner, one that its  *)
(* run gave up or one that outlived a daemon, the job is running or failed *)
(* and nobody is told that it is done, cancelled or yet to be started      *)
(* (_reconcile_on_startup, the finally clause of _run_job).                *)
NoProcessIsDone == \A j \in Processes : jobs[j].state \in {"running", "failed"}

(* "On restart the daemon scans jobs for state=running rows, checks the    *)
(* pid, and reconciles (... running if still alive ...)" (the design       *)
(* document): a job whose process has survived the daemon stays running.   *)
SurvivorsStayRunning ==
  [][Start => \A j \in strays :
       jobs[j].state = "running" => jobs'[j].state = "running"]_recoveryVars

(* A job is started at most once: whatever goes down and comes up, a row   *)
(* that has left the queue never gets back into it, so a job that has left  *)
(* a stray process behind is not run a second time (Server.start).         *)
NeverRequeued ==
  [][\A j \in Job : jobs[j].state \notin {"unused", "queued"} =>
       jobs'[j].state # "queued"]_recoveryVars

(* A settled row stays what it is through crashes, stops and restarts too. *)
TerminalIsFinalAcrossRestarts ==
  [][\A j \in Settled(jobs) : jobs'[j] = jobs[j]]_recoveryVars

(* Every job that was taken from the queue settles, be the daemon killed   *)
(* at any point of _run_job.                                               *)
EveryActiveJobSettles == \A j \in Job : j \in Active(jobs) ~> j \in Settled(jobs)

(* A lease is held that nobody will release.                               *)
OrphanedLease == leaseHeld /\ \E c \in Lease : leaseId = c /\ client[c] = "gone"

(* The daemon has come up with rows in the queue, and nothing wakes its    *)
(* scheduler task.                                                         *)
AsleepSinceRestart == downs > 0 /\ ~notify /\ Queued(jobs) # {}

(* Every queued job settles, run or cancelled, through stray processes,    *)
(* leases, stops and crashes: nothing stands in its way for ever but the   *)
(* lease of a client that has died (_handle_lease grants leases without an *)
(* expiry, also to a client that is not there any more) and the event of a *)
(* new Queue, which is clear although rows are queued (Server.start).      *)
EveryJobSettles ==
  \/ <>[]OrphanedLease
  \/ <>[]AsleepSinceRestart
  \/ \A j \in Job : j \in Queued(jobs) ~> j \in Settled(jobs)

(* Every lease request is answered, or its client has given up; only the   *)
(* lease of a client that has died stands in its way (_handle_lease,       *)
(* _handle_release).                                                       *)
EveryLeaseAnswered ==
  <>[]OrphanedLease \/ \A c \in Lease : client[c] = "asking" ~> client[c] # "asking"

(* "runs it when the GPU is free" (README.md): every queued job settles,   *)
(* those that were queued when the daemon went down included.              *)
EveryJobSettlesDespiteRestarts ==
  \A j \in Job : j \in Queued(jobs) ~> j \in Settled(jobs)
=============================================================================
