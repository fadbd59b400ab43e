-------------------------------- MODULE RunJob --------------------------------
(***************************************************************************)
(* One job's way through Server._scheduler and _run_job, with Runner.run   *)
(* and the mirror task as tasks of their own, when an SQL statement may    *)
(* raise (a locked database, a full disk).  In Python a raise goes where   *)
(* the try blocks are: a pop that raises ends the scheduler task, an       *)
(* update in the middle ends the run, the last one is suppressed.  Then    *)
(* doctor (Server._handle_doctor, wedge_signature) is to find what was     *)
(* left behind.                                                            *)
(*                                                                         *)
(* Without failing statements this is Scheduler with one job and no lease, *)
(* whose `child' and `strays' abstract the run: see RunsAsScheduled.       *)
(***************************************************************************)
EXTENDS Runner

CONSTANT Faulty  \* the SQL statements that may raise

(* "pop": Queue.pop; "running" and "pid": the first and second update of   *)
(* the running row; "final": the outcome; "peek": next_queued at the end   *)
(* of _run_job; "except": the update in the scheduler's except clause.     *)
Statement == {"pop", "running", "pid", "final", "peek", "except"}

ASSUME RunJobAssumption == Faulty \subseteq Statement

VARIABLES
  row,        \* the state column of the job's row
  pid,        \* whether the row has a pid
  task,       \* where the scheduler task is
  cur,        \* whether the job is _current_job_id
  ok,         \* whether the run's exit code is 0 and nothing was raised
  mirror,     \* where the mirror task is
  mirrored,   \* how many lines it has published
  eof,        \* the lines ahead of the None in its queue; -1: there is no None
  announced,  \* the outcome that was published on the bus
  raised      \* the statements that have raised

jobVars == <<row, pid, task, cur, ok, mirror, mirrored, eof, announced, raised>>
vars    == <<runnerVars, jobVars>>

Settled == {"done", "failed"}

(* "launch": in the loop that looks for the pid; "await": awaiting the     *)
(* runner; "drain": awaiting the mirror task; "dead": the task has ended.  *)
TaskPoint == {"loop", "wait", "evict", "open", "launch", "await", "drain", "over", "dead"}

Total == logged["stdout"] + logged["stderr"]

TypeOK ==
  /\ RunnerTypeOK
  /\ row \in {"unused", "queued", "starting", "running"} \cup Settled
  /\ pid \in BOOLEAN
  /\ task \in TaskPoint
  /\ cur \in BOOLEAN
  /\ ok \in BOOLEAN
  /\ mirror \in {"none", "created", "following", "ended"}
  /\ mirrored \in 0..Total
  /\ eof \in -1..(2 * MaxLines)
  /\ announced \in {"none"} \cup Settled
  /\ raised \subseteq Faulty

Init ==
  /\ RunnerInit
  /\ row = "unused" /\ pid = FALSE
  /\ task = "loop" /\ cur = FALSE /\ ok = FALSE
  /\ mirror = "none" /\ mirrored = 0 /\ eof = -1
  /\ announced = "none"
  /\ raised = {}

(* A statement raises.                                                     *)
Raise(s) == s \in Faulty /\ raised' = raised \cup {s}

-----------------------------------------------------------------------------
(* From the queue to the runner.                                           *)

Submit ==
  /\ row = "unused" /\ task = "wait"
  /\ row' = "queued"
  /\ UNCHANGED <<runnerVars, pid, task, cur, ok, mirror, mirrored, eof, announced, raised>>

(* notify.wait() suspends, and returns.                                    *)
Idle ==
  /\ task = "loop" /\ row = "unused"
  /\ task' = "wait"
  /\ UNCHANGED <<runnerVars, row, pid, cur, ok, mirror, mirrored, eof, announced, raised>>

Wake ==
  /\ task = "wait" /\ row = "queued"
  /\ task' = "loop"
  /\ UNCHANGED <<runnerVars, row, pid, cur, ok, mirror, mirrored, eof, announced, raised>>

Pop ==
  /\ task = "loop" /\ row = "queued"
  /\ row' = "starting" /\ task' = "evict"
  /\ UNCHANGED <<runnerVars, pid, cur, ok, mirror, mirrored, eof, announced, raised>>

(* The pop is outside the scheduler's try block.                           *)
PopRaises ==
  /\ task = "loop" /\ row = "queued"
  /\ Raise("pop")
  /\ task' = "dead"
  /\ UNCHANGED <<runnerVars, row, pid, cur, ok, mirror, mirrored, eof, announced>>

EvictDone ==
  /\ task = "evict"
  /\ task' = "open"
  /\ UNCHANGED <<runnerVars, row, pid, cur, ok, mirror, mirrored, eof, announced, raised>>

(* evict() or JobLogs.open() raises: the except clause of _scheduler.      *)
RunJobCrashes ==
  /\ task = "open"
  /\ task' = "over"
  /\ \/ row' = "failed" /\ UNCHANGED raised
     \/ Raise("except") /\ UNCHANGED row
  /\ UNCHANGED <<runnerVars, pid, cur, ok, mirror, mirrored, eof, announced>>

(* The log is opened, the job becomes current, and the mirror task and the *)
(* runner's task are created.                                              *)
OpenRun ==
  /\ task = "open"
  /\ log' = "open" /\ cur' = TRUE /\ mirror' = "created"
  /\ row' = "running" /\ task' = "launch" /\ at' = "spawning"
  /\ UNCHANGED <<proc, heard, holders, written, logged, pump, rc,
                 pid, ok, mirrored, eof, announced, raised>>

(* The first update raises: _run_job goes to its finally clause, where the *)
(* None of eof() finds no queue, for the mirror task has yet to begin.     *)
OpenRunRaises ==
  /\ task = "open"
  /\ Raise("running")
  /\ log' = "open" /\ cur' = TRUE /\ mirror' = "created"
  /\ task' = "drain"
  /\ UNCHANGED <<at, proc, heard, holders, written, logged, pump, rc,
                 row, pid, ok, mirrored, eof, announced>>

-----------------------------------------------------------------------------
(* Next to the runner.                                                     *)

(* Tasks begin in the order they were created in, the mirror's first.      *)
RunnerTask ==
  /\ at = "spawning" => mirror # "created"
  /\ Run \/ \E s \in Stream : Pumps(s)
  /\ UNCHANGED jobVars

RecordPid ==
  /\ task = "launch" /\ PidKnown
  /\ pid' = TRUE /\ task' = "await"
  /\ UNCHANGED <<runnerVars, row, cur, ok, mirror, mirrored, eof, announced, raised>>

(* The fifty looks are over.                                               *)
PidTooLate ==
  /\ task = "launch" /\ ~PidKnown
  /\ task' = "await"
  /\ UNCHANGED <<runnerVars, row, pid, cur, ok, mirror, mirrored, eof, announced, raised>>

(* JobLogs.eof, when the mirror task listens.                              *)
Eof == eof' = IF mirror = "following" THEN Total ELSE eof

(* The second update raises: the run is left to itself.                    *)
RecordPidRaises ==
  /\ task = "launch" /\ PidKnown
  /\ Raise("pid")
  /\ task' = "drain" /\ Eof
  /\ UNCHANGED <<runnerVars, row, pid, cur, ok, mirror, mirrored, announced>>

(* run() returns or raises, and the finally clause begins.                 *)
RunOver ==
  /\ task = "await" /\ at \in {"returned", "raised"}
  /\ task' = "drain" /\ Eof
  /\ ok' = (at = "returned" /\ rc = "zero")
  /\ UNCHANGED <<runnerVars, row, pid, cur, mirror, mirrored, announced, raised>>

MirrorStarts ==
  /\ mirror = "created"
  /\ mirror' = "following"
  /\ UNCHANGED <<runnerVars, row, pid, task, cur, ok, mirrored, eof, announced, raised>>

MirrorLine ==
  /\ mirror = "following"
  /\ mirrored < IF eof = -1 THEN Total ELSE eof
  /\ mirrored' = mirrored + 1
  /\ UNCHANGED <<runnerVars, row, pid, task, cur, ok, mirror, eof, announced, raised>>

MirrorEnds ==
  /\ mirror = "following" /\ mirrored = eof
  /\ mirror' = "ended"
  /\ UNCHANGED <<runnerVars, row, pid, task, cur, ok, mirrored, eof, announced, raised>>

-----------------------------------------------------------------------------
(* The rest of the finally clause, once the mirror task is over: the log   *)
(* is closed, the job is not current any more, and two statements follow.  *)

Outcome == IF ok THEN "done" ELSE "failed"

(* Seeded fault: the outcome is published although it was not written.     *)
PublishAnyway(r, a) ==
  \/ r = Outcome /\ a = Outcome /\ UNCHANGED raised
  \/ r = row /\ a = Outcome /\ Raise("final")

(* The outcome is written and published, or else neither.                  *)
WriteOutcome(r, a) ==
  \/ r = Outcome /\ a = Outcome /\ UNCHANGED raised
  \/ r = row /\ a = announced /\ Raise("final")

Finally ==
  /\ task = "drain" /\ mirror = "ended"
  /\ log' = "closed" /\ cur' = FALSE
  /\ task' = "over"
  /\ UNCHANGED <<at, proc, heard, holders, written, logged, pump, rc,
                 pid, ok, mirror, mirrored, eof>>

Finish ==
  /\ Finally
  /\ WriteOutcome(row', announced')

(* next_queued() raises after that, and the except clause of _scheduler    *)
(* writes over the outcome.                                                *)
FinishRaises ==
  /\ Finally
  /\ "peek" \in Faulty
  /\ \E lost \in SUBSET (Faulty \cap {"final", "except"}) :
       /\ row' = IF "except" \notin lost THEN "failed"
                 ELSE IF "final" \in lost THEN row ELSE Outcome
       /\ announced' = IF "final" \in lost THEN announced ELSE Outcome
       /\ raised' = raised \cup {"peek"} \cup lost

-----------------------------------------------------------------------------
(* Doctor.                                                                 *)

(* What pid_alive may say: a child that nobody has reaped still has a pid. *)
PidAlive ==
  IF proc = "alive" THEN {TRUE} ELSE IF Exited /\ ~heard THEN BOOLEAN ELSE {FALSE}

(* wedge_signature, for a job that has run for long enough.                *)
Wedged == row = "running" /\ Total = 0 /\ (pid => FALSE \in PidAlive)

(* Seeded fault: the current job is not spared.                            *)
DoctorFixesAll ==
  /\ Wedged
  /\ row' = "failed"
  /\ UNCHANGED <<runnerVars, pid, task, cur, ok, mirror, mirrored, eof, announced, raised>>

(* doctor --fix                                                            *)
DoctorFix ==
  /\ Wedged /\ ~cur
  /\ row' = "failed"
  /\ UNCHANGED <<runnerVars, pid, task, cur, ok, mirror, mirrored, eof, announced, raised>>
-----------------------------------------------------------------------------
SchedulerTask ==
  \/ Idle \/ Wake \/ Pop \/ PopRaises
  \/ EvictDone \/ RunJobCrashes \/ OpenRun \/ OpenRunRaises
  \/ RecordPid \/ PidTooLate \/ RecordPidRaises \/ RunOver \/ Finish \/ FinishRaises

MirrorTask == MirrorStarts \/ MirrorLine \/ MirrorEnds

Next ==
  \/ Submit
  \/ SchedulerTask
  \/ MirrorTask
  \/ RunnerTask
  \/ Processes /\ UNCHANGED jobVars
  \/ DoctorFix

Spec == Init /\ [][Next]_vars

(* The tasks of the daemon run when they can, and whoever holds a pipe     *)
(* closes it in the end.  The child need not exit, the watcher need not    *)
(* hear of it when it does, and nobody need call the doctor.               *)
Fairness ==
  /\ WF_vars(SchedulerTask) /\ WF_vars(MirrorTask)
  /\ WF_vars((at = "spawning" => mirror # "created") /\ Run /\ UNCHANGED jobVars)
  /\ \A s \in Stream :
       /\ WF_vars(Pumps(s) /\ UNCHANGED jobVars)
       /\ \A p \in Process : WF_vars(ClosePipe(s, p) /\ UNCHANGED jobVars)

FairSpec == Spec /\ Fairness
-----------------------------------------------------------------------------
(* Properties.                                                             *)

(* A job is called done only if its child exited with status zero, every   *)
(* line that it and its heirs wrote is in the log, and the mirror task has *)
(* passed all of them on (Runner.run awaits both pumps to the end of their *)
(* pipes before it waits for the child; _run_job awaits the mirror).       *)
DoneMeansDone ==
  row = "done" => /\ proc = "zero"
                  /\ \A s \in Stream : holders[s] = {} /\ logged[s] = written[s]
                  /\ mirrored = Total

(* What was published is what the table says, as long as nobody looks at   *)
(* the queue in vain after it; and a job that nothing was published of has *)
(* not ended, unless it never was current or its last update was lost      *)
(* (the finally clause of _run_job).                                       *)
AnnouncedAsWritten ==
  /\ announced # "none" /\ "peek" \notin raised => row = announced
  /\ task = "over" /\ announced = "none" => "final" \in raised \/ log = "none"

(* The scheduler task goes on to the next job once the pipes of this one   *)
(* are closed, whether or not its child exits, asyncio hears of that, or a *)
(* statement fails, other than the pop and the update before the spawn     *)
(* (the timeouts in Runner.run; eof() in _run_job).                        *)
SchedulerMovesOn ==
  row = "queued" ~> task = "over" \/ raised \cap {"pop", "running"} # {}

(* A row is settled once, by the end of _run_job, by the except clause or  *)
(* by doctor: doctor never fails a row that the scheduler task is still to *)
(* write, and the task never calls done or failed what doctor has failed,  *)
(* whatever statements are lost (_handle_doctor tests the pid, the log and *)
(* the current job, not where the task is).  That an except clause may     *)
(* write right behind the finally clause is one step: AnnouncedAsWritten   *)
(* speaks about it.                                                        *)
SettledOnce == [][(row \in Settled) => row' = row]_vars

(* While no statement fails, the run is what Scheduler makes of it: its    *)
(* child's states, the end of the run before or after the child's, and the *)
(* outcome (Runner.run under _run_job).                                    *)
AbstractChild ==
  CASE task \in {"loop", "wait", "over", "dead"} -> "none"
    [] task = "drain" -> IF ok THEN "zero" ELSE "nonzero"
    [] OTHER -> IF proc = "none" /\ at = "raised" THEN "nonzero" ELSE proc

Sched ==
  INSTANCE Scheduler WITH
    Job <- {"job"}, Priority <- {0}, None <- "none", Lease <- {}, Mortal <- {},
    MaxPriority <- 0, OllamaInstalled <- TRUE, RunMayLeaveChild <- TRUE,
    jobs <- [j \in {"job"} |-> [state |-> row, priority |-> 0, stamp |-> 0]],
    clock <- IF row = "unused" THEN 0 ELSE 1,
    notify <- row # "unused",
    sched <- CASE task = "await" -> "launch" [] task = "over" -> "loop" [] OTHER -> task,
    job <- IF task \in {"loop", "wait", "over"} THEN "none" ELSE "job",
    cur <- IF cur THEN "job" ELSE "none",
    child <- AbstractChild,
    strays <- {j \in {"job"} : task \in {"drain", "over"} /\ proc = "alive"},
    leaseHeld <- FALSE, leaseId <- "none",
    handler <- [c \in {} |-> "none"], client <- [c \in {} |-> "outside"]

RunsAsScheduled ==
  Sched!Init /\ [][raised' = {} => Sched!Next \/ UNCHANGED Sched!vars]_vars
=============================================================================
