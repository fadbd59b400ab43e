----------------------------- MODULE RunJobProofs -----------------------------
(***************************************************************************)
(* Theorems about RunJob, for any number of lines and any set of           *)
(* statements that may fail, with their proofs.                            *)
(*                                                                         *)
(* The inductive invariant follows the job's way.  RunnerInv is about the  *)
(* processes, the pipes and run() alone.  StageInv says what the control   *)
(* point of the scheduler task means for the row, the runner and the       *)
(* mirror task; MirrorInv what eof() has promised the mirror task; and     *)
(* EndInv what the last statements have left in the row and on the bus.    *)
(***************************************************************************)
EXTENDS RunJob, TLAPS

RunnerInv ==
  /\ at \in {"idle", "spawning"} => proc = "none"
  /\ at \in {"connecting", "pumping", "waiting", "killed", "returned"} => proc # "none"
  /\ at \in {"idle", "spawning", "connecting"} => \A s \in Stream : pump[s] = "none"
  /\ at \in {"waiting", "killed", "returned"} => \A s \in Stream : pump[s] = "done"
  /\ \A s \in Stream : pump[s] = "done" => holders[s] = {} /\ logged[s] = written[s]
  /\ heard => Exited
  /\ rc = "zero" => at = "returned" /\ proc = "zero"

(* The control points before the job is current, and while it is.          *)
Ahead  == {"loop", "wait", "evict", "open", "dead"}
Amidst == {"launch", "await", "drain"}

StageInv ==
  /\ cur <=> task \in Amidst
  /\ task \in Ahead => at = "idle" /\ log = "none" /\ mirror = "none"
  /\ task \in {"loop", "wait"} => row \in {"unused", "queued"}
  /\ task \in {"evict", "open"} => row = "starting"
  /\ task = "dead" => row = "queued" /\ "pop" \in raised
  /\ task \in {"launch", "await"} =>
       row = "running" /\ at # "idle" /\ mirror \in {"created", "following"}
  /\ task = "drain" => row = "running" \/ (row = "starting" /\ "running" \in raised)
  /\ task = "drain" => at \in {"returned", "raised"} \/ raised \cap {"running", "pid"} # {}
  /\ at = "spawning" => task \in {"launch", "await"}
  /\ mirror = "created" => at \in {"idle", "spawning"}

MirrorInv ==
  /\ mirror \in {"none", "created"} => mirrored = 0
  /\ task \notin {"drain", "over"} => eof = -1
  /\ eof <= Total
  /\ eof # -1 => mirrored <= eof
  /\ mirror = "ended" => mirrored = eof
  /\ ok => /\ task \in {"drain", "over"}
           /\ at = "returned" /\ rc = "zero"
           /\ eof = Total

EndInv ==
  /\ announced # "none" => task = "over" /\ ("peek" \in raised \/ row = announced)
  /\ task = "over" /\ announced = "none" => "final" \in raised \/ log = "none"
  /\ task = "over" /\ row \notin Settled => "final" \in raised \/ "except" \in raised
  /\ task = "over" /\ row = "running" => "final" \in raised
  /\ task = "over" => row # "unused"
  /\ row = "done" => task = "over" /\ ok /\ mirror = "ended"

RunInv == TypeOK /\ RunnerInv /\ StageInv /\ MirrorInv /\ EndInv

-----------------------------------------------------------------------------
(* The runner and the processes.                                           *)

LEMMA TotalBound ==
  ASSUME NEW w \in [Stream -> 0..MaxLines], NEW l, \A s \in Stream : l[s] \in 0..w[s]
  PROVE  l["stdout"] + l["stderr"] \in 0..(2 * MaxLines)
<1>1. \A s \in Stream : l[s] \in Nat /\ l[s] <= MaxLines
  BY RunnerAssumption
<1>2. "stdout" \in Stream /\ "stderr" \in Stream
  BY DEF Stream
<1> QED
  BY <1>1, <1>2, RunnerAssumption

(* What a step of run(), of a pump or of the processes may do: the log     *)
(* grows, run() does not go back, and once it has returned it has said all *)
(* there is to say.                                                        *)
RunnerMoves ==
  /\ Total <= Total' /\ log' = log
  /\ at' = "idle" <=> at = "idle"
  /\ at' = "spawning" => at = "spawning"
  /\ at \in {"returned", "raised"} => at' = at
  /\ at = "returned" => rc' = rc /\ Total' = Total

LEMMA RunnerStep ==
  ASSUME RunnerTypeOK, RunnerInv,
         Run \/ (\E s \in Stream : Pumps(s)) \/ Processes
  PROVE  RunnerTypeOK' /\ RunnerInv' /\ RunnerMoves
<1> USE RunnerAssumption DEF RunnerTypeOK, RunnerInv, RunPoint, Exited, RunnerMoves
<1>1. CASE Spawn \/ SpawnFails \/ Connected
  BY <1>1 DEF Spawn, SpawnFails, Connected, Process, Total, Stream
<1>2. CASE Gathered \/ WaitReturns \/ WaitTimesOut \/ GiveUp
  BY <1>2 DEF Gathered, WaitReturns, WaitTimesOut, GiveUp, Total, Stream
<1>3. ASSUME NEW s \in Stream, PumpLine(s)
      PROVE  RunnerTypeOK' /\ RunnerInv' /\ RunnerMoves
  BY <1>3 DEF PumpLine, Total, Stream
<1>4. ASSUME NEW s \in Stream, PumpRaises(s) \/ PumpEnds(s)
      PROVE  RunnerTypeOK' /\ RunnerInv' /\ RunnerMoves
  BY <1>4 DEF PumpRaises, PumpEnds, Total, Stream
<1>5. ASSUME NEW s \in Stream, Write(s)
      PROVE  RunnerTypeOK' /\ RunnerInv' /\ RunnerMoves
  BY <1>5 DEF Write, Total, Stream
<1>6. CASE Fork \/ ChildExits \/ \E s \in Stream, p \in Process : ClosePipe(s, p)
  BY <1>6 DEF Fork, ChildExits, ClosePipe, Process, Total, Stream
<1>7. CASE Reap
  BY <1>7 DEF Reap, Total, Stream
<1> QED
  BY <1>1, <1>2, <1>3, <1>4, <1>5, <1>6, <1>7 DEF Run, Pumps, Processes

(* While the scheduler task and the mirror task stand still.               *)
LEMMA RunnerTaskStep ==
  ASSUME RunInv, RunnerTask \/ (Processes /\ UNCHANGED jobVars)
  PROVE  RunInv'
<1>1. RunnerTypeOK' /\ RunnerInv' /\ RunnerMoves /\ UNCHANGED jobVars
  BY RunnerStep DEF RunInv, TypeOK, RunnerTask
<1>2. Total \in Nat /\ Total' \in Nat
  <2>1. Total \in 0..(2 * MaxLines) /\ Total' \in 0..(2 * MaxLines)
    BY <1>1, TotalBound DEF RunInv, TypeOK, RunnerTypeOK, Total
  <2> QED
    BY <2>1, RunnerAssumption
<1>3. TypeOK'
  BY <1>1, <1>2 DEF RunInv, TypeOK, jobVars, RunnerMoves
<1>4. mirror = "created" => at' \in {"idle", "spawning"}
  <2>1. CASE RunnerTask
    BY <2>1 DEF RunnerTask, RunInv, StageInv, Run, Pumps, Spawn, SpawnFails, Connected, Gathered,
                WaitReturns, WaitTimesOut, GiveUp, PumpLine, PumpRaises, PumpEnds
  <2>2. CASE Processes
    BY <2>2 DEF Processes, Write, Fork, ClosePipe, ChildExits, Reap, RunInv, StageInv
  <2> QED
    BY <2>1, <2>2
<1>5. StageInv'
  BY <1>1, <1>4 DEF RunInv, StageInv, jobVars, RunnerMoves, Ahead, Amidst
<1>6. MirrorInv'
  BY <1>1, <1>2 DEF RunInv, TypeOK, MirrorInv, jobVars, RunnerMoves
<1>7. EndInv'
  BY <1>1 DEF RunInv, EndInv, jobVars, RunnerMoves
<1> QED
  BY <1>1, <1>3, <1>5, <1>6, <1>7 DEF RunInv

-----------------------------------------------------------------------------
(* The scheduler task, the mirror task, submit and doctor.                 *)

(* Before the job is current.                                              *)
LEMMA AheadStep ==
  ASSUME RunInv,
         \/ Submit \/ Idle \/ Wake \/ Pop \/ PopRaises \/ EvictDone \/ RunJobCrashes
  PROVE  RunInv'
<1>1. UNCHANGED <<runnerVars, pid, cur, ok, mirror, mirrored, eof, announced>>
  BY DEF Submit, Idle, Wake, Pop, PopRaises, EvictDone, RunJobCrashes
<1>2. Total' = Total
  BY <1>1 DEF runnerVars, Total
<1>3. RunnerTypeOK' /\ RunnerInv'
  BY <1>1 DEF runnerVars, RunInv, TypeOK, RunnerTypeOK, RunnerInv, Exited
<1>4. TypeOK'
  BY <1>1, <1>2, <1>3
     DEF Submit, Idle, Wake, Pop, PopRaises, EvictDone, RunJobCrashes, Raise, RunInv, TypeOK,
         TaskPoint, Settled
<1>5. StageInv'
  BY <1>1 DEF Submit, Idle, Wake, Pop, PopRaises, EvictDone, RunJobCrashes, Raise, RunInv,
              StageInv, Ahead, Amidst, runnerVars
<1>6. MirrorInv'
  BY <1>1, <1>2
     DEF Submit, Idle, Wake, Pop, PopRaises, EvictDone, RunJobCrashes, RunInv, StageInv,
         MirrorInv, Ahead, runnerVars
<1>7. EndInv'
  BY <1>1 DEF Submit, Idle, Wake, Pop, PopRaises, EvictDone, RunJobCrashes, Raise, RunInv,
              StageInv, EndInv, Ahead, Settled, runnerVars
<1> QED
  BY <1>3, <1>4, <1>5, <1>6, <1>7 DEF RunInv

LEMMA OpenStep ==
  ASSUME RunInv, OpenRun \/ OpenRunRaises
  PROVE  RunInv'
<1>1. task = "open" /\ at = "idle" /\ log = "none" /\ mirror = "none" /\ row = "starting"
  BY DEF OpenRun, OpenRunRaises, RunInv, StageInv, Ahead
<1>2. /\ UNCHANGED <<proc, heard, holders, written, logged, pump, rc>>
      /\ UNCHANGED <<pid, ok, mirrored, eof, announced>>
      /\ log' = "open" /\ cur' = TRUE /\ mirror' = "created"
  BY DEF OpenRun, OpenRunRaises
<1>3. /\ at' \in {"idle", "spawning"}
      /\ \/ /\ at' = "spawning" /\ row' = "running" /\ task' = "launch" /\ raised' = raised
         \/ /\ at' = "idle" /\ row' = row /\ task' = "drain" /\ "running" \in Faulty
            /\ raised' = raised \cup {"running"}
  BY <1>1 DEF OpenRun, OpenRunRaises, Raise
<1>4. Total' = Total
  BY <1>2 DEF Total
<1>5. RunnerTypeOK' /\ RunnerInv'
  BY <1>1, <1>2, <1>3 DEF RunInv, TypeOK, RunnerTypeOK, RunnerInv, Exited, RunPoint
<1>6. TypeOK'
  BY <1>1, <1>2, <1>3, <1>4, <1>5 DEF RunInv, TypeOK, TaskPoint
<1>7. StageInv'
  BY <1>1, <1>2, <1>3 DEF StageInv, Ahead, Amidst
<1>8. MirrorInv'
  BY <1>1, <1>2, <1>3, <1>4 DEF RunInv, MirrorInv
<1>9. EndInv'
  BY <1>1, <1>2, <1>3 DEF RunInv, EndInv, Settled
<1> QED
  BY <1>5, <1>6, <1>7, <1>8, <1>9 DEF RunInv

(* While the job is current; a run that comes to its end is announced to   *)
(* the mirror task, which follows by then.                                 *)
LEMMA AmidstStep ==
  ASSUME RunInv, RecordPid \/ PidTooLate \/ RecordPidRaises \/ RunOver
  PROVE  RunInv'
<1>1. /\ UNCHANGED <<runnerVars, row, cur, mirror, mirrored, announced>>
      /\ task \in {"launch", "await"} /\ task' \in {"await", "drain"}
      /\ eof = -1 /\ ~ok
  BY DEF RecordPid, PidTooLate, RecordPidRaises, RunOver, RunInv, MirrorInv
<1>2. Total' = Total /\ Total \in 0..(2 * MaxLines)
  BY <1>1, TotalBound DEF runnerVars, Total, RunInv, TypeOK, RunnerTypeOK
<1>3. RunnerTypeOK' /\ RunnerInv'
  BY <1>1 DEF runnerVars, RunInv, TypeOK, RunnerTypeOK, RunnerInv, Exited
<1>4. CASE task' = "await"
  <2>1. UNCHANGED <<ok, eof, raised>> /\ pid' \in BOOLEAN
    BY <1>4 DEF RecordPid, PidTooLate, RecordPidRaises, RunOver, RunInv, TypeOK
  <2>2. TypeOK'
    BY <1>1, <1>2, <1>3, <1>4, <2>1 DEF RunInv, TypeOK, TaskPoint
  <2>3. StageInv' /\ MirrorInv' /\ EndInv'
    BY <1>1, <1>2, <1>4, <2>1
       DEF RunInv, StageInv, MirrorInv, EndInv, Ahead, Amidst, runnerVars, Settled
  <2> QED
    BY <1>3, <2>2, <2>3 DEF RunInv
<1>5. CASE task' = "drain"
  <2>1. /\ Eof /\ pid' = pid
        /\ raised' \in {raised, raised \cup {"pid"}} /\ raised' \subseteq Faulty
        /\ at \in {"returned", "raised"} \/ "pid" \in raised'
        /\ at # "spawning" /\ mirror # "created"
        /\ ok' \in BOOLEAN /\ (ok' => at = "returned" /\ rc = "zero")
    <3>1. CASE RecordPidRaises
      BY <1>1, <3>1 DEF RecordPidRaises, Raise, RunInv, TypeOK, RunnerInv, StageInv, PidKnown
    <3>2. CASE RunOver
      BY <3>2 DEF RunOver, RunInv, TypeOK, StageInv
    <3> QED
      BY <1>5, <3>1, <3>2 DEF RecordPid, PidTooLate
  <2>2. mirror = "following" /\ eof' = Total
    BY <1>1, <2>1 DEF Eof, RunInv, StageInv
  <2>3. TypeOK'
    BY <1>1, <1>2, <1>3, <1>5, <2>1, <2>2 DEF RunInv, TypeOK, TaskPoint
  <2>4. StageInv'
    BY <1>1, <1>5, <2>1, <2>2 DEF RunInv, StageInv, Ahead, Amidst, runnerVars
  <2>5. MirrorInv'
    BY <1>1, <1>2, <1>5, <2>1, <2>2 DEF RunInv, TypeOK, MirrorInv, runnerVars
  <2>6. EndInv'
    BY <1>1, <1>5, <2>1 DEF RunInv, EndInv, runnerVars, Settled
  <2> QED
    BY <1>3, <2>3, <2>4, <2>5, <2>6 DEF RunInv
<1> QED
  BY <1>1, <1>4, <1>5

LEMMA MirrorStep ==
  ASSUME RunInv, MirrorTask
  PROVE  RunInv'
<1>1. /\ UNCHANGED <<runnerVars, row, pid, task, cur, ok, eof, announced, raised>>
      /\ mirror \in {"created", "following"} /\ mirror' \in {"following", "ended"}
      /\ task \notin Ahead
  BY DEF MirrorTask, MirrorStarts, MirrorLine, MirrorEnds, RunInv, StageInv
<1>2. Total' = Total /\ Total \in 0..(2 * MaxLines)
  BY <1>1, TotalBound DEF runnerVars, Total, RunInv, TypeOK, RunnerTypeOK
<1>3. RunnerTypeOK' /\ RunnerInv'
  BY <1>1 DEF runnerVars, RunInv, TypeOK, RunnerTypeOK, RunnerInv, Exited
<1>4. mirrored' \in 0..Total /\ (eof # -1 => mirrored' <= eof)
  BY <1>2, RunnerAssumption
     DEF MirrorTask, MirrorStarts, MirrorLine, MirrorEnds, RunInv, TypeOK, MirrorInv
<1>5. mirror' = "ended" => mirrored' = eof /\ eof # -1
  BY DEF MirrorTask, MirrorStarts, MirrorLine, MirrorEnds, RunInv, TypeOK
<1>6. TypeOK'
  BY <1>1, <1>2, <1>3, <1>4 DEF RunInv, TypeOK
<1>7. StageInv' /\ EndInv'
  BY <1>1, <1>5 DEF RunInv, StageInv, MirrorInv, EndInv, Ahead, Amidst, runnerVars
<1>8. MirrorInv'
  BY <1>1, <1>2, <1>4, <1>5 DEF RunInv, MirrorInv, runnerVars
<1> QED
  BY <1>3, <1>6, <1>7, <1>8 DEF RunInv

LEMMA FinallyStep ==
  ASSUME RunInv, Finish \/ FinishRaises
  PROVE  RunInv'
<1>1. Finally
  BY DEF Finish, FinishRaises
<1>2. /\ UNCHANGED <<at, proc, heard, holders, written, logged, pump, rc>>
      /\ UNCHANGED <<pid, ok, mirror, mirrored, eof>>
      /\ task = "drain" /\ mirror = "ended" /\ announced = "none"
      /\ log' = "closed" /\ cur' = FALSE /\ task' = "over"
      /\ row \in {"starting", "running"}
  BY <1>1 DEF Finally, RunInv, StageInv, EndInv
<1>3. Total' = Total
  BY <1>2 DEF Total
<1>4. RunnerTypeOK' /\ RunnerInv'
  BY <1>2 DEF RunInv, TypeOK, RunnerTypeOK, RunnerInv, Exited
<1>5. /\ row' \in {row} \cup Settled /\ announced' \in {"none"} \cup Settled
      /\ raised \subseteq raised' /\ raised' \subseteq Faulty
      /\ announced' # "none" => "peek" \in raised' \/ row' = announced'
      /\ announced' = "none" => "final" \in raised'
      /\ row' = row => "final" \in raised'
      /\ row' = "done" => ok
  BY <1>2 DEF Finish, FinishRaises, WriteOutcome, Outcome, Raise, RunInv, TypeOK, Settled
<1>6. TypeOK'
  BY <1>2, <1>3, <1>4, <1>5 DEF RunInv, TypeOK, TaskPoint, Settled
<1>7. StageInv'
  BY <1>2, <1>5 DEF RunInv, StageInv, Ahead, Amidst
<1>8. MirrorInv'
  BY <1>2, <1>3 DEF RunInv, MirrorInv
<1>9. EndInv'
  BY <1>2, <1>5 DEF EndInv, Settled
<1> QED
  BY <1>4, <1>6, <1>7, <1>8, <1>9 DEF RunInv

(* The doctor settles a row only when the scheduler task has done with it. *)
LEMMA DoctorStep ==
  ASSUME RunInv, DoctorFix
  PROVE  RunInv' /\ task = "over" /\ "final" \in raised
<1>1. /\ UNCHANGED <<runnerVars, pid, task, cur, ok, mirror, mirrored, eof, announced, raised>>
      /\ row = "running" /\ row' = "failed" /\ ~cur
  BY DEF DoctorFix, Wedged
<1>2. task = "over" /\ "final" \in raised
  BY <1>1 DEF RunInv, TypeOK, StageInv, EndInv, TaskPoint, Ahead, Amidst
<1>3. Total' = Total
  BY <1>1 DEF runnerVars, Total
<1>4. RunnerTypeOK' /\ RunnerInv'
  BY <1>1 DEF runnerVars, RunInv, TypeOK, RunnerTypeOK, RunnerInv, Exited
<1>5. TypeOK' /\ MirrorInv'
  BY <1>1, <1>3, <1>4 DEF runnerVars, RunInv, TypeOK, MirrorInv, Settled
<1>6. StageInv' /\ EndInv'
  BY <1>1, <1>2 DEF runnerVars, RunInv, TypeOK, StageInv, EndInv, Ahead, Amidst, Settled
<1> QED
  BY <1>2, <1>4, <1>5, <1>6 DEF RunInv

-----------------------------------------------------------------------------
(* The theorems.                                                           *)

LEMMA RunInvInit == Init => RunInv
<1> SUFFICES ASSUME Init
             PROVE  RunInv
  OBVIOUS
<1>1. /\ at = "idle" /\ proc = "none" /\ heard = FALSE /\ log = "none" /\ rc = "none"
      /\ holders = [s \in Stream |-> {}] /\ pump = [s \in Stream |-> "none"]
      /\ written = [s \in Stream |-> 0] /\ logged = [s \in Stream |-> 0]
  BY DEF Init, RunnerInit
<1>2. RunnerTypeOK /\ RunnerInv
  <2>1. 0 \in 0..MaxLines /\ 0 \in 0..0
    BY RunnerAssumption
  <2>2. written \in [Stream -> 0..MaxLines] /\ \A s \in Stream : logged[s] \in 0..written[s]
    BY <1>1, <2>1
  <2>3. heard \in BOOLEAN
    BY <1>1
  <2>4. RunnerTypeOK
    BY <1>1, <2>2, <2>3 DEF RunnerTypeOK, RunPoint
  <2> QED
    BY <1>1, <2>4 DEF RunnerInv
<1>3. Total = 0
  BY <1>1 DEF Total, Stream
<1>4. TypeOK
  <2>1. 0 \in 0..Total /\ -1 \in -1..(2 * MaxLines)
    BY <1>3, RunnerAssumption
  <2>2. cur \in BOOLEAN /\ ok \in BOOLEAN /\ pid \in BOOLEAN
    BY DEF Init
  <2> QED
    BY <1>2, <2>1, <2>2 DEF Init, TypeOK, TaskPoint
<1>5. StageInv /\ MirrorInv /\ EndInv
  BY <1>1, <1>3 DEF Init, StageInv, MirrorInv, EndInv, Ahead, Amidst
<1> QED
  BY <1>2, <1>4, <1>5 DEF RunInv

LEMMA RunInvStep == RunInv /\ [Next]_vars => RunInv'
<1> SUFFICES ASSUME RunInv, [Next]_vars
             PROVE  RunInv'
  OBVIOUS
<1>1. CASE UNCHANGED vars
  BY <1>1 DEF vars, runnerVars, jobVars, RunInv, TypeOK, RunnerTypeOK, RunnerInv, Exited,
              StageInv, MirrorInv, EndInv, Total
<1> QED
  BY <1>1, AheadStep, OpenStep, AmidstStep, FinallyStep, MirrorStep, RunnerTaskStep, DoctorStep
     DEF Next, SchedulerTask

LEMMA RunInvariant == Spec => []RunInv
BY RunInvInit, RunInvStep, PTL DEF Spec

(* Every reachable state is well typed: in particular no line reaches the  *)
(* log that was not written, and the mirror task never runs ahead of it.   *)
THEOREM RunTypeCorrect == Spec => []TypeOK
<1>1. RunInv => TypeOK
  BY DEF RunInv
<1> QED
  BY <1>1, RunInvariant, PTL

(* A job is called done only when its child exited with status zero, every *)
(* line its processes wrote is in the log and the mirror task has passed   *)
(* them all on, however many there are and whatever statements fail        *)
(* (Runner.run, the finally clause of _run_job).                           *)
THEOREM DoneIsEarned == Spec => []DoneMeansDone
<1>1. RunInv => DoneMeansDone
  BY DEF RunInv, RunnerInv, MirrorInv, EndInv, DoneMeansDone
<1> QED
  BY <1>1, RunInvariant, PTL

(* The table and the bus agree on the outcome unless the queue was looked  *)
(* at in vain, and a job ends unannounced only with its last update lost   *)
(* (the finally clause of _run_job, the except clause of _scheduler).      *)
THEOREM OutcomeIsAnnounced == Spec => []AnnouncedAsWritten
<1>1. RunInv => AnnouncedAsWritten
  BY DEF RunInv, EndInv, AnnouncedAsWritten
<1> QED
  BY <1>1, RunInvariant, PTL

(* Nobody writes a settled row: the task writes a row that is still        *)
(* waiting, starting or running, and doctor one that the task is done with *)
(* (_run_job, the except clause of _scheduler, _handle_doctor).            *)
THEOREM RowsAreSettledOnce == Spec => SettledOnce
<1> DEFINE Kept == row \in Settled => row' = row
<1>1. RunInv /\ [Next]_vars => [Kept]_vars
  <2> SUFFICES ASSUME RunInv, Next, row \in Settled
               PROVE  row' = row
    OBVIOUS
  <2>1. task \notin Ahead \cup Amidst /\ row \notin {"unused", "queued", "starting", "running"}
    BY DEF RunInv, StageInv, Settled, Ahead, Amidst
  <2>2. CASE Submit \/ DoctorFix
    BY <2>1, <2>2 DEF Submit, DoctorFix, Wedged
  <2>3. CASE SchedulerTask
    BY <2>1, <2>3
       DEF Ahead, Amidst, SchedulerTask, Idle, Wake, Pop, PopRaises, EvictDone, RunJobCrashes,
           OpenRun, OpenRunRaises, RecordPid, PidTooLate, RecordPidRaises, RunOver, Finish,
           FinishRaises, Finally
  <2>4. CASE MirrorTask
    BY <2>4 DEF MirrorTask, MirrorStarts, MirrorLine, MirrorEnds
  <2>5. CASE RunnerTask \/ (Processes /\ UNCHANGED jobVars)
    BY <2>5 DEF RunnerTask, jobVars
  <2> QED
    BY <2>2, <2>3, <2>4, <2>5 DEF Next
<1> QED
  BY <1>1, RunInvariant, PTL DEF Spec, SettledOnce

(* What the map to Scheduler sees of a step next to the task: the child.   *)
LEMMA ChildMoves ==
  ASSUME RunInv, RunnerTask \/ (Processes /\ UNCHANGED jobVars)
  PROVE  /\ UNCHANGED <<row, task, cur, ok>>
         /\ \/ UNCHANGED <<AbstractChild, proc>>
            \/ /\ task \in {"launch", "await"}
               /\ AbstractChild = "none" /\ AbstractChild' \in {"alive", "nonzero"}
            \/ proc = "alive" /\ proc' \in {"zero", "nonzero"}
<1>1. UNCHANGED <<row, task, cur, ok>>
  BY DEF RunnerTask, jobVars
<1>2. CASE RunnerTask
  <2>1. CASE Spawn \/ SpawnFails
    BY <1>2, <2>1 DEF Spawn, SpawnFails, RunInv, RunnerInv, StageInv, AbstractChild, RunnerTask,
                      jobVars
  <2>2. CASE Connected \/ Gathered \/ WaitReturns \/ WaitTimesOut \/ GiveUp
    BY <1>1, <2>2 DEF Connected, Gathered, WaitReturns, WaitTimesOut, GiveUp, RunInv, RunnerInv,
                      AbstractChild
  <2>3. ASSUME NEW s \in Stream, Pumps(s)
        PROVE  UNCHANGED <<AbstractChild, proc>>
    BY <1>1, <2>3 DEF Pumps, PumpLine, PumpRaises, PumpEnds, RunInv, RunnerInv, AbstractChild
  <2> QED
    BY <1>1, <1>2, <2>1, <2>2, <2>3 DEF RunnerTask, Run
<1>3. CASE Processes
  <2>1. CASE ChildExits
    BY <1>1, <2>1 DEF ChildExits
  <2>2. CASE ~ChildExits
    BY <1>1, <1>3, <2>2 DEF Processes, Write, ClosePipe, Fork, Reap, AbstractChild
  <2> QED
    BY <2>1, <2>2
<1> QED
  BY <1>2, <1>3

(* While no statement fails, every step of this module is a step of        *)
(* Scheduler with one job and no lease: what JobsAreSerial and its         *)
(* companions say of Scheduler's `child' and `strays' is true of the run   *)
(* in all its detail (Server._run_job over Runner.run).                    *)
THEOREM RunImplementsScheduler == Spec => RunsAsScheduled
<1> DEFINE Obeys == raised' = {} => Sched!Next \/ UNCHANGED Sched!vars
<1>1. Init => Sched!Init
  <2> SUFFICES ASSUME Init
               PROVE  Sched!Init
    OBVIOUS
  <2>1. AbstractChild = "none"
    BY DEF Init, AbstractChild
  <2> QED
    BY <2>1 DEF Init, RunnerInit, Sched!Init, Sched!EmptyTable
<1>2. RunInv /\ RunInv' /\ [Next]_vars => [Obeys]_vars
  <2> SUFFICES ASSUME RunInv, RunInv', Next, raised' = {}
               PROVE  Sched!Next \/ UNCHANGED Sched!vars
    OBVIOUS
  <2>1. CASE Submit
    <3>1. Sched!Submit("job", 0)
      BY <2>1 DEF Submit, Sched!Submit, Sched!LoopFree, Sched!Enqueue, Sched!Insert,
                  Sched!schedVars, Sched!leaseVars, AbstractChild, runnerVars
    <3> QED
      BY <3>1 DEF Sched!Next, Sched!QueueRequest
  <2>2. ASSUME Sched!SchedulerTask
        PROVE  Sched!Next
    BY <2>2 DEF Sched!Next
  <2>3. CASE Idle
    <3>1. Sched!LoopIdle
      BY <2>3 DEF Idle, Sched!LoopIdle, Sched!queueVars, Sched!leaseVars, AbstractChild,
                  runnerVars
    <3> QED
      BY <2>2, <3>1 DEF Sched!SchedulerTask
  <2>4. CASE Wake
    <3>1. Sched!Wake
      BY <2>4 DEF Wake, Sched!Wake, Sched!queueVars, Sched!leaseVars, AbstractChild, runnerVars
    <3> QED
      BY <2>2, <3>1 DEF Sched!SchedulerTask
  <2>5. CASE Pop
    <3>1. proc = "none" /\ at = "idle"
      BY <2>5 DEF Pop, RunInv, RunnerInv, StageInv, Ahead
    <3>2. Sched!Pop
      BY <2>5, <3>1
         DEF Pop, Sched!Pop, Sched!NextQueued, Sched!Queued, Sched!Waiting, Sched!UpdateState,
             Sched!Exists, Sched!leaseVars, AbstractChild, runnerVars
    <3> QED
      BY <2>2, <3>2 DEF Sched!SchedulerTask
  <2>6. CASE EvictDone
    <3>1. Sched!EvictDone
      BY <2>6 DEF EvictDone, Sched!EvictDone, Sched!queueVars, Sched!leaseVars, AbstractChild,
                  runnerVars
    <3> QED
      BY <2>2, <3>1 DEF Sched!SchedulerTask
  <2>7. CASE RunJobCrashes
    <3>1. row = "starting" /\ ~cur /\ proc = "none" /\ at = "idle"
      BY <2>7 DEF RunJobCrashes, RunInv, RunnerInv, StageInv, Ahead, Amidst
    <3>2. Sched!RunJobCrashes
      BY <2>7, <3>1
         DEF RunJobCrashes, Raise, Sched!RunJobCrashes, Sched!UpdateState, Sched!Exists,
             Sched!leaseVars, AbstractChild, runnerVars
    <3> QED
      BY <2>2, <3>2 DEF Sched!SchedulerTask
  <2>8. CASE OpenRun
    <3>1. row = "starting" /\ ~cur /\ proc = "none" /\ at = "idle"
      BY <2>8 DEF OpenRun, RunInv, RunnerInv, StageInv, Ahead, Amidst
    <3>2. Sched!OpenRun
      BY <2>8, <3>1
         DEF OpenRun, Sched!OpenRun, Sched!UpdateState, Sched!Exists, Sched!leaseVars,
             AbstractChild
    <3> QED
      BY <2>2, <3>2 DEF Sched!SchedulerTask
  <2>9. CASE RecordPid \/ PidTooLate
    BY <2>9 DEF RecordPid, PidTooLate, Sched!vars, AbstractChild, runnerVars
  <2>10. CASE RunOver
    <3>1. proc = "alive" => ~ok'
      BY <2>10 DEF RunOver, RunInv, RunnerInv
    <3>2. /\ AbstractChild # "none"
          /\ AbstractChild = "alive" => proc = "alive"
          /\ AbstractChild = "nonzero" => ~ok'
      BY <2>10 DEF RunOver, RunInv, TypeOK, RunnerTypeOK, RunnerInv, AbstractChild
    <3>3. CASE AbstractChild = "alive"
      <4>1. Sched!RunLeavesChild
        BY <2>10, <3>1, <3>2, <3>3
           DEF RunOver, Sched!RunLeavesChild, Sched!queueVars, Sched!leaseVars, AbstractChild,
               runnerVars
      <4> QED
        BY <2>2, <4>1 DEF Sched!SchedulerTask
    <3>4. CASE AbstractChild \in {"zero", "nonzero"}
      <4>1. Sched!RunReturns
        BY <2>10, <3>2, <3>4
           DEF RunOver, Sched!RunReturns, Sched!queueVars, Sched!leaseVars, AbstractChild,
               runnerVars
      <4> QED
        BY <2>2, <4>1 DEF Sched!SchedulerTask
    <3> QED
      BY <2>10, <3>2, <3>3, <3>4 DEF RunOver, AbstractChild, RunInv, TypeOK, RunnerTypeOK
  <2>11. CASE Finish
    <3>1. row = "running" /\ raised = {}
      BY <2>11 DEF Finish, Finally, WriteOutcome, Raise, RunInv, StageInv
    <3>2. Sched!Finish
      BY <2>11, <3>1
         DEF Finish, Finally, WriteOutcome, Outcome, Raise, Sched!Finish, Sched!UpdateState,
             Sched!Exists, Sched!leaseVars, AbstractChild
    <3> QED
      BY <2>2, <3>2 DEF Sched!SchedulerTask
  <2>12. CASE MirrorTask
    BY <2>12 DEF MirrorTask, MirrorStarts, MirrorLine, MirrorEnds, Sched!vars, AbstractChild,
                 runnerVars
  <2>13. CASE RunnerTask \/ (Processes /\ UNCHANGED jobVars)
    <3>1. UNCHANGED <<row, task, cur, ok>>
      BY <2>13, ChildMoves
    <3>2. CASE UNCHANGED <<AbstractChild, proc>>
      BY <3>1, <3>2 DEF Sched!vars
    <3>3. CASE /\ task \in {"launch", "await"}
               /\ AbstractChild = "none" /\ AbstractChild' \in {"alive", "nonzero"}
      <4>1. Sched!Spawn
        BY <3>1, <3>3 DEF Sched!Spawn, Sched!queueVars, Sched!leaseVars
      <4> QED
        BY <4>1 DEF Sched!Next, Sched!RunnerTask
    <3>4. CASE proc = "alive" /\ proc' \in {"zero", "nonzero"} /\ task \in {"launch", "await"}
      <4>1. Sched!ChildExits
        BY <3>1, <3>4 DEF Sched!ChildExits, Sched!queueVars, Sched!leaseVars, AbstractChild
      <4> QED
        BY <4>1 DEF Sched!Next
    <3>5. CASE proc = "alive" /\ proc' \in {"zero", "nonzero"} /\ task \in {"drain", "over"}
      <4>1. Sched!StrayExits("job")
        BY <3>1, <3>5 DEF Sched!StrayExits, Sched!queueVars, Sched!leaseVars, AbstractChild
      <4> QED
        BY <4>1 DEF Sched!Next
    <3>6. proc = "alive" => task \in {"launch", "await", "drain", "over"}
      BY DEF RunInv, TypeOK, TaskPoint, RunnerInv, StageInv, Ahead
    <3> QED
      BY <2>13, ChildMoves, <3>2, <3>3, <3>4, <3>5, <3>6
  <2>14. CASE PopRaises \/ OpenRunRaises \/ RecordPidRaises \/ FinishRaises
    BY <2>14 DEF PopRaises, OpenRunRaises, RecordPidRaises, FinishRaises, Raise
  <2>15. CASE DoctorFix
    BY <2>15, DoctorStep DEF DoctorFix
  <2> QED
    BY <2>1, <2>3, <2>4, <2>5, <2>6, <2>7, <2>8, <2>9, <2>10, <2>11, <2>12, <2>13, <2>14, <2>15
       DEF Next, SchedulerTask
<1> QED
  BY <1>1, <1>2, RunInvariant, PTL DEF Spec, RunsAsScheduled
=============================================================================
