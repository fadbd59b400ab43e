---------------------------- MODULE RequestsProofs ----------------------------
(***************************************************************************)
(* Theorems about Requests, for any number of cancel requests and any      *)
(* prunes, except those that the runs cancel_after_prune and               *)
(* prune_refused_states show to break what is proved here: each theorem    *)
(* names the hypotheses it needs.                                          *)
(***************************************************************************)
EXTENDS Requests, SchedulerProofs

(* No prune names only states that are filtered out.                       *)
PrunesAreSensible == \A named \in PruneStates : Pruned(named) # {}

(* A cancel that waits knows its job; unless the job has ended, its runner *)
(* is still the current one.                                               *)
CancelInv ==
  \A k \in Canceller : Waits(k) => cancel[k].target \in Job /\ (Ended(k) \/ cur = cancel[k].target)

(* What the requests of this module may do to the table.                   *)
DeletesSettledRows ==
  \A j \in Job :
    \/ jobs'[j] = jobs[j]
    \/ /\ j \in Settled(jobs) /\ jobs'[j].state = "deleted"
       /\ QuickPrune \/ \A k \in Canceller : Waits(k) => cancel[k].target # j

-----------------------------------------------------------------------------
LEMMA CancelFrame ==
  ASSUME NEW k \in Canceller, RequestsTypeOK,
         CancelTask(k) \/ \E j \in Job, s \in Signal : CancelRunning(k, j, s)
  PROVE  RequestsTypeOK' /\ UNCHANGED vars
<1> USE DEF RequestsTypeOK
<1>1. UNCHANGED vars
  BY DEF CancelTask, CancelSeesEnd, CancelKills, CancelGivesUp, CancelRunning
<1>2. TypeOK'
  BY <1>1 DEF vars, TypeOK
<1>3. ASSUME NEW s \in Signal, SendSignal(s)
      PROVE  sig' \in Signal \cup {"none"}
  BY <1>3 DEF SendSignal
<1>4. CASE CancelSeesEnd(k) \/ CancelGivesUp(k)
  BY <1>2, <1>4 DEF CancelSeesEnd, CancelGivesUp, Cancel
<1>5. CASE CancelKills(k)
  BY <1>2, <1>3, <1>5 DEF CancelKills, Cancel, Signal
<1>6. ASSUME NEW j \in Job, NEW s \in Signal, CancelRunning(k, j, s)
      PROVE  RequestsTypeOK'
  BY <1>2, <1>3, <1>6 DEF CancelRunning, Cancel
<1> QED
  BY <1>1, <1>4, <1>5, <1>6 DEF CancelTask

(* A sensible prune deletes settled rows only, whatever the cutoff         *)
(* (_handle_prune; find with a list that is not empty).                    *)
LEMMA PruneFrame ==
  ASSUME PrunesAreSensible, NEW named \in PruneStates, RequestsTypeOK, Prune(named)
  PROVE  /\ RequestsTypeOK'
         /\ DeletesSettledRows
         /\ UNCHANGED <<clock, notify, schedVars, leaseVars, cancel, sig>>
<1>1. Found(jobs, Pruned(named)) \subseteq Settled(jobs)
  <2>1. \A j \in Job : jobs[j].state \in State
    BY DEF RequestsTypeOK, TypeOK, Table, Row
  <2>2. Pruned(named) # {} /\ Pruned(named) \cap (Waiting \cup Running) = {}
    BY DEF PrunesAreSensible, Pruned
  <2> QED
    BY <2>1, <2>2 DEF Found, Settled, Exists, State
<1>2. PICK old \in SUBSET Found(jobs, Pruned(named)) :
        /\ QuickPrune \/ \A k \in Canceller : Waits(k) => cancel[k].target \notin old
        /\ jobs' = [j \in Job |-> IF j \in old THEN [jobs[j] EXCEPT !.state = "deleted"]
                                  ELSE jobs[j]]
  BY DEF Prune
<1>3. jobs' \in Table
  <2>1. \A j \in Job : jobs[j] \in Row /\ [jobs[j] EXCEPT !.state = "deleted"] \in Row
    BY DEF RequestsTypeOK, TypeOK, Table, Row, State
  <2> QED
    BY <1>2, <2>1 DEF Table
<1>4. DeletesSettledRows
  <2>1. \A j \in Job : jobs[j] \in Row
    BY DEF RequestsTypeOK, TypeOK, Table
  <2> QED
    BY <1>1, <1>2, <2>1 DEF DeletesSettledRows, Row
<1>5. UNCHANGED <<clock, notify, schedVars, leaseVars, cancel, sig>>
  BY DEF Prune
<1> QED
  BY <1>3, <1>4, <1>5 DEF RequestsTypeOK, TypeOK, schedVars, leaseVars

(* Beneath a step of this module the daemon of Scheduler takes a step.     *)
LEMMA UnderneathFrame ==
  ASSUME RequestsTypeOK, SchedInv, Underneath
  PROVE  RequestsTypeOK' /\ SchedInv' /\ RowMoves /\ UNCHANGED cancel
<1>1. TypeOK /\ Next /\ UNCHANGED cancel
  BY DEF RequestsTypeOK, Underneath
<1>2. sig' \in Signal \cup {"none"}
  BY DEF RequestsTypeOK, Underneath
<1> QED
  BY <1>1, <1>2, TypeNext, SchedInvStep, RowMovesNext DEF RequestsTypeOK

LEMMA RequestsTypeStep ==
  ASSUME PrunesAreSensible
  PROVE  RequestsTypeOK /\ SchedInv /\ [RequestsNext]_requestVars => (RequestsTypeOK /\ SchedInv)'
<1> SUFFICES ASSUME RequestsTypeOK, SchedInv, [RequestsNext]_requestVars
             PROVE  RequestsTypeOK' /\ SchedInv'
  OBVIOUS
<1>1. CASE Underneath
  BY <1>1, UnderneathFrame
<1>2. ASSUME NEW k \in Canceller,
             CancelTask(k) \/ \E j \in Job, s \in Signal : CancelRunning(k, j, s)
      PROVE  RequestsTypeOK' /\ SchedInv'
  BY <1>2, CancelFrame DEF vars, SchedInv, Active
<1>3. ASSUME NEW named \in PruneStates, Prune(named)
      PROVE  RequestsTypeOK' /\ SchedInv'
  <2>1. /\ RequestsTypeOK' /\ UNCHANGED schedVars
        /\ \A j \in Job : jobs'[j] = jobs[j] \/ (j \in Settled(jobs) /\ jobs'[j].state = "deleted")
    BY <1>3, PruneFrame DEF DeletesSettledRows
  <2>2. \A j \in Active(jobs') : j \in Active(jobs)
    BY <2>1 DEF Active, Running
  <2>3. \A j \in Job : jobs[j].state \in {"starting", "running"} => jobs'[j] = jobs[j]
    BY <2>1 DEF Settled, Terminal
  <2> QED
    BY <2>1, <2>2, <2>3 DEF SchedInv, schedVars
<1>4. CASE UNCHANGED requestVars
  BY <1>4 DEF requestVars, vars, RequestsTypeOK, TypeOK, SchedInv, Active
<1> QED
  BY <1>1, <1>2, <1>3, <1>4 DEF RequestsNext

LEMMA RequestsInvariant ==
  ASSUME PrunesAreSensible
  PROVE  RequestsSpec => [](RequestsTypeOK /\ SchedInv)
<1>1. RequestsInit => RequestsTypeOK /\ SchedInv
  BY InitInv DEF RequestsInit, RequestsTypeOK, Cancel, Signal
<1>2. RequestsTypeOK /\ SchedInv /\ [RequestsNext]_requestVars => (RequestsTypeOK /\ SchedInv)'
  BY RequestsTypeStep
<1> QED
  BY <1>1, <1>2, PTL DEF RequestsSpec

-----------------------------------------------------------------------------
(* What becomes of a job that a cancel request waits for.                  *)

(* The current job changes when a run opens or ends, and at its end the    *)
(* row of the job is settled (Server._run_job).                            *)
LEMMA CurrentMoves ==
  ASSUME TypeOK, SchedInv, Next
  PROVE  \/ cur' = cur
         \/ cur = None
         \/ jobs'[cur].state \in {"done", "failed"}
<1>1. CASE QueueRequest
  BY <1>1, RequestFrame DEF schedVars
<1>2. CASE SchedulerTask
  BY <1>2, SchedulerFrame DEF OpenRun, RunJobCrashes, Finish, SchedInv, RunLeavesChild
<1>3. CASE ProcessStep
  BY <1>3 DEF ProcessStep, RunnerTask, Spawn, ChildExits, StrayExits
<1>4. CASE \E c \in Lease : LeaseTask(c) \/ LeaseClient(c)
  BY <1>4, LeaseFrame DEF schedVars
<1> QED
  BY <1>1, <1>2, <1>3, <1>4 DEF Next, ProcessStep

LEMMA CancelInvStep ==
  ASSUME PrunesAreSensible, ~QuickPrune
  PROVE  RequestsTypeOK /\ SchedInv /\ CancelInv /\ [RequestsNext]_requestVars => CancelInv'
<1> SUFFICES ASSUME RequestsTypeOK, SchedInv, CancelInv, [RequestsNext]_requestVars
             PROVE  CancelInv'
  OBVIOUS
<1> USE DEF CancelInv, Waits, Ended
<1>1. CASE Underneath
  <2> SUFFICES ASSUME NEW k \in Canceller, Waits(k)
               PROVE  cancel[k].target \in Job /\ (Ended(k)' \/ cur' = cancel[k].target)
    BY <1>1, UnderneathFrame
  <2>1. cancel[k].target \in Job /\ (Ended(k) \/ cur = cancel[k].target)
    OBVIOUS
  <2>2. UNCHANGED cancel /\ RowMoves /\ TypeOK /\ Next
    BY <1>1, UnderneathFrame DEF RequestsTypeOK, Underneath
  <2>3. CASE Ended(k)
    BY <2>1, <2>2, <2>3 DEF RowMoves, Terminal, Running
  <2>4. CASE cur = cancel[k].target
    BY <2>1, <2>2, <2>4, CurrentMoves, JobTableAssumption DEF Terminal
  <2> QED
    BY <2>1, <2>3, <2>4
<1>2. ASSUME NEW k \in Canceller, CancelTask(k)
      PROVE  CancelInv'
  BY <1>2 DEF CancelTask, CancelSeesEnd, CancelKills, CancelGivesUp, RequestsTypeOK, Cancel, vars
<1>3. ASSUME NEW k \in Canceller, NEW j \in Job, NEW s \in Signal, CancelRunning(k, j, s)
      PROVE  CancelInv'
  BY <1>3 DEF CancelRunning, RequestsTypeOK, Cancel, vars
<1>4. ASSUME NEW named \in PruneStates, Prune(named)
      PROVE  CancelInv'
  BY <1>4, PruneFrame DEF DeletesSettledRows, schedVars
<1>5. CASE UNCHANGED requestVars
  BY <1>5 DEF requestVars, vars
<1> QED
  BY <1>1, <1>2, <1>3, <1>4, <1>5 DEF RequestsNext

-----------------------------------------------------------------------------
(* The theorems.                                                           *)

(* Every reachable state is well typed; prune's mark on the rows it        *)
(* deletes is one of the states (_handle_cancel, _handle_prune).           *)
THEOREM RequestsTypeCorrect ==
  ASSUME PrunesAreSensible
  PROVE  RequestsSpec => []RequestsTypeOK
BY RequestsInvariant, PTL

(* However many cancels of however many jobs are under way, one that still *)
(* waits for its job finds it current when the wait expires, so its second *)
(* signal does not go astray.  Without ~QuickPrune the code breaks it: a   *)
(* deleted row never looks ended (_handle_cancel, _wait_terminal).         *)
THEOREM PendingCancelsAimTrue ==
  ASSUME PrunesAreSensible, ~QuickPrune
  PROVE  RequestsSpec => []PendingCancelAimsAtItsJob
<1>1. RequestsInit => CancelInv
  BY DEF RequestsInit, CancelInv, Waits
<1>2. (RequestsTypeOK /\ SchedInv) /\ CancelInv /\ [RequestsNext]_requestVars => CancelInv'
  BY CancelInvStep
<1>3. CancelInv => PendingCancelAimsAtItsJob
  BY DEF CancelInv, PendingCancelAimsAtItsJob, Waits
<1> QED
  BY <1>1, <1>2, <1>3, RequestsInvariant, PTL DEF RequestsSpec

(* The SIGKILL that follows an expired wait goes to the child of the job   *)
(* that was cancelled (Runner.signal, called through _current_runner).     *)
THEOREM KillsGoToTheirJob ==
  ASSUME PrunesAreSensible, ~QuickPrune
  PROVE  RequestsSpec => CancelKillsOnlyItsJob
<1> DEFINE Aimed == \A k \in Canceller : CancelKills(k) /\ sig' # sig => cur = cancel[k].target
<1>1. RequestsInit => CancelInv
  BY DEF RequestsInit, CancelInv, Waits
<1>2. (RequestsTypeOK /\ SchedInv) /\ CancelInv /\ [RequestsNext]_requestVars => CancelInv'
  BY CancelInvStep
<1>3. CancelInv => [Aimed]_requestVars
  BY DEF CancelInv, Waits, CancelKills
<1> QED
  BY <1>1, <1>2, <1>3, RequestsInvariant, PTL DEF RequestsSpec, CancelKillsOnlyItsJob

(* A cancel is answered ok only when its job has settled and no process of *)
(* it is left, unless Runner.run gave the child up alive (_handle_cancel,  *)
(* _run_job).                                                              *)
THEOREM OkMeansGone ==
  ASSUME PrunesAreSensible, ~RunMayLeaveChild
  PROVE  RequestsSpec => CancelOkMeansGone
<1> DEFINE Gone == \A k \in Canceller : cancel[k].at # "ok" /\ cancel'[k].at = "ok" =>
                     /\ jobs'[cancel[k].target].state \in Terminal
                     /\ cancel[k].target \notin Processes'
<1>1. RequestsInit => NoStrays
  BY DEF RequestsInit, Init, NoStrays
<1>2. (RequestsTypeOK /\ SchedInv) /\ NoStrays /\ [RequestsNext]_requestVars => NoStrays'
  BY NoStraysStep DEF RequestsNext, Underneath, CancelRunning, CancelTask, CancelSeesEnd,
                      CancelKills, CancelGivesUp, Prune, requestVars, vars, schedVars, NoStrays,
                      RequestsTypeOK
<1>3. (RequestsTypeOK /\ SchedInv) /\ NoStrays /\ [RequestsNext]_requestVars
        => [Gone]_requestVars
  <2> SUFFICES ASSUME RequestsTypeOK, SchedInv, NoStrays, [RequestsNext]_requestVars,
                      NEW k \in Canceller, cancel[k].at # "ok", cancel'[k].at = "ok"
               PROVE  jobs'[cancel[k].target].state \in Terminal /\ cancel[k].target \notin Processes'
    OBVIOUS
  <2>1. CancelSeesEnd(k)
    BY DEF RequestsNext, Underneath, CancelRunning, CancelTask, CancelSeesEnd, CancelKills,
           CancelGivesUp, Prune, requestVars, RequestsTypeOK, Cancel
  <2>2. Ended(k) /\ UNCHANGED vars
    BY <2>1 DEF CancelSeesEnd
  <2>3. child = "alive" => jobs[job].state = "running"
    BY DEF RequestsTypeOK, TypeOK, SchedPoint, SchedInv
  <2>4. cancel[k].target \notin Processes
    BY <2>2, <2>3 DEF Ended, Terminal, Processes, NoStrays
  <2> QED
    BY <2>2, <2>4 DEF Ended, vars, Processes
<1> QED
  BY <1>1, <1>2, <1>3, RequestsInvariant, PTL DEF RequestsSpec, CancelOkMeansGone

(* No request and no step of the daemon makes a queued or an active row    *)
(* disappear.  Without PrunesAreSensible the code breaks it: when every    *)
(* state a prune names is filtered out, find() gets no states and finds    *)
(* every row (_handle_prune, JobRepo.find).                                *)
THEOREM UnfinishedRowsStay ==
  ASSUME PrunesAreSensible
  PROVE  RequestsSpec => PruneSparesUnfinishedJobs
<1> DEFINE Spared == \A j \in Queued(jobs) \cup Active(jobs) : Exists(jobs', j)
<1>1. (RequestsTypeOK /\ SchedInv) /\ [RequestsNext]_requestVars => [Spared]_requestVars
  <2> SUFFICES ASSUME RequestsTypeOK, SchedInv, RequestsNext,
                      NEW j \in Queued(jobs) \cup Active(jobs)
               PROVE  Exists(jobs', j)
    BY DEF requestVars
  <2> USE DEF Queued, Active, Waiting, Running, Exists
  <2>1. CASE Underneath
    BY <2>1, UnderneathFrame DEF RowMoves
  <2>2. ASSUME NEW named \in PruneStates, Prune(named)
        PROVE  Exists(jobs', j)
    BY <2>2, PruneFrame DEF DeletesSettledRows, Settled, Terminal
  <2>3. CASE UNCHANGED vars
    BY <2>3 DEF vars
  <2> QED
    BY <2>1, <2>2, <2>3 DEF RequestsNext, CancelRunning, CancelTask, CancelSeesEnd, CancelKills,
                            CancelGivesUp
<1> QED
  BY <1>1, RequestsInvariant, PTL DEF RequestsSpec, PruneSparesUnfinishedJobs
=============================================================================
