------------------------------ MODULE Requests ------------------------------
(***************************************************************************)
(* The requests that reach past the queue: cancel of a job that runs       *)
(* (Server._handle_cancel, _wait_terminal, Runner.signal), which waits,    *)
(* signals and waits again while the scheduler and the other handlers go   *)
(* on, and prune (Server._handle_prune), which deletes rows.               *)
(***************************************************************************)
EXTENDS Scheduler

CONSTANTS
  Canceller,    \* the cancel requests, each of them sent at most once
  PruneStates,  \* the sets of states that prune requests name
  QuickPrune    \* whether prune's cutoff may be so recent that it reaches a
                \* job which ended while a cancel request still waits for it

ASSUME RequestsAssumption ==
  /\ PruneStates \subseteq SUBSET State
  /\ QuickPrune \in BOOLEAN

VARIABLES
  cancel,  \* where each _handle_cancel task is, and its job and signal
  sig      \* the strongest signal the current child has been sent

requestVars == <<vars, cancel, sig>>

Signal == {"TERM", "KILL"}

(* "first" and "second": in the first and second call of _wait_terminal;   *)
(* the others are the answers: ok, wedged, and an exception.               *)
Cancel == [at : {"idle", "first", "second", "ok", "wedged", "error"},
           target : Job \cup {None}, signal : Signal]

RequestsTypeOK ==
  /\ TypeOK
  /\ cancel \in [Canceller -> Cancel]
  /\ sig \in Signal \cup {"none"}

RequestsInit ==
  /\ Init
  /\ cancel = [k \in Canceller |-> [at |-> "idle", target |-> None, signal |-> "TERM"]]
  /\ sig = "none"

-----------------------------------------------------------------------------
(* Cancel of a running job.                                                *)

(* Runner.signal: nothing is sent to a child that is not there yet, or not *)
(* any more.                                                               *)
SendSignal(s) == sig' = IF child # "alive" THEN sig ELSE IF sig = "KILL" THEN sig ELSE s

(* Seeded fault: any active job will do, also one that is only starting.   *)
CancelStarting(k, j, s) ==
  /\ LoopFree
  /\ cancel[k].at = "idle"
  /\ j \in Active(jobs)
  /\ SendSignal(s)
  /\ cancel' = [cancel EXCEPT ![k] = [at |-> "first", target |-> j, signal |-> s]]
  /\ UNCHANGED vars

(* The job must be the current one, and its runner is signalled.           *)
CancelRunning(k, j, s) ==
  /\ LoopFree
  /\ cancel[k].at = "idle"
  /\ j \in Active(jobs) /\ cur = j
  /\ SendSignal(s)
  /\ cancel' = [cancel EXCEPT ![k] = [at |-> "first", target |-> j, signal |-> s]]
  /\ UNCHANGED vars

Waits(k) == cancel[k].at \in {"first", "second"}

Ended(k) == jobs[cancel[k].target].state \in Terminal

(* Seeded fault: an expired wait is taken for the end of the job.          *)
CancelTrustsTimeout(k) ==
  /\ LoopFree
  /\ Waits(k)
  /\ cancel' = [cancel EXCEPT ![k].at = "ok"]
  /\ UNCHANGED <<vars, sig>>

(* _wait_terminal returns True.                                            *)
CancelSeesEnd(k) ==
  /\ LoopFree
  /\ Waits(k) /\ Ended(k)
  /\ cancel' = [cancel EXCEPT ![k].at = "ok"]
  /\ UNCHANGED <<vars, sig>>

(* The first wait is over: whatever runner is the current one by now is    *)
(* sent SIGKILL.                                                           *)
CancelKills(k) ==
  /\ LoopFree
  /\ cancel[k].at = "first" /\ ~Ended(k) /\ cancel[k].signal # "KILL"
  /\ IF cur = None
     THEN cancel' = [cancel EXCEPT ![k].at = "error"] /\ UNCHANGED sig
     ELSE cancel' = [cancel EXCEPT ![k].at = "second"] /\ SendSignal("KILL")
  /\ UNCHANGED vars

CancelGivesUp(k) ==
  /\ LoopFree
  /\ \/ cancel[k].at = "first" /\ cancel[k].signal = "KILL"
     \/ cancel[k].at = "second"
  /\ ~Ended(k)
  /\ cancel' = [cancel EXCEPT ![k].at = "wedged"]
  /\ UNCHANGED <<vars, sig>>

CancelTask(k) == CancelSeesEnd(k) \/ CancelKills(k) \/ CancelGivesUp(k)

-----------------------------------------------------------------------------
(* Prune.                                                                  *)

(* Seeded fault: the states asked for are taken as they are.               *)
PrunedUnfiltered(named) == IF named = {} THEN Terminal ELSE named

(* The states whose rows are looked at; naming none means the terminal     *)
(* ones.                                                                   *)
Pruned(named) == (IF named = {} THEN Terminal ELSE named) \ (Waiting \cup Running)

(* JobRepo.find(states=...), to which no states means no condition.        *)
Found(t, states) ==
  {j \in Job : Exists(t, j) /\ (states = {} \/ t[j].state \in states)}

(* Which of the rows found are old enough is up to the cutoff.             *)
Prune(named) ==
  /\ LoopFree
  /\ \E old \in SUBSET Found(jobs, Pruned(named)) :
       /\ old # {}
       /\ QuickPrune \/ \A k \in Canceller : Waits(k) => cancel[k].target \notin old
       /\ jobs' = [j \in Job |-> IF j \in old THEN [jobs[j] EXCEPT !.state = "deleted"]
                                 ELSE jobs[j]]
  /\ UNCHANGED <<clock, notify, schedVars, leaseVars, cancel, sig>>

-----------------------------------------------------------------------------
(* A child that was sent SIGKILL does not exit with status zero, and a new *)
(* runner's child has been sent nothing.                                   *)
Underneath ==
  /\ Next
  /\ sig = "KILL" => child' # "zero"
  /\ sig' = IF cur' = cur THEN sig ELSE "none"
  /\ UNCHANGED cancel

RequestsNext ==
  \/ Underneath
  \/ \E k \in Canceller, j \in Job, s \in Signal : CancelRunning(k, j, s)
  \/ \E k \in Canceller : CancelTask(k)
  \/ \E named \in PruneStates : Prune(named)

RequestsSpec == RequestsInit /\ [][RequestsNext]_requestVars
-----------------------------------------------------------------------------
(* Properties.                                                             *)

(* A cancel request that still waits for its job finds the job's own       *)
(* runner if it goes on to SIGKILL: as long as the job has not ended it is *)
(* the current one (_handle_cancel reads _current_runner a second time     *)
(* after the wait).                                                        *)
PendingCancelAimsAtItsJob ==
  \A k \in Canceller : cancel[k].at = "first" /\ ~Ended(k) => cur = cancel[k].target

(* "if the child doesn't exit within --timeout SIGKILL follows"            *)
(* (README.md): the SIGKILL that follows a wait goes to the child of the   *)
(* job that was cancelled, not to whoever runs by then.                    *)
CancelKillsOnlyItsJob ==
  [][\A k \in Canceller :
       CancelKills(k) /\ sig' # sig => cur = cancel[k].target]_requestVars

(* "returns ok=true only after the state has actually transitioned"        *)
(* (README.md): when a cancel is answered ok its job has ended, and so has *)
(* the job's child.  (Processes the child has forked are not in here.)     *)
CancelOkMeansGone ==
  [][\A k \in Canceller : cancel[k].at # "ok" /\ cancel'[k].at = "ok" =>
       /\ jobs'[cancel[k].target].state \in Terminal
       /\ cancel[k].target \notin Processes']_requestVars

(* "Refuses to prune queued/running" (README.md): no row that is queued or *)
(* active disappears from the table, whatever states a request names.      *)
PruneSparesUnfinishedJobs ==
  [][\A j \in Queued(jobs) \cup Active(jobs) : Exists(jobs', j)]_requestVars
=============================================================================
