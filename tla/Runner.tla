-------------------------------- MODULE Runner --------------------------------
(***************************************************************************)
(* One call of Runner.run (src/gpuq/daemon/runner.py) and the processes it *)
(* deals with: the child, whatever the child has forked, the two pipes     *)
(* they write to, one pump per pipe, and the wait for the exit status.     *)
(*                                                                         *)
(* A pipe is two counters: the lines written to it and those of them its   *)
(* pump has appended to the job's log; the difference is in the pipe.      *)
(* Time is not modelled: a timeout may expire whenever it is armed.        *)
(* Who calls run, when, and for how long it listens, is RunJob's business. *)
(***************************************************************************)
EXTENDS Integers

CONSTANT MaxLines  \* bound on the lines written to each pipe

ASSUME RunnerAssumption == MaxLines \in Nat

VARIABLES
  at,       \* where run() is
  proc,     \* the child
  heard,    \* whether asyncio's child watcher knows that it has exited
  holders,  \* who holds the write end of each pipe
  written,  \* how many lines were written to each pipe
  logged,   \* how many of them are in the log
  pump,     \* where the pump of each pipe is
  log,      \* whether the files of the job's log are open
  rc        \* the exit status run() has returned

runnerVars == <<at, proc, heard, holders, written, logged, pump, log, rc>>

Stream == {"stdout", "stderr"}
Process == {"child", "heir"}

(* "connecting": the child is there and self._proc is not yet;             *)
(* "waiting" and "killed": in the first and second wait_for.               *)
RunPoint == {"idle", "spawning", "connecting", "pumping", "waiting", "killed",
             "returned", "raised"}

RunnerTypeOK ==
  /\ at \in RunPoint
  /\ proc \in {"none", "alive", "zero", "nonzero"}
  /\ heard \in BOOLEAN
  /\ holders \in [Stream -> SUBSET Process]
  /\ written \in [Stream -> 0..MaxLines]
  /\ \A s \in Stream : logged[s] \in 0..written[s]
  /\ pump \in [Stream -> {"none", "reading", "done", "raised"}]
  /\ log \in {"none", "open", "closed"}
  /\ rc \in {"none", "zero", "nonzero"}

RunnerInit ==
  /\ at = "idle"
  /\ proc = "none" /\ heard = FALSE
  /\ holders = [s \in Stream |-> {}]
  /\ written = [s \in Stream |-> 0]
  /\ logged = [s \in Stream |-> 0]
  /\ pump = [s \in Stream |-> "none"]
  /\ log = "none"
  /\ rc = "none"

Exited == proc \in {"zero", "nonzero"}

(* Runner.pid is not None.                                                 *)
PidKnown == proc # "none" /\ at # "connecting"

-----------------------------------------------------------------------------
(* The child and its heirs: processes that it forks inherit its pipes.     *)

Write(s) ==
  /\ holders[s] # {} /\ written[s] < MaxLines
  /\ written' = [written EXCEPT ![s] = @ + 1]
  /\ UNCHANGED <<at, proc, heard, holders, logged, pump, log, rc>>

Fork ==
  /\ proc = "alive"
  /\ holders' = [s \in Stream |-> IF "child" \in holders[s] THEN Process ELSE holders[s]]
  /\ UNCHANGED <<at, proc, heard, written, logged, pump, log, rc>>

ClosePipe(s, p) ==
  /\ p \in holders[s]
  /\ holders' = [holders EXCEPT ![s] = @ \ {p}]
  /\ UNCHANGED <<at, proc, heard, written, logged, pump, log, rc>>

(* A child that run() has sent SIGKILL does not exit with status zero.     *)
ChildExits ==
  /\ proc = "alive"
  /\ proc' \in IF at = "killed" THEN {"nonzero"} ELSE {"zero", "nonzero"}
  /\ holders' = [s \in Stream |-> holders[s] \ {"child"}]
  /\ UNCHANGED <<at, heard, written, logged, pump, log, rc>>

(* The watcher reaps the child, unless it misses its exit.                 *)
Reap ==
  /\ Exited /\ ~heard
  /\ heard' = TRUE
  /\ UNCHANGED <<at, proc, holders, written, logged, pump, log, rc>>

Processes ==
  \/ \E s \in Stream : Write(s) \/ \E p \in Process : ClosePipe(s, p)
  \/ Fork \/ ChildExits \/ Reap

-----------------------------------------------------------------------------
(* run() up to the end of gather().                                        *)

Spawn ==
  /\ at = "spawning"
  /\ at' = "connecting"
  /\ proc' = "alive"
  /\ holders' = [s \in Stream |-> {"child"}]
  /\ UNCHANGED <<heard, written, logged, pump, log, rc>>

SpawnFails ==
  /\ at = "spawning"
  /\ at' = "raised"
  /\ UNCHANGED <<proc, heard, holders, written, logged, pump, log, rc>>

Connected ==
  /\ at = "connecting"
  /\ at' = "pumping"
  /\ pump' = [s \in Stream |-> "reading"]
  /\ UNCHANGED <<proc, heard, holders, written, logged, log, rc>>

(* Seeded fault: the empty line at the end of the pipe is appended too.    *)
PumpEmptyLine(s) ==
  /\ pump[s] = "reading" /\ log = "open"
  /\ logged[s] < written[s] \/ holders[s] = {}
  /\ logged' = [logged EXCEPT ![s] = @ + 1]
  /\ UNCHANGED <<at, proc, heard, holders, written, pump, log, rc>>

(* readline() returns a line and JobLogs.append writes it.                 *)
PumpLine(s) ==
  /\ pump[s] = "reading" /\ logged[s] < written[s] /\ log = "open"
  /\ logged' = [logged EXCEPT ![s] = @ + 1]
  /\ UNCHANGED <<at, proc, heard, holders, written, pump, log, rc>>

(* The line is longer than the reader's limit, or cannot be written, as    *)
(* when run() is over and the log was closed.  gather() passes the first   *)
(* exception on and leaves the other pump running.                         *)
PumpRaises(s) ==
  /\ pump[s] = "reading" /\ logged[s] < written[s]
  /\ pump' = [pump EXCEPT ![s] = "raised"]
  /\ at' = IF at = "pumping" THEN "raised" ELSE at
  /\ UNCHANGED <<proc, heard, holders, written, logged, log, rc>>

PumpEnds(s) ==
  /\ pump[s] = "reading" /\ logged[s] = written[s] /\ holders[s] = {}
  /\ pump' = [pump EXCEPT ![s] = "done"]
  /\ UNCHANGED <<at, proc, heard, holders, written, logged, log, rc>>

(* Seeded fault: the end of one pipe is taken for the end of both.         *)
GatheredOne ==
  /\ at = "pumping" /\ \E s \in Stream : pump[s] = "done"
  /\ at' = "waiting"
  /\ UNCHANGED <<proc, heard, holders, written, logged, pump, log, rc>>

Gathered ==
  /\ at = "pumping" /\ \A s \in Stream : pump[s] = "done"
  /\ at' = "waiting"
  /\ UNCHANGED <<proc, heard, holders, written, logged, pump, log, rc>>

-----------------------------------------------------------------------------
(* The two bounded waits for the exit status.                              *)

WaitReturns ==
  /\ at \in {"waiting", "killed"} /\ heard
  /\ at' = "returned" /\ rc' = proc
  /\ UNCHANGED <<proc, heard, holders, written, logged, pump, log>>

(* TimeoutError of the first wait: SIGKILL, and wait again.                *)
WaitTimesOut ==
  /\ at = "waiting" /\ ~heard
  /\ at' = "killed"
  /\ UNCHANGED <<proc, heard, holders, written, logged, pump, log, rc>>

(* Seeded fault: a child that is given up counts as one that succeeded.    *)
GiveUpAsSuccess ==
  /\ at = "killed" /\ ~heard
  /\ at' = "returned" /\ rc' = "zero"
  /\ UNCHANGED <<proc, heard, holders, written, logged, pump, log>>

(* Seeded fault: the second wait has no timeout.                           *)
GiveUpOnceHeard ==
  /\ at = "killed" /\ heard
  /\ at' = "returned" /\ rc' = "nonzero"
  /\ UNCHANGED <<proc, heard, holders, written, logged, pump, log>>

(* TimeoutError of the second wait: the status is -1.                      *)
GiveUp ==
  /\ at = "killed" /\ ~heard
  /\ at' = "returned" /\ rc' = "nonzero"
  /\ UNCHANGED <<proc, heard, holders, written, logged, pump, log>>

Pumps(s) == PumpLine(s) \/ PumpRaises(s) \/ PumpEnds(s)

Run ==
  \/ Spawn \/ SpawnFails \/ Connected \/ Gathered
  \/ WaitReturns \/ WaitTimesOut \/ GiveUp
=============================================================================
