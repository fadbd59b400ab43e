# A verification project for gpuq

gpuq is a single-GPU job scheduler: a daemon on one asyncio event loop takes
requests over a Unix socket, keeps its jobs in an SQLite table and runs them one
at a time; Python programs can take the GPU for themselves with `gpuq.lease()`.
This directory holds TLA+ modules translated from its source, TLC runs that
check them on small instances, and TLAPS proofs for any number of jobs and
leases. `PROJECT.json` maps each definition to the lines it models and lists the
runs, the seeded faults, the findings and the hazards.

## The system

| component | source (`src/gpuq/`) | state | operations |
| --- | --- | --- | --- |
| job table and queue | `state.py`, `daemon/queue.py` | `jobs` rows on disk (state, priority, submission time, ...), `Queue.notify` | insert, update_state, bump, delete, next_queued, find; enqueue, pop, cancel, position |
| scheduler task | `daemon/server.py` `_scheduler`, `_run_job` | `_current_job_id`, `_current_runner` | wait, pop, evict ollama, run, drain the mirror, write the outcome |
| leases | `_handle_lease`, `_handle_release`, `lease.py` | `_lease_held`, `_lease_id` | grant, release; the client's with-block |
| runner | `daemon/runner.py` | the child process | spawn, pump output, wait, signal |
| event stream | `Bus`, `logs.py`, `_stream_until_terminal`, `_handle_attach` | one queue per subscriber, log files, the mirror's queue | publish, close, append, follow, read_all, tail |
| lifecycle | `start`, `stop`, `_reconcile_on_startup`, `daemon/main.py` | whether the daemon runs | start, stop on SIGTERM, crash |
| cancel, prune, retry, bump | handlers of `server.py` | the table | signal and wait; delete old rows; resubmit; move to the front |
| doctor | `_handle_doctor`, `wedge_signature` | the table | fail running rows that look dead |
| ollama | `ollama.py` | none of its own | evict, restore (does nothing) |
| estimates | `recent_mean_runtime`, `_compute_eta`, `position` | none | numbers for status lines |
| protocol, CLI, ids, paths | `protocol.py`, `cli.py`, `ids.py`, `paths.py` | none | encoding, rendering, names |

How they interact. Every request is a task on the daemon's loop; so are the
scheduler, the mirror and the runner. They share the table, `notify`, the current
job and the lease without locks, and are kept apart only by running until they
really suspend. `await ollama.evict()` suspends when the `ollama` command exists
and does not when it is missing (`create_subprocess_exec` raises at once), and much
depends on that. The children of jobs and the clients of leases are processes of
their own, which live on when the daemon goes.

What is hard: a check before an `await` and its use after it (leases against
jobs, cancel against the next job); an event that must be set whenever there is
work; rows left behind by a crash; the end of a job racing its output, its cancel
and its prune; runs that end before their child does.

What makes each part correct: one active row and one process at a time; a lease
excludes jobs and leases; nobody sleeps on a queued job; settled rows stay; bumped
jobs are next; a restart settles what was active and runs nothing twice; a cancel
hits its own job and `ok` means it is gone; prune keeps unfinished jobs; a client is
told the outcome after all of the output, and its stream ends; a job is called done
only when its child has succeeded and all of its output is in the log; the scheduler
gets past any job, and doctor settles what nobody else will.

## The modules

| module | what it models |
| --- | --- |
| `JobTable` | the table as a function from job ids to rows, and the SQL statements as operators on it |
| `Scheduler` (extends `JobTable`) | the scheduler task, the current job's child, lease handlers and clients, and the requests that touch the queue |
| `GpuLock` | the abstract lock that the design document promises: one owner at a time, and only the owner uses the GPU |
| `Recovery` (extends `Scheduler`) | stop, crash, restart and reconciliation under all of it |
| `Requests` (extends `Scheduler`) | cancel of a running job as a task of its own, and prune |
| `JobStream` | one job's events from the runner's log to the clients that submitted or attached |
| `Runner` | one call of `Runner.run`: the child and its heirs, two pipes, a pump for each, the two bounded waits |
| `RunJob` (extends `Runner`) | one job through `_scheduler` and `_run_job` with the runner and the mirror as tasks, SQL statements that raise, and doctor; refines `Scheduler` |
| `SchedulerProofs`, `QueueProofs` | theorems about `Scheduler` and their proofs; the second one those that count positions |
| `RecoveryProofs`, `RequestsProofs` | theorems about `Recovery` and `Requests`, on top of `SchedulerProofs` |
| `RunJobProofs` | theorems about `RunJob`, among them that it refines `Scheduler` |
| `JobStreamProofs` | theorems about `JobStream` |
| `MCScheduler`, `MCRecovery`, `MCRequests`, `MCJobStream`, `MCRunJob` | values for the constants |

**State.** A row keeps its state, its priority and a stamp for submission order; the
wall clock is taken not to step back between two submissions. `"unused"` and
`"deleted"` are ids without a row. `sched` is the place where `_scheduler`/`_run_job`
is suspended (or, in `"loop"` and `"open"`, running: then `LoopFree` forbids every
other handler to take a step). `job` is its local variable, `cur` stands for
`_current_job_id` and `_current_runner`, `child` for what became of the runner's
process, `strays` for processes nobody awaits any more. `child` is `"nonzero"` too when
the run raised or missed the exit, whatever the child's status was. `handler[c]` and `client[c]`
are the daemon's and the client's end of one `lease()` call.

**Actions.** One action is one stretch between two suspensions: `Pop` is
`Queue.pop` up to the suspension in `evict()`; `OpenRun` opens the log, makes the job
current and marks it running; `Finish` is the `finally` clause; `PollLease` is the
handler's loop condition and, without ollama, the grant right after it. The second
`update_state` of a run, which records the pid, writes the state the row already has
and is left out. `restore()` is a no-op in the code, so `Finish` does not call it. The definitions under "Seeded fault"
are plausible bugs: each is put in place of the definition after it and the
property named in `PROJECT.json` must fail. No specification uses them.

**Constants.** `OllamaInstalled` decides whether `evict()` suspends (and may then
raise); `RunMayLeaveChild` whether `Runner.run` may end with its child alive (a pump
that raises, a child that outlives SIGKILL); `Mortal` which clients may die without
releasing; `QuickPrune` whether a prune's cutoff may reach a job that ended while a
cancel still polls it; `OpenMayFail` whether a job may fail before it is open.

**Recovery.** A crash may come at any step. The table stays; everything in memory is
as in `Init`; children become strays and may exit at any time (under systemd's default
`KillMode` at once, without it whenever they like). `Stop` cancels the scheduler task:
while it awaits the runner, `run()` is cancelled with it and the `finally` clause still runs
(`StopFinish`); at any other point it just ends. Nobody signals the child, so it may live on
(`Abandoned`), also one that was only being created. `Start` reconciles and starts a scheduler whose event is
clear.

**Requests.** `CancelRunning` signals and begins to wait; `CancelSeesEnd`,
`CancelKills` and `CancelGivesUp` are what the poll or its timeout leads to, and a
timeout may expire at any time. A prune deletes any nonempty set of the rows its
query finds, since the cutoff, `keep_tag` and `dry_run` can leave any of them out.

**JobStream.** A submit and two viewers have a queue each (`inbox`); `got` is
what their handlers have written to them. `lines` is the log, `mirrored` how much of
it the mirror has published, `eof` how long it was at `JobLogs.eof`, where the mirror ends.
When `run()` raises because one pump did, the other may go on (`run = "leaking"`) until the
log is closed: what it appends is past `eof`, in the log and in no stream. Before the
running event a client may be told that models were evicted (`Evicted`). How the job gets
its turn is abstracted to `Take`. A client in `MayHangUp` may close its connection while it is served; its handler finds out at a
write (`StreamBreaks`) or in the `drain()` after the history (`HistoryBreaks`), and until
then its queue fills. `_handle_attach` reaches the `try` that unsubscribes only after that
`drain()`, so `HistoryBreaks` leaves the queue on the bus, as the code does.

**Runner.** `at` is where `run()` is suspended, `proc` the child, `heard` whether
asyncio's watcher knows of its exit. A pipe is `written[s]` and `logged[s]`; `holders[s]`
are the processes with its write end, which a forked heir shares. A pump reads to the end
of its pipe (nothing left and nobody holds it) or raises; `gather()` passes the first
exception on and leaves the other pump running, even after the log was closed. Timeouts
may expire whenever they are armed.

**RunJob.** The scheduler task, the mirror task and the runner's task interleave; tasks
start in the order they were created in. `Raise(s)` is an SQL statement of `Faulty` that
raises: the pop ends the scheduler task (`PopRaises`), the first update leaves
`_run_job` waiting for a mirror that nobody ends (`OpenRunRaises`: `eof()` finds no queue),
the second leaves the runner to itself (`RecordPidRaises`), the last one is suppressed
(`WriteOutcome`), and `next_queued()` after it sends the job to the except clause
(`FinishRaises`). `DoctorFix` may come at any time. `raised` remembers what has failed,
for the properties only. `PopNothing` is not there: with one job the loop has nothing to
find, and `Scheduler` covers it.

**Positions.** `Position` (in `JobTable`) counts the queued rows that sort before a job.

## The runs

| run | configuration | checks |
| --- | --- | --- |
| `scheduler_safety` | 3 jobs, 2 leases (one client mortal), a cancel, priorities -1..1, no ollama, no strays | `OneActiveJob`, `LeaseExcludesJobs`, `NoLostWakeup`, `ImplementsGpuLock`, `TerminalIsFinal`, `FrontMeansNext`, `PositionsMoveByOne` |
| `recovery` | 2 jobs, 2 leases (one client mortal), one crash or stop (or a crash while it stops), ollama, strays | `LostRowsAreSettled`, `NoProcessIsDone`, `NeverRequeued`, `TerminalIsFinalAcrossRestarts`, `EveryActiveJobSettles`, `EveryJobSettles`, `EveryLeaseAnswered` |
| `requests` | 2 jobs, 2 cancels, prunes naming nothing, one state or mixed states | `PendingCancelAimsAtItsJob`, `CancelOkMeansGone`, `PruneSparesUnfinishedJobs` |
| `job_stream` | a submit, one viewer from the start, one of the tail that may hang up, 2 lines | `SubmitSeesItAll`, `ViewerMissesNothing`, `StreamsEnd` |
| `run_job` | one job, 2 lines per pipe, heirs, missed exits, every statement may raise | `DoneMeansDone`, `AnnouncedAsWritten`, `SchedulerMovesOn`, `SettledOnce`, `RunsAsScheduled` |

Each of them also checks the module's type invariant. `scheduler_safety` checks the properties of
`Scheduler` on `Requests`, so with a cancel request in flight, and `recovery` takes every
action of `Scheduler` that needs ollama or a run that leaves its child. Two or three jobs are enough
for one to run, one to wait and one to overtake; two leases for one to be inside
while another polls or evicts; one crash for it to meet any point of a run, a stop or a lease
(what a second one would meet, the leavings of the first, is what the theorems of
`RecoveryProofs` cover for every number of them); two lines for a viewer to have one in its
history or its queue while the other is unmirrored, or past the end of the mirror; two lines per pipe for one to be in the log, one in the
pipe, and one in the other pipe when its pump raises. `MaxPriority` bounds what bump and `--next` reach (one
that would exceed it is not taken, nothing else changes); `MaxDowns` and `MaxLines`
bound how often the daemon goes down and what a job prints. Job symmetry is used only in runs
without liveness properties, and `Before` never compares ids. Deadlock is not checked:
a system that nobody asks for anything, with all jobs over, may rest.

The runs that end in a violation are disagreements between the code and what its
documents say:

| run | property | what happens |
| --- | --- | --- |
| `lease_race` | `LeaseExcludesJobs` | with ollama, a job is popped while a lease handler is in `evict()`, or two handlers are in it together |
| `stray_child` | `OneProcess` | a run that raises fails its job and leaves the child; the next job starts beside it |
| `restart_stall` | `EveryJobSettlesDespiteRestarts` | the new queue's event is clear and queued rows wait for the next submit |
| `restart_forgets_pid` | `SurvivorsStayRunning` | a restart fails the job of a process that has survived the daemon; the design document (line 216) has it check the pid and keep such a job running |
| `cancel_after_prune` | `CancelKillsOnlyItsJob` | the awaited row is pruned, the wait expires, SIGKILL goes to the next job |
| `prune_refused_states` | `PruneSparesUnfinishedJobs` | naming only `queued` filters down to no condition at all |
| `submit_hangs` | `SubmitReturns` | a job that fails before it is open is announced to nobody |

Their counterparts pass where the cause is absent: the lease property without ollama
and strays, the cancel properties without a quick prune and without strays (a job whose
run has left its child is failed, and a cancel of it answered ok, with the child alive),
the stream property up to `run = "raised"`.

`run_job` says how far each failing statement reaches. `DoneMeansDone` holds whatever
fails. `AnnouncedAsWritten` excepts the `next_queued()` at the end of `_run_job`: when it raises,
the except clause writes failed over a row that was announced as done. `SchedulerMovesOn`
excepts the pop, which ends the scheduler task, and the first update, after which the
task waits for its mirror for ever; nothing else, neither a child that never exits nor a missed
SIGCHLD, holds up the scheduler once the pipes are closed. `SettledOnce` says that doctor and
the task never settle the same row: doctor spares the current job, and a row that looks lost and
is not current is one the task has done with. It may still be the row of a live process: when the
updates of the pid and of the outcome are both lost, doctor fails a job whose silent child is
alive. `RunsAsScheduled` is the refinement: as long as nothing raises, `task`,
`cur`, `row`, the child and the strays follow `Scheduler` with one job, no lease,
`OllamaInstalled` and `RunMayLeaveChild`, so what is proved of `Scheduler` holds
of the detailed run too.

`LostRowsAreSettled` and `NoProcessIsDone` say what a restart keeps of the design document's line
216, whose own promise `restart_forgets_pid` refutes: nobody's row stays active, and no living
process belongs to a job that is done, cancelled or queued. The code settles more than that, and
fails the survivors too.

One more disagreement is modelled as the code has it and has no run of its own: doctor refuses the
current job, while `README.md:52-60` recommends it for a job that hangs without spawning and for one
whose cancel was answered wedged. Both are the current job, so `doctor --fix` says they are fine
until the daemon has gone past them.

**Fairness.** Weak fairness of the scheduler task, the runner's spawn, each lease
handler, the mirror and each stream handler: asyncio runs every task that is ready,
and no action of theirs is disabled by another for ever while it is awaited. Children end and lease clients leave their
blocks by assumption (no code makes them), but for a mortal client, which may die at any time:
a lease never expires, so `EveryJobSettles` and `EveryLeaseAnswered` except behaviours that end with
one held by a dead client (`<>[]OrphanedLease`), and the first also those that end with rows in a
queue whose event is clear after a restart (`<>[]AsleepSinceRestart`, which `restart_stall` shows).
Nobody is taken to submit, cancel or ask for anything. A daemon that is down is started again, as
`scripts/gpuq.service` does after a crash and a user after a stop. In `RunJob` the three tasks
and the pumps run, and whoever holds a pipe closes it in the end; the child need not exit, its
exit need not be heard of, and nobody need call doctor.

## The proofs

TLAPS (SMT, Zenon, and PTL for the temporal steps) proves the following for any sets
of jobs, leases, cancels and viewers, any integer priorities, any number of lines, any set
of failing statements and any bound:

| theorem | statement |
| --- | --- |
| **`SchedulerProofs`** | |
| `TypeCorrect` | `Spec => []TypeOK` |
| `JobsAreSerial` | `Spec => []OneActiveJob` |
| `WakeupsAreKept` | `Spec => []NoLostWakeup` |
| `LeaseIsExclusive` | `Spec => []LeaseExcludesJobs`, assuming `~OllamaInstalled` and `~RunMayLeaveChild` |
| `SchedulerImplementsGpuLock` | `Spec => ImplementsGpuLock`, under the same assumptions |
| `SettledRowsStay` | `Spec => TerminalIsFinal` |
| `FrontIsNext` | `Spec => FrontMeansNext` |
| **`QueueProofs`** | |
| `HeadHasPositionOne` | `Spec => []HeadIsFirst` |
| `PositionsMoveAsSaid` | `Spec => PositionsMoveByOne` |
| **`RecoveryProofs`** | |
| `RecoveryTypeCorrect` | `RecoverySpec => []RecoveryTypeOK` |
| `LostRowsSettle` | `RecoverySpec => []LostRowsAreSettled` |
| `ProcessesAreOfRunningOrFailed` | `RecoverySpec => []NoProcessIsDone` |
| `NothingIsRequeued` | `RecoverySpec => NeverRequeued` |
| `SettledRowsOutlive` | `RecoverySpec => TerminalIsFinalAcrossRestarts` |
| **`RequestsProofs`** | all of them assuming `PrunesAreSensible` |
| `RequestsTypeCorrect` | `RequestsSpec => []RequestsTypeOK` |
| `PendingCancelsAimTrue` | `RequestsSpec => []PendingCancelAimsAtItsJob`, assuming `~QuickPrune` |
| `KillsGoToTheirJob` | `RequestsSpec => CancelKillsOnlyItsJob`, assuming `~QuickPrune` |
| `OkMeansGone` | `RequestsSpec => CancelOkMeansGone`, assuming `~RunMayLeaveChild` |
| `UnfinishedRowsStay` | `RequestsSpec => PruneSparesUnfinishedJobs` |
| **`JobStreamProofs`** | |
| `StreamTypeCorrect` | `Spec => []TypeOK` |
| `SubmitIsSentItAll` | `Spec => []SubmitSeesItAll` |
| `NoLineIsMissed` | `Spec => []ViewerMissesNothing` |
| `SubmitIsNeverForgotten` | `Spec => []EndingIsQueued` |
| **`RunJobProofs`** | |
| `RunTypeCorrect` | `Spec => []TypeOK` |
| `DoneIsEarned` | `Spec => []DoneMeansDone` |
| `OutcomeIsAnnounced` | `Spec => []AnnouncedAsWritten` |
| `RowsAreSettledOnce` | `Spec => SettledOnce` |
| `RunImplementsScheduler` | `Spec => RunsAsScheduled` |

**Assumptions.** The modules' own ASSUMEs say that priorities are integers, bounds are natural
numbers, and jobs, leases and `None` are distinct; TLC evaluates them in every run. The other
hypotheses stand in the theorems, and each is the absence of a cause that a run
shows to break the property: `~OllamaInstalled` (`lease_race`), `~RunMayLeaveChild`
(`stray_child`), `~QuickPrune` (`cancel_after_prune`) and `PrunesAreSensible`, which says that
every prune keeps a state to look for (`prune_refused_states`). The passing runs satisfy them.

**Scheduler.** `OneActiveJob` is not inductive: that a child belongs to the current job needs
to know where the scheduler task is. `SchedInv` says so for each control point, and that
the only active row is `job`'s. `TypeOK` is inductive only with it, since `UpdateState(jobs, job,
...)` needs `job` to be a job. `NoLostWakeup` speaks about a sleeping scheduler only; `WakeInv`
drops that condition, for the event must be set before the scheduler goes to sleep.
`LeaseInv` says that nobody is evicting, that a held lease confines the scheduler task to
the points where it has no job, and that the one client that was granted and has not gone is
the one the daemon knows as `_lease_id`. `NoStrays` is what `~RunMayLeaveChild` gives. The
frame lemmas (`RequestFrame`, `SchedulerFrame`, `LeaseFrame`) say once what each group of
actions may do to the table, `RowMoves` what any step may do to a row, and the theorems about
steps follow, here and in the modules on top. For the refinement `Pop` and `PollLease` map to
`Acquire`, `Spawn` and `EnterBlock` to `Begin`, the child's exit and `LeaveBlock` to `End`, `Finish`,
`RunJobCrashes` and `Release` to `Release`; every other step stutters.

**Queue.** `FrontIsNext` needs no induction: `FrontPriorityBeats` and `BeatsMeansNext` are facts
about any table. Positions are a count, so they need `QueueInv`: the waiting rows are
finitely many (though `Job` need not be finite), and no two of them have the same stamp,
so `Before` orders them totally. Then `InFrontOf` grows or shrinks by exactly one row.

**Recovery.** `SchedInv` does not survive a stop: a task that was cancelled has no job any more,
while the row it was working on is still active in the table. `DaemonInv` has `SchedInv` while
the daemon is up, what is left of it while it stops, and nothing in memory while it is
down. `Start` restores `SchedInv` because reconciliation leaves no active row. `StrayInv`
says exactly which strays have a row that is not failed yet: the one whose `finally` clause
is still to come, and, while the daemon is stopping or down, those of running rows, which the
next start will fail. `NoProcessIsDone` follows from both, in every phase.

**Requests.** A step is a step of `Scheduler` beneath, or a request, so `SchedInv` is kept by
frame lemmas. `CancelInv` says that a cancel that waits has a job that is current or has
ended; the step that could break it is the end of that job, and `~QuickPrune` keeps an
ended row from being deleted, and so from looking unfinished for ever, before the cancel sees it.

**RunJob.** `RunInv` has a part for each actor: `RunnerInv` (a pump that is done has read a pipe
that is empty and that nobody holds), `StageInv` (what the place of the scheduler task says of
row, runner and mirror task, whatever has failed before), `MirrorInv` (`eof` is never behind
what was mirrored, and that of a run that is `ok` comes after the last line) and `EndInv` (what
the last statements left behind). `DoneMeansDone` needs the runner, the mirror and the end
together, `RowsAreSettledOnce` what `StageInv` says of the rows the task still writes and
that doctor leaves alone.
`RunImplementsScheduler` shows each step to be one of `Scheduler` or a stutter; `ChildMoves` says
what may happen to the child next to the task. The premise `raised' = {}` is the property's own.

**JobStream.** Neither property speaks about the queues, where what is not yet delivered is.
`StreamInv` says of each client that listens that `got \o inbox`, which a delivery does not
change, is a `Passage` (a part of the log, the news of evicted models and of the start if they
came later, the lines mirrored since), followed by the ending if there is one. `JobInv` ties the
mirror's end to `eof` and a log that has grown past it to a run that raised. `Publish` appends to that for all
subscribers at once, and nothing is published after an ending (`OverIsQuiet`). `Attach` starts
a passage whose live part begins at `mirrored`, which is why some lines come twice and none
is missed. A client whose handler is over has been sent all of it up to the verdict: the
first event of its queue that is not plain is the verdict, and then no other is left before it
(`HeadBeforeEnding`).
`EndingIsQueued`, the safety half of `SubmitReturns`, follows too: what a waiting submit has
not been sent of a job that is over and announced contains the verdict.

**Only model-checked.** Everything under fairness, which this prover cannot do:
`EveryJobSettles`, `EveryLeaseAnswered`, `EveryActiveJobSettles`, `StreamsEnd` and
`SchedulerMovesOn`. The violations are TLC's by nature.

## Not modelled

- Estimates: `recent_mean_runtime` and `_compute_eta` are arithmetic on wall-clock
  seconds, printed and never acted on.
- The wire protocol: a JSON codec without state. That a line longer than the stream's
  64 KiB limit raises appears where it matters, as a pump that raises and a client that is gone.
- In `RunJob`: signals from a cancel (`Requests` has them), `min_age_s` (a job is always old
  enough), an append that writes some of the four files and then raises, and failing statements in
  request handlers. Those answer their client with an error, and what they leave behind is
  there already: a submit whose job is queued and has no stream is a detached one, a prune that stops
  half-way a smaller prune, a release that fails before it clears the lease (line 562) `ClientDies`.
- The states and lines of a job are modelled one job at a time in `JobStream` and `RunJob`:
  a job has its own log, mirror and subscribers, and ids are never used twice.
- Output formats, filters of `ps`, tags, environments, ids and paths. The `leases` table is
  written and never read. `gpuq ollama evict` does not touch the daemon's state, and
  `restore()` does nothing.

## Plan

Done in this order: `JobTable`, `Scheduler` with `GpuLock`, `SchedulerProofs`, `Recovery`, `Requests`,
`JobStream`, `Runner` and `RunJob`, hang-ups, mortal clients and positions; then the proofs
of every safety and action property that the passing runs check. What is left:

1. The safety half of the other liveness properties, as invariants to prove: what a viewer that
   attached in time has to come, and which guard holds at each control point that is not at rest.
2. The lease across restarts: what of `LeaseExcludesJobs` is left in `Recovery`.
3. Cancels without `PrunesAreSensible`: which of the four theorems need it.
