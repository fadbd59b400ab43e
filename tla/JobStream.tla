------------------------------ MODULE JobStream ------------------------------
(***************************************************************************)
(* What the clients of one job get to see of it: the submit that waits for *)
(* it and the viewers of `gpuq logs'.  The runner appends the job's lines  *)
(* to its log (JobLogs); the mirror task publishes them on the Bus, where  *)
(* every subscriber has a queue of its own; _stream_until_terminal passes  *)
(* a subscriber's events on to its client.                                 *)
(*                                                                         *)
(* When a pump raises, run() raises while the other pump goes on: what it  *)
(* appends between JobLogs.eof and JobLogs.close is past the None that     *)
(* ends the mirror task, in the log and in no stream.                      *)
(*                                                                         *)
(* How the job comes to be run is the business of Scheduler; here it waits *)
(* in the queue until it is taken or cancelled.                            *)
(***************************************************************************)
EXTENDS Integers, Sequences

CONSTANTS Viewer,       \* attach requests that follow the job...
          FromStart,    \* ...those of them that ask for it from the start
          TailLines,    \* ...and how many of its last lines the others ask for
          MayHangUp,    \* the clients that may close their connection early
          MaxLines,     \* bound on the lines the job prints
          OpenMayFail   \* whether ollama.evict() or JobLogs.open() may raise

ASSUME JobStreamAssumption ==
  /\ FromStart \subseteq Viewer
  /\ MayHangUp \subseteq Viewer \cup {"submit"}
  /\ TailLines \in Nat /\ MaxLines \in Nat
  /\ OpenMayFail \in BOOLEAN
  /\ "submit" \notin Viewer

VARIABLES
  row,         \* the state column of the job's row
  run,         \* where the job's _run_job is
  lines,       \* how many lines are in the log
  mirrored,    \* how many of them the mirror task has published
  eof,         \* how many were there at JobLogs.eof, ahead of the mirror's None
  code,        \* the job's exit code
  subscribed,  \* Bus._subs: whose queue is on the job's list
  inbox,       \* the queue of each client's handler
  conn,        \* where each client's handler is
  got,         \* what each client has been sent, as long as it listens
  gone         \* the clients that have closed their connection

jobVars    == <<row, run, lines, mirrored, eof, code>>
clientVars == <<subscribed, inbox, conn, got, gone>>
vars       == <<row, run, lines, mirrored, eof, code, subscribed, inbox, conn, got, gone>>

Client == {"submit"} \cup Viewer

Settled == {"done", "failed", "cancelled"}

(* A log event carries the number of its line, a state event its exit code *)
(* (0 where it has none), "ollama" says that models were evicted for the   *)
(* job, "close" is the None of Bus.close.                                  *)
Line(n)     == <<"line", n>>
Lines(m, n) == [i \in 1..(n - m) |-> Line(m + i)]
Waiting     == <<"queued", 0>>
Evicted     == <<"ollama", 0>>
Running     == <<"running", 0>>
Close       == <<"close", 0>>
IsTerminal(ev) == ev[1] \in Settled

Event == ({"queued", "ollama", "line", "running", "close"} \cup Settled) \X Int

TypeOK ==
  /\ row \in {"none", "queued", "starting", "running"} \cup Settled
  /\ run \in {"no", "opening", "raised", "running", "draining", "leaking", "over"}
  /\ lines \in 0..MaxLines /\ mirrored \in 0..lines /\ eof \in 0..lines
  /\ code \in {-1, 0, 1}
  /\ subscribed \subseteq Client
  /\ inbox \in [Client -> Seq(Event)]
  /\ conn \in [Client -> {"none", "history", "streaming", "closed"}]
  /\ got \in [Client -> Seq(Event)]
  /\ gone \subseteq MayHangUp

Init ==
  /\ row = "none" /\ run = "no"
  /\ lines = 0 /\ mirrored = 0 /\ eof = 0
  /\ code = -1
  /\ subscribed = {}
  /\ inbox = [f \in Client |-> <<>>]
  /\ conn = [f \in Client |-> "none"]
  /\ got = [f \in Client |-> <<>>]
  /\ gone = {}

(* Seeded fault: a viewer whose history is being sent is passed over.      *)
PublishToStreaming(evs) ==
  inbox' = [f \in Client |-> IF f \in subscribed /\ conn[f] = "streaming"
                            THEN inbox[f] \o evs ELSE inbox[f]]

(* Bus.publish, of a sequence of events.                                   *)
Publish(evs) ==
  inbox' = [f \in Client |-> IF f \in subscribed THEN inbox[f] \o evs ELSE inbox[f]]

-----------------------------------------------------------------------------
(* The job.                                                                *)

(* _handle_submit subscribes, enqueues and answers that the job is queued; *)
(* so short an answer drains at once.                                      *)
Submit(detach) ==
  /\ row = "none"
  /\ row' = "queued"
  /\ got' = [got EXCEPT !["submit"] = <<Waiting>>]
  /\ IF detach
     THEN conn' = [conn EXCEPT !["submit"] = "closed"] /\ UNCHANGED subscribed
     ELSE /\ conn' = [conn EXCEPT !["submit"] = "streaming"]
          /\ subscribed' = subscribed \cup {"submit"}
  /\ UNCHANGED <<run, lines, mirrored, eof, code, inbox, gone>>

CancelQueued ==
  /\ row = "queued"
  /\ row' = "cancelled"
  /\ Publish(<< <<"cancelled", 0>>, Close >>)
  /\ UNCHANGED <<run, lines, mirrored, eof, code, subscribed, conn, got, gone>>

Take ==
  /\ row = "queued"
  /\ row' = "starting" /\ run' = "opening"
  /\ UNCHANGED <<lines, mirrored, eof, code, clientVars>>

(* evict() or JobLogs.open() raises: the scheduler's except clause writes  *)
(* the row, and nothing is published but what was evicted before open().   *)
OpenFails ==
  /\ OpenMayFail
  /\ run = "opening"
  /\ row' = "failed" /\ run' = "raised"
  /\ \E news \in {<<>>, <<Evicted>>} : Publish(news)
  /\ UNCHANGED <<lines, mirrored, eof, code, subscribed, conn, got, gone>>

(* evict() returns, and _run_job goes on until it awaits the runner.       *)
Opened ==
  /\ run = "opening"
  /\ row' = "running" /\ run' = "running"
  /\ \E news \in {<<Running>>, <<Evicted, Running>>} : Publish(news)
  /\ UNCHANGED <<lines, mirrored, eof, code, subscribed, conn, got, gone>>

(* JobLogs.append, called by a pump; by the one that is left, if run() has *)
(* raised what the other one raised, until the log is closed.              *)
AppendLine ==
  /\ run \in {"running", "leaking"} /\ lines < MaxLines
  /\ lines' = lines + 1
  /\ UNCHANGED <<row, run, mirrored, eof, code, clientVars>>

(* Runner.run returns the child's exit code or raises, with or without a   *)
(* pump that goes on, and JobLogs.eof.                                     *)
RunEnds ==
  /\ run = "running"
  /\ \/ run' = "draining" /\ code' \in {-1, 0, 1}
     \/ run' = "leaking" /\ code' = -1
  /\ eof' = lines
  /\ UNCHANGED <<row, lines, mirrored, clientVars>>

Draining == run \in {"draining", "leaking"}

(* Seeded fault: follow yields a line the log does not have.               *)
MirrorPastTheEnd ==
  /\ run = "running" \/ Draining
  /\ mirrored' = mirrored + 1
  /\ Publish(<<Line(mirrored + 1)>>)
  /\ UNCHANGED <<row, run, lines, eof, code, subscribed, conn, got, gone>>

(* JobLogs.follow hands the mirror task the next line ahead of the None.   *)
Mirror ==
  /\ \/ run = "running" /\ mirrored < lines
     \/ Draining /\ mirrored < eof
  /\ mirrored' = mirrored + 1
  /\ Publish(<<Line(mirrored + 1)>>)
  /\ UNCHANGED <<row, run, lines, eof, code, subscribed, conn, got, gone>>

Outcome == <<IF code = 0 THEN "done" ELSE "failed", code>>

(* Seeded fault: the end is published while the mirror task has lines left. *)
FinishWithoutDraining ==
  /\ Draining
  /\ row' = Outcome[1] /\ run' = "over"
  /\ Publish(<<Outcome, Close>>)
  /\ UNCHANGED <<lines, mirrored, eof, code, subscribed, conn, got, gone>>

(* The mirror task has met its None: the log is closed, and the outcome is *)
(* written and announced.                                                  *)
Finish ==
  /\ Draining /\ mirrored = eof
  /\ row' = Outcome[1] /\ run' = "over"
  /\ Publish(<<Outcome, Close>>)
  /\ UNCHANGED <<lines, mirrored, eof, code, subscribed, conn, got, gone>>

-----------------------------------------------------------------------------
(* Its clients.                                                            *)

(* What a viewer asks to have replayed of the log as it is now: Python's   *)
(* [-0:] is the whole of it.                                               *)
History(v) ==
  IF v \in FromStart \/ TailLines = 0 \/ lines <= TailLines THEN Lines(0, lines)
  ELSE Lines(lines - TailLines, lines)

(* _handle_attach subscribes, and answers with the history.                *)
Attach(v) ==
  /\ row # "none" /\ conn[v] = "none"
  /\ subscribed' = subscribed \cup {v}
  /\ conn' = [conn EXCEPT ![v] = "history"]
  /\ got' = [got EXCEPT ![v] = History(v)]
  /\ UNCHANGED <<jobVars, inbox, gone>>

(* The history has drained from the socket, and the live events follow.    *)
Follow(v) ==
  /\ conn[v] = "history"
  /\ conn' = [conn EXCEPT ![v] = "streaming"]
  /\ UNCHANGED <<jobVars, subscribed, inbox, got, gone>>

(* drain() finds the connection closed: the handler ends before the try    *)
(* block that unsubscribes, and its queue is filled for nobody.            *)
HistoryBreaks(v) ==
  /\ conn[v] = "history" /\ v \in gone
  /\ conn' = [conn EXCEPT ![v] = "closed"]
  /\ UNCHANGED <<jobVars, subscribed, inbox, got, gone>>

(* Seeded fault: the end of a stream takes every subscriber off the list.  *)
LeaveWithAll(f) ==
  /\ conn' = [conn EXCEPT ![f] = "closed"]
  /\ subscribed' = {}

(* The handler ends, and its queue is taken off the list.                  *)
Leave(f) ==
  /\ conn' = [conn EXCEPT ![f] = "closed"]
  /\ subscribed' = subscribed \ {f}

(* One round of the loop of _stream_until_terminal.                        *)
Deliver(f) ==
  /\ conn[f] = "streaming" /\ inbox[f] # <<>>
  /\ LET ev == Head(inbox[f])
     IN  /\ got' = [got EXCEPT ![f] = IF ev = Close \/ f \in gone THEN @ ELSE Append(@, ev)]
         /\ IF ev = Close \/ IsTerminal(ev) THEN Leave(f) ELSE UNCHANGED <<conn, subscribed>>
  /\ inbox' = [inbox EXCEPT ![f] = Tail(@)]
  /\ UNCHANGED <<jobVars, gone>>

(* The client closes its connection, which only a write can find out.      *)
HangUp(f) ==
  /\ f \in MayHangUp \ gone
  /\ conn[f] \in {"history", "streaming"}
  /\ gone' = gone \cup {f} /\ got' = [got EXCEPT ![f] = <<>>]
  /\ UNCHANGED <<jobVars, subscribed, inbox, conn>>

StreamBreaks(f) ==
  /\ conn[f] = "streaming" /\ inbox[f] # <<>> /\ f \in gone
  /\ Leave(f)
  /\ inbox' = [inbox EXCEPT ![f] = <<>>]
  /\ UNCHANGED <<jobVars, got, gone>>

-----------------------------------------------------------------------------
Job ==
  \/ \E detach \in BOOLEAN : Submit(detach)
  \/ CancelQueued \/ Take \/ OpenFails \/ Opened \/ AppendLine \/ RunEnds \/ Mirror \/ Finish

Next ==
  \/ Job
  \/ \E v \in Viewer : Attach(v) \/ Follow(v) \/ HistoryBreaks(v)
  \/ \E f \in Client : Deliver(f) \/ HangUp(f) \/ StreamBreaks(f)

Spec == Init /\ [][Next]_vars

(* The job's turn comes, its child ends, and every task of the daemon that *)
(* is ready runs.                                                          *)
Fairness ==
  /\ WF_vars(Take) /\ WF_vars(OpenFails \/ Opened) /\ WF_vars(RunEnds)
  /\ WF_vars(Mirror) /\ WF_vars(Finish)
  /\ \A v \in Viewer : WF_vars(Follow(v) \/ HistoryBreaks(v))
  /\ \A f \in Client : WF_vars(Deliver(f) \/ StreamBreaks(f))

FairSpec == Spec /\ Fairness
-----------------------------------------------------------------------------
(* Properties.                                                             *)

(* The code `gpuq submit' exits with: that of the last state event.        *)
ExitCode(s) ==
  LET ends == {i \in DOMAIN s : IsTerminal(s[i])}
  IN  IF ends = {} THEN 0 ELSE s[CHOOSE i \in ends : \A k \in ends : k <= i][2]

Told(f, ev) == \E i \in DOMAIN got[f] : got[f][i] = ev

(* A submit that has been told its job's outcome has been sent, before it, *)
(* that the job waits, what was evicted for it, that it runs, and once and *)
(* in order each line that was in the log when the run ended; and it exits *)
(* with the job's code.  Lines may be added to the log after that, and are *)
(* sent to nobody, only if the run raised, so a job that is done was shown *)
(* whole (_run_job awaits the mirror task before it publishes; run()       *)
(* returns a code only when both pumps are at the end of their pipes).     *)
SubmitSeesItAll ==
  Told("submit", Outcome) =>
    /\ \E begin \in {<<Waiting, Running>>, <<Waiting, Evicted, Running>>} :
         got["submit"] = begin \o Lines(0, eof) \o <<Outcome>>
    /\ eof < lines => code = -1
    /\ ExitCode(got["submit"]) = code

(* A viewer misses nothing between the history and the live events, and    *)
(* sees it in order, whoever else hangs up: when it is told the outcome it *)
(* has been sent the part of the log it asked for; what was evicted and    *)
(* that the job runs, if it came before that; and from some line of that   *)
(* part on, or the next one, the rest of what was in the log when the run  *)
(* ended.  The lines that come twice are those the mirror task was behind  *)
(* with (_handle_attach subscribes before it reads the log); those of a    *)
(* pump that outlives its run are sent only as history.                    *)
ViewerMissesNothing ==
  \A v \in Viewer :
    Told(v, Outcome) =>
      \E first, last \in 0..lines, live \in 0..eof,
         begin \in {<<>>, <<Running>>, <<Evicted, Running>>} :
        /\ got[v] = Lines(first, last) \o begin \o Lines(live, eof) \o <<Outcome>>
        /\ first <= last /\ live <= last
        /\ begin # <<>> => last = 0
        /\ first = 0 \/ (v \notin FromStart /\ last = first + TailLines)

(* "blocks until done" (README.md): a submit returns when its job is over. *)
SubmitReturns == row = "queued" ~> conn["submit"] = "closed"

(* Every stream that was open before its job was over ends, the submit's   *)
(* and the viewers', unless the scheduler's except clause was reached      *)
(* (_run_job's finally clause and _handle_cancel publish and close; what a *)
(* failing SQL statement makes of that finally clause, RunJob says).       *)
StreamsEnd ==
  \A f \in Client :
    conn[f] # "none" /\ row \notin Settled ~> conn[f] = "closed" \/ run = "raised"
=============================================================================
