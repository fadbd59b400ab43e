------------------------------ MODULE JobTable ------------------------------
(***************************************************************************)
(* The jobs table of state.db (src/gpuq/state.py) and the Queue that reads *)
(* it (src/gpuq/daemon/queue.py), as operators on one value: the table.    *)
(* A table is a function from job ids to rows.  The daemon runs each SQL   *)
(* statement on its event-loop thread in autocommit mode, so a statement   *)
(* is one step of whoever issues it.                                       *)
(*                                                                         *)
(* A row keeps the columns the scheduler decides on.  `stamp' stands for   *)
(* the pair (submitted_at, rowid): inserts get increasing stamps, that is, *)
(* the wall clock is taken not to step back between two submissions.       *)
(***************************************************************************)
EXTENDS Integers, FiniteSets

CONSTANTS Job,        \* the ids new_job_id() hands out, each of them once
          Priority,   \* the priorities clients ask for
          None        \* Python's None, where an id is expected

ASSUME JobTableAssumption ==
  /\ Priority \subseteq Int
  /\ None \notin Job

Waiting  == {"queued"}
Running  == {"starting", "running"}
Terminal == {"done", "failed", "cancelled"}

(* "unused" is an id nobody has been given yet, "deleted" one whose row    *)
(* prune has removed: JobRepo.get answers None for both.                   *)
State == Waiting \cup Running \cup Terminal \cup {"unused", "deleted"}

Row == [state : State, priority : Int, stamp : Nat]

Table == [Job -> Row]

EmptyTable == [j \in Job |-> [state |-> "unused", priority |-> 0, stamp |-> 0]]

-----------------------------------------------------------------------------
(* Queries.                                                                *)

Exists(t, j) == t[j].state \notin {"unused", "deleted"}

Queued(t)  == {j \in Job : t[j].state \in Waiting}
Active(t)  == {j \in Job : t[j].state \in Running}
Settled(t) == {j \in Job : t[j].state \in Terminal}

(* ORDER BY priority DESC, submitted_at ASC                                *)
Before(t, i, j) ==
  \/ t[i].priority > t[j].priority
  \/ t[i].priority = t[j].priority /\ t[i].stamp < t[j].stamp

(* The row next_queued returns: the empty set stands for None.             *)
NextQueued(t) ==
  {j \in Queued(t) : \A i \in Queued(t) \ {j} : Before(t, j, i)}

(* Seeded fault: the rows are listed in the order they were submitted in.  *)
PositionBySubmission(t, j) ==
  1 + Cardinality({i \in Queued(t) : t[i].stamp < t[j].stamp})

(* Queue.position, of a queued job.                                        *)
Position(t, j) == 1 + Cardinality({i \in Queued(t) : Before(t, i, j)})

(* SELECT MAX(priority) over the queued rows outside X: {} when it is NULL. *)
MaxQueuedPriority(t, X) ==
  {t[j].priority : j \in {k \in Queued(t) \ X :
                            \A i \in Queued(t) \ X : t[i].priority <= t[k].priority}}

(* Seeded fault: the new priority ties with the best instead of beating it. *)
FrontPriorityTies(t, X) ==
  IF Queued(t) \ X = {} THEN {1} ELSE MaxQueuedPriority(t, X)

(* The priority that beats every queued row outside X.                     *)
FrontPriority(t, X) ==
  IF Queued(t) \ X = {} THEN {1} ELSE {p + 1 : p \in MaxQueuedPriority(t, X)}

-----------------------------------------------------------------------------
(* Updates.                                                                *)

(* INSERT of a queued row.                                                 *)
Insert(t, j, p, n) ==
  [t EXCEPT ![j] = [state |-> "queued", priority |-> p, stamp |-> n]]

(* UPDATE jobs SET state=? WHERE id=?, which matches nothing when the row  *)
(* has been deleted.                                                       *)
UpdateState(t, j, s) ==
  [t EXCEPT ![j].state = IF Exists(t, j) THEN s ELSE @]

SetPriority(t, j, p) == [t EXCEPT ![j].priority = p]
=============================================================================
