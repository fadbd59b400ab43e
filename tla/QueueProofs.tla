----------------------------- MODULE QueueProofs -----------------------------
(***************************************************************************)
(* Theorems about the order of the queue in Scheduler: the position that   *)
(* one query counts out and the row that another query sorts to the front  *)
(* belong to one total order, and every operation moves a waiting job in   *)
(* it by what it says.  The order is total because no two waiting rows     *)
(* have the same stamp, and positions are numbers because only finitely    *)
(* many rows are ever waiting: QueueInv.                                   *)
(***************************************************************************)
EXTENDS SchedulerProofs, FiniteSetTheorems

QueueInv ==
  /\ IsFiniteSet(Queued(jobs))
  /\ \A j \in Queued(jobs) : jobs[j].stamp < clock
  /\ \A i, j \in Queued(jobs) : i # j => jobs[i].stamp # jobs[j].stamp

(* The row that a pop would take is the one that is told position 1.       *)
HeadIsFirst == \A j \in Queued(jobs) : j \in NextQueued(jobs) <=> Position(jobs, j) = 1

(* A row joins the queue, with the next stamp.                             *)
Joins(k) ==
  /\ k \notin Queued(jobs)
  /\ Queued(jobs') = Queued(jobs) \cup {k}
  /\ jobs'[k].stamp = clock
  /\ \A i \in Queued(jobs) : jobs'[i] = jobs[i]
  /\ clock' = clock + 1

(* No row does.                                                            *)
NoneJoins ==
  /\ Queued(jobs') \subseteq Queued(jobs)
  /\ \A i \in Queued(jobs') : jobs'[i].stamp = jobs[i].stamp
  /\ clock' = clock

-----------------------------------------------------------------------------
LEMMA EnqueueJoins ==
  ASSUME TypeOK, NEW j \in Job, NEW p, Enqueue(j, p), jobs[j].state = "unused"
  PROVE  Joins(j) /\ jobs'[j].priority = p
BY DEF TypeOK, Table, Enqueue, Insert, Joins, Queued, Waiting

LEMMA UpdateKeepsOrder ==
  ASSUME NEW t \in Table, NEW j \in Job, NEW s
  PROVE  \A i \in Job : /\ UpdateState(t, j, s)[i].stamp = t[i].stamp
                        /\ UpdateState(t, j, s)[i].priority = t[i].priority
BY DEF UpdateState, Table, Row

LEMMA QueueFrame ==
  ASSUME TypeOK, SchedInv, [Next]_vars
  PROVE  NoneJoins \/ \E k \in Job : Joins(k)
<1> USE DEF TypeOK
<1>1. CASE QueueRequest
  <2>1. ASSUME NEW j \in Job, NEW p \in Priority, Submit(j, p)
        PROVE  Joins(j)
    BY <2>1, EnqueueJoins DEF Submit
  <2>2. ASSUME NEW j \in Job, SubmitNext(j)
        PROVE  Joins(j)
    BY <2>2, EnqueueJoins DEF SubmitNext
  <2>3. ASSUME NEW i \in Job, NEW j \in Job, NEW force \in BOOLEAN, Retry(i, j, force)
        PROVE  Joins(j)
    BY <2>3, EnqueueJoins DEF Retry
  <2>4. ASSUME NEW j \in Job, Bump(j)
        PROVE  NoneJoins
    BY <2>4 DEF Bump, SetPriority, NoneJoins, Queued, Table, Row
  <2>5. ASSUME NEW j \in Job, CancelQueued(j)
        PROVE  NoneJoins
    <3>1. Queued(jobs') \subseteq Queued(jobs)
      BY <2>5 DEF CancelQueued, UpdateState, Queued, Waiting, Table
    <3> QED
      BY <2>5, <3>1, UpdateKeepsOrder DEF CancelQueued, NoneJoins, Queued
  <2> QED
    BY <1>1, <2>1, <2>2, <2>3, <2>4, <2>5 DEF QueueRequest
<1>2. CASE SchedulerTask
  <2>1. clock' = clock
    BY <1>2 DEF SchedulerTask, Wake, LeaseWaitOver, LoopIdle, LoopLeased, PopNothing, Pop,
                EvictDone, RunJobCrashes, OpenRun, RunReturns, RunLeavesChild, Finish, queueVars
  <2>2. Queued(jobs') \subseteq Queued(jobs)
    BY <1>2, SchedulerFrame DEF Queued, Waiting
  <2>3. CASE jobs' = jobs
    BY <2>1, <2>3 DEF NoneJoins, Queued
  <2>4. CASE \E j \in Job, s \in State : jobs' = UpdateState(jobs, j, s)
    BY <2>1, <2>2, <2>4, UpdateKeepsOrder DEF NoneJoins, Queued
  <2>5. CASE Pop
    BY <2>4, <2>5 DEF Pop, NextQueued, Queued, State, Running
  <2>6. CASE OpenRun \/ RunJobCrashes \/ Finish
    BY <2>4, <2>6 DEF OpenRun, RunJobCrashes, Finish, SchedInv, State, Running, Terminal
  <2> QED
    BY <1>2, <2>3, <2>5, <2>6, SchedulerFrame
<1>3. CASE ProcessStep
  BY <1>3 DEF ProcessStep, RunnerTask, Spawn, ChildExits, StrayExits, queueVars, NoneJoins, Queued
<1>4. CASE \E c \in Lease : LeaseTask(c) \/ LeaseClient(c)
  <2>1. UNCHANGED <<jobs, clock>>
    BY <1>4 DEF LeaseTask, LeaseClient, PollLease, LeaseEvicted, LeaseEvictFails, AskLease,
                EnterBlock, LeaveBlock, Release, ClientDies, queueVars
  <2> QED
    BY <2>1 DEF NoneJoins, Queued
<1>5. CASE UNCHANGED vars
  BY <1>5 DEF vars, NoneJoins, Queued
<1> QED
  BY <1>1, <1>2, <1>3, <1>4, <1>5 DEF Next, ProcessStep

LEMMA QueueInvStep == TypeOK /\ SchedInv /\ QueueInv /\ [Next]_vars => QueueInv'
<1> SUFFICES ASSUME TypeOK, SchedInv, QueueInv, [Next]_vars
             PROVE  QueueInv'
  OBVIOUS
<1>1. \A i \in Queued(jobs) : jobs[i].stamp \in Nat
  BY DEF TypeOK, Table, Row, Queued
<1>2. CASE NoneJoins
  <2>1. IsFiniteSet(Queued(jobs'))
    BY <1>2, FS_Subset DEF NoneJoins, QueueInv
  <2> QED
    BY <1>2, <2>1 DEF NoneJoins, QueueInv
<1>3. ASSUME NEW k \in Job, Joins(k)
      PROVE  QueueInv'
  <2>1. IsFiniteSet(Queued(jobs'))
    BY <1>3, FS_AddElement DEF Joins, QueueInv
  <2>2. \A j \in Queued(jobs') : jobs'[j].stamp < clock'
    BY <1>1, <1>3 DEF TypeOK, Joins, QueueInv
  <2>3. \A i, j \in Queued(jobs') : i # j => jobs'[i].stamp # jobs'[j].stamp
    BY <1>1, <1>3 DEF TypeOK, Joins, QueueInv
  <2> QED
    BY <2>1, <2>2, <2>3 DEF QueueInv
<1> QED
  BY <1>2, <1>3, QueueFrame

LEMMA QueueInvariant == Spec => [](TypeOK /\ SchedInv /\ QueueInv)
<1>1. Init => TypeOK /\ SchedInv /\ QueueInv
  <2>1. Init => Queued(jobs) = {}
    BY DEF Init, EmptyTable, Queued, Waiting
  <2> QED
    BY <2>1, InitInv, FS_EmptySet DEF QueueInv
<1>2. TypeOK /\ SchedInv /\ QueueInv /\ [Next]_vars => (TypeOK /\ SchedInv /\ QueueInv)'
  BY TypeNext, SchedInvStep, QueueInvStep
<1> QED
  BY <1>1, <1>2, PTL DEF Spec

-----------------------------------------------------------------------------
(* The jobs that Queue.position counts.                                    *)
InFrontOf(t, j) == {i \in Queued(t) : Before(t, i, j)}

LEMMA OrderIsTotal ==
  ASSUME TypeOK, QueueInv, NEW i \in Queued(jobs), NEW j \in Queued(jobs), i # j
  PROVE  Before(jobs, i, j) <=> ~Before(jobs, j, i)
<1>1. \A k \in {i, j} : jobs[k].stamp \in Nat /\ jobs[k].priority \in Int
  BY DEF TypeOK, Table, Row, Queued
<1>2. jobs[i].stamp # jobs[j].stamp
  BY DEF QueueInv
<1> QED
  BY <1>1, <1>2 DEF Before

LEMMA PositionType ==
  ASSUME TypeOK, QueueInv, NEW j \in Queued(jobs)
  PROVE  IsFiniteSet(InFrontOf(jobs, j)) /\ Position(jobs, j) = 1 + Cardinality(InFrontOf(jobs, j))
         /\ Cardinality(InFrontOf(jobs, j)) \in Nat
<1>1. InFrontOf(jobs, j) \subseteq Queued(jobs)
  BY DEF InFrontOf
<1>2. IsFiniteSet(InFrontOf(jobs, j))
  BY <1>1, FS_Subset DEF QueueInv
<1> QED
  BY <1>2, FS_CardinalityType DEF Position, InFrontOf

(* A job that joins those in front, or leaves them, moves the others by 1. *)
LEMMA OneMore ==
  ASSUME TypeOK, QueueInv, NEW j \in Queued(jobs), NEW k,
         InFrontOf(jobs', j) = InFrontOf(jobs, j) \cup {k}
  PROVE  Position(jobs', j) - Position(jobs, j) = IF k \in InFrontOf(jobs, j) THEN 0 ELSE 1
<1>1. Position(jobs', j) = 1 + Cardinality(InFrontOf(jobs, j) \cup {k})
  BY DEF Position, InFrontOf
<1> QED
  BY <1>1, PositionType, FS_AddElement

LEMMA OneLess ==
  ASSUME TypeOK, QueueInv, NEW j \in Queued(jobs), NEW k \in InFrontOf(jobs, j),
         InFrontOf(jobs', j) = InFrontOf(jobs, j) \ {k}
  PROVE  Position(jobs', j) - Position(jobs, j) = -1
<1>1. Position(jobs', j) = 1 + Cardinality(InFrontOf(jobs, j) \ {k})
  BY DEF Position, InFrontOf
<1>2. Cardinality(InFrontOf(jobs, j) \ {k}) = Cardinality(InFrontOf(jobs, j)) - 1
  BY PositionType, FS_RemoveElement
<1> QED
  BY <1>1, <1>2, PositionType

-----------------------------------------------------------------------------
(* The theorems.                                                           *)

(* The sort of next_queued and the count of Queue.position agree on the    *)
(* head of the queue, for any priorities and ties (JobRepo.next_queued,    *)
(* Queue.position).                                                        *)
THEOREM HeadHasPositionOne == Spec => []HeadIsFirst
<1>1. TypeOK /\ QueueInv => HeadIsFirst
  <2> SUFFICES ASSUME TypeOK, QueueInv, NEW j \in Queued(jobs)
               PROVE  j \in NextQueued(jobs) <=> Position(jobs, j) = 1
    BY DEF HeadIsFirst
  <2>1. j \in NextQueued(jobs) <=> InFrontOf(jobs, j) = {}
    <3>1. ~Before(jobs, j, j)
      BY DEF TypeOK, Table, Row, Queued, Before
    <3> QED
      BY <3>1, OrderIsTotal DEF NextQueued, InFrontOf
  <2>2. Position(jobs, j) = 1 <=> InFrontOf(jobs, j) = {}
    BY PositionType, FS_EmptySet
  <2> QED
    BY <2>1, <2>2
<1> QED
  BY <1>1, QueueInvariant, PTL

(* The position a client was told changes as the operations say: a pop     *)
(* moves every waiting job up by one, --next moves all of them back by     *)
(* one, and bump those that were in front of the bumped job                *)
(* (Queue.position, Queue.pop, JobRepo.bump).                              *)
THEOREM PositionsMoveAsSaid == Spec => PositionsMoveByOne
<1> DEFINE ByOne ==
      \A j \in Queued(jobs) \cap Queued(jobs') :
        LET back == Position(jobs', j) - Position(jobs, j)
        IN  /\ Pop => back = -1
            /\ \A k \in Job \ {j} :
                 /\ SubmitNext(k) => back = 1
                 /\ Bump(k) => back = IF Before(jobs, j, k) THEN 1 ELSE 0
<1>1. TypeOK /\ SchedInv /\ QueueInv => [ByOne]_vars
  <2> SUFFICES ASSUME TypeOK, SchedInv, QueueInv, NEW j \in Queued(jobs) \cap Queued(jobs')
               PROVE  /\ Pop => Position(jobs', j) - Position(jobs, j) = -1
                      /\ \A k \in Job \ {j} :
                           /\ SubmitNext(k) => Position(jobs', j) - Position(jobs, j) = 1
                           /\ Bump(k) => Position(jobs', j) - Position(jobs, j)
                                           = IF Before(jobs, j, k) THEN 1 ELSE 0
    OBVIOUS
  <2> USE DEF TypeOK
  <2>1. \A i \in Queued(jobs) : jobs[i].priority \in Int
    BY DEF Table, Row, Queued
  <2>2. ASSUME Pop
        PROVE  Position(jobs', j) - Position(jobs, j) = -1
    <3>1. PICK k \in NextQueued(jobs) : jobs' = UpdateState(jobs, k, "starting")
      BY <2>2 DEF Pop
    <3>2. k \in Queued(jobs) /\ Queued(jobs') = Queued(jobs) \ {k}
      BY <3>1 DEF NextQueued, UpdateState, Exists, Queued, Waiting, Table
    <3>3. k \in InFrontOf(jobs, j)
      BY <3>1, <3>2 DEF NextQueued, InFrontOf
    <3>4. \A i \in Queued(jobs) : Before(jobs', i, j) <=> Before(jobs, i, j)
      BY <3>1, <3>2, UpdateKeepsOrder DEF Before, Queued
    <3>5. InFrontOf(jobs', j) = InFrontOf(jobs, j) \ {k}
      BY <3>2, <3>4 DEF InFrontOf
    <3> QED
      BY <3>3, <3>5, OneLess
  <2>3. ASSUME NEW k \in Job \ {j}, SubmitNext(k)
        PROVE  Position(jobs', j) - Position(jobs, j) = 1
    <3>1. PICK p \in FrontPriority(jobs, {}) : Enqueue(k, p) /\ jobs[k].state = "unused"
      BY <2>3 DEF SubmitNext
    <3>2. Joins(k) /\ jobs'[k].priority = p
      BY <3>1, EnqueueJoins
    <3>3. \A i \in Queued(jobs) : jobs[i].priority < p
      BY FrontPriorityBeats
    <3>4. \A i \in Queued(jobs) : Before(jobs', i, j) <=> Before(jobs, i, j)
      BY <3>2 DEF Joins, Before
    <3>5. Before(jobs', k, j)
      BY <2>1, <3>2, <3>3, FrontPriorityBeats DEF Joins, Before
    <3>6. InFrontOf(jobs', j) = InFrontOf(jobs, j) \cup {k} /\ k \notin InFrontOf(jobs, j)
      BY <3>2, <3>4, <3>5 DEF Joins, InFrontOf
    <3> QED
      BY <3>6, OneMore
  <2>4. ASSUME NEW k \in Job \ {j}, Bump(k)
        PROVE  Position(jobs', j) - Position(jobs, j) = IF Before(jobs, j, k) THEN 1 ELSE 0
    <3>1. PICK p \in FrontPriority(jobs, {k}) : jobs' = SetPriority(jobs, k, p)
      BY <2>4 DEF Bump
    <3>2. /\ Queued(jobs') = Queued(jobs) /\ jobs'[k].priority = p
          /\ \A i \in Queued(jobs) \ {k} : jobs'[i] = jobs[i]
      BY <3>1 DEF SetPriority, Queued, Table, Row
    <3>3. p \in Int /\ \A i \in Queued(jobs) \ {k} : jobs[i].priority < p
      BY <3>1, FrontPriorityBeats
    <3>4. \A i \in Queued(jobs) \ {k} : Before(jobs', i, j) <=> Before(jobs, i, j)
      BY <3>2 DEF Before
    <3>5. k \in Queued(jobs) /\ Before(jobs', k, j)
      BY <2>1, <2>4, <3>2, <3>3 DEF Bump, Before
    <3>6. InFrontOf(jobs', j) = InFrontOf(jobs, j) \cup {k}
      BY <3>2, <3>4, <3>5 DEF InFrontOf
    <3>7. k \in InFrontOf(jobs, j) <=> ~Before(jobs, j, k)
      BY <3>5, OrderIsTotal DEF InFrontOf
    <3> QED
      BY <3>6, <3>7, OneMore
  <2> QED
    BY <2>2, <2>3, <2>4
<1> QED
  BY <1>1, QueueInvariant, PTL DEF PositionsMoveByOne
=============================================================================
