------------------------------- MODULE GpuLock -------------------------------
(***************************************************************************)
(* What the daemon promises about the GPU: the "at most one of {queued     *)
(* batch job running, manual lease held}" of the design document           *)
(* (src/docs/superpowers/specs/2026-05-04-gpuq-design.md), as a lock.  A   *)
(* task is a job or a lease.  It owns the GPU from before it starts to use *)
(* it until after it has stopped, and nobody else does.                    *)
(***************************************************************************)
CONSTANTS Task, None

VARIABLES
  owner,  \* the task the GPU is reserved for, or None
  users   \* the tasks with a process on the GPU

Init == owner = None /\ users = {}

Acquire(t) == owner = None /\ owner' = t /\ UNCHANGED users

Begin(t) == owner = t /\ users' = users \cup {t} /\ UNCHANGED owner

End(t) == t \in users /\ users' = users \ {t} /\ UNCHANGED owner

Release(t) == owner = t /\ t \notin users /\ owner' = None /\ UNCHANGED users

Next == \E t \in Task : Acquire(t) \/ Begin(t) \/ End(t) \/ Release(t)

Spec == Init /\ [][Next]_<<owner, users>>
=============================================================================
