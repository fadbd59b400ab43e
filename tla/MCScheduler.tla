---------------------------- MODULE MCScheduler ----------------------------
(* Values for the constants of Scheduler: two jobs, and two leases whose   *)
(* clients stay alive, or none.                                            *)
EXTENDS Scheduler, TLC

CONSTANTS j1, j2, l1, l2

TwoJobs    == {j1, j2}
TwoLeases  == {l1, l2}
Nobody     == {}
Priorities == {-1, 0}
=============================================================================
