----------------------------- MODULE MCRecovery -----------------------------
(* Values for the constants of Recovery: two jobs and up to two leases.    *)
EXTENDS Recovery, TLC

CONSTANTS j1, j2, l1, l2

TwoJobs    == {j1, j2}
TwoLeases  == {l1, l2}
OneMortal  == {l1}
NobodyDies == {}
Priorities == {0}

=============================================================================
