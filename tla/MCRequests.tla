----------------------------- MODULE MCRequests -----------------------------
(* Values for the constants of Requests: two jobs, cancel requests, and no *)
(* leases, which neither request looks at; or three jobs and two leases    *)
(* with a cancel request among them.                                       *)
EXTENDS Requests, TLC

CONSTANTS j1, j2, j3, l1, l2, k1, k2

TwoJobs   == {j1, j2}
ThreeJobs == {j1, j2, j3}
NoLease   == {}
TwoLeases == {l1, l2}
OneMortal == {l1}

OnePriority   == {0}
TwoPriorities == {-1, 0}

OneCancel  == {k1}
TwoCancels == {k1, k2}

NoPrune == {}

(* Requests that name nothing, something terminal, or both kinds...        *)
SensibleStates == {{}, {"done"}, {"failed", "queued", "running"}}

(* ...and one that names only what prune says it refuses.                  *)
RefusedStates == {{"queued"}}

(* Jobs are interchangeable, and so are cancel requests.                   *)
JobSymmetry     == Permutations(ThreeJobs)
RequestSymmetry == Permutations(TwoJobs) \cup Permutations(TwoCancels)
=============================================================================
