----------------------------- MODULE MCJobStream -----------------------------
(* Values for the constants of JobStream: a viewer of each kind.           *)
EXTENDS JobStream

TwoViewers == {"v1", "v2"}
OneViewer  == {"v1"}
Impatient  == {"v2"}
Nobody     == {}
=============================================================================
