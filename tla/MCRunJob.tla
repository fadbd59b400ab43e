------------------------------ MODULE MCRunJob ------------------------------
(* Values for the constants of RunJob: every statement may fail.           *)
EXTENDS RunJob

AnyStatement == Statement
=============================================================================
