---------------------------- MODULE MCSchedImpl ----------------------------
(***************************************************************************)
(* Model-checking instance of SchedImpl.                                   *)
(***************************************************************************)
EXTENDS SchedImpl
============================================================================
