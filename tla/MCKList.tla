------------------------------ MODULE MCKList ------------------------------
(***************************************************************************)
(* Model-checking instance of KList.                                       *)
(***************************************************************************)
EXTENDS KList

MCPriority == {-1, 0, 2}
============================================================================
