------------------------------- MODULE MCHeap -------------------------------
(***************************************************************************)
(* Model-checking instances of Heap.                                       *)
(***************************************************************************)
EXTENDS Heap
=============================================================================
