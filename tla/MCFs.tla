-------------------------------- MODULE MCFs --------------------------------
(***************************************************************************)
(* Model-checking instances of Fs: a volume with two directories below the *)
(* root, one more below the first of them, and files of every size up to   *)
(* two blocks and a half.                                                  *)
(***************************************************************************)
EXTENDS Fs, TLC

MCDir == {20, 21, 22, 23}
MCFile == {30, 31, 32}
MCEntries == (20 :> <<21, 30, 22>>) @@ (21 :> <<31, 23>>) @@ (22 :> <<>>)
             @@ (23 :> <<32>>)
MCPathTable == <<[lba |-> 20, parent |-> 1], [lba |-> 21, parent |-> 1],
                 [lba |-> 22, parent |-> 1], [lba |-> 23, parent |-> 2]>>
MCLength == (30 :> 0) @@ (31 :> 4) @@ (32 :> 5)
Sym == Permutations(Addr)
==============================================================================
