------------------------- MODULE MC_TempFileManager -------------------------
(***************************************************************************)
(* Instances of TempFileManager for TLC: files of one block each, so that  *)
(* the count and the allowance can both be what a staging runs into.       *)
(***************************************************************************)
EXTENDS TempFileManager, TLC

OneBlock == [f \in Paths |-> 1]

Symmetry == Permutations(Stagers) \cup Permutations(Paths)
=============================================================================
