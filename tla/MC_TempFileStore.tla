-------------------------- MODULE MC_TempFileStore --------------------------
(***************************************************************************)
(* Instances of TempFileStore for TLC: two readers, two closers, a file of *)
(* two blocks and a server that may send one block too few or too many.    *)
(***************************************************************************)
EXTENDS TempFileStore, TLC

MCSize == 2

(* The whole file; the second block, with more than there is after it; and *)
(* a read that starts at the end.                                          *)
BlocksAndEnd == {[off |-> 0, len |-> 2], [off |-> 1, len |-> 2],
                 [off |-> 2, len |-> 1]}

FirstBlock == {[off |-> 0, len |-> 1]}

WholeFile == {[off |-> 0, len |-> 2]}

Symmetry == Permutations(Readers)
=============================================================================
