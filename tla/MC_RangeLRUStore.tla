-------------------------- MODULE MC_RangeLRUStore --------------------------
(***************************************************************************)
(* Instances of RangeLRUStore for TLC: a file of one chunk of two blocks   *)
(* and a half one.                                                         *)
(***************************************************************************)
EXTENDS RangeLRUStore, TLC

(* From inside the first chunk to beyond the end; all beyond the end.      *)
Spans == {[off |-> 1, len |-> 3], [off |-> 3, len |-> 1]}

Symmetry == Permutations(Readers)
=============================================================================
