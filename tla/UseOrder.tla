------------------------------ MODULE UseOrder ------------------------------
(***************************************************************************)
(* The orders of use of internal/fetcher, least recently used first: a     *)
(* sequence with no element twice.  The two range readers keep one; the    *)
(* manager of temporary files keeps times, which say the same.             *)
(***************************************************************************)
EXTENDS Integers, Sequences, SequencesExt

(* The loop that looks for x and cuts it out where it finds it.            *)
Without(s, x) ==
  IF Contains(s, x) THEN RemoveAt(s, CHOOSE i \in DOMAIN s : s[i] = x) ELSE s

Used(s, x) == Append(Without(s, x), x)

(* What is left when the oldest are dropped until there are n.             *)
Newest(s, n) == SubSeq(s, (IF n < Len(s) THEN Len(s) - n ELSE 0) + 1, Len(s))

NoRepeats(s) == \A i, j \in DOMAIN s : s[i] = s[j] => i = j
=============================================================================
