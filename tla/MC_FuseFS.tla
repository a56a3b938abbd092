------------------------------ MODULE MC_FuseFS ------------------------------
EXTENDS FuseFS, TLC

Symmetry ==
  Permutations(Stagers) \cup Permutations(Clients) \cup Permutations(Ids)
=============================================================================
