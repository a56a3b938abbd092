SPECIFICATION Spec
CONSTANTS
  Stagers = {p1, p2}
  Clients = {c1, c2}
  Ids = {i1}
  Nobody = Nobody
  SkipEviction = FALSE
  MaxObjs = 2
  MaxStores = 2
SYMMETRY Symmetry
INVARIANTS
  TypeOK StoreOwnership TwoRefRuleUnlessStranded OpenRefCounts NothingForgotten
PROPERTY LeakOnlyByRace
