SPECIFICATION Spec
CONSTANTS
  Stagers = {p1}
  Clients = {c1, c2}
  Ids = {i1}
  Nobody = Nobody
  SkipEviction = FALSE
  MaxObjs = 2
  MaxStores = 2
SYMMETRY Symmetry
INVARIANT TwoRefRule
