SPECIFICATION FairSpec
CONSTANTS
  Stagers = {p1}
  Clients = {c1}
  Ids = {i1, i2}
  Nobody = Nobody
  SkipEviction = FALSE
  MaxObjs = 2
  MaxStores = 2
PROPERTIES StageReturns FuseReturns
