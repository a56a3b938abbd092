SPECIFICATION Spec
CONSTANTS
  Stagers = {p1, p2}
  Paths = {f1, f2, f3}
  SizeOf <- OneBlock
  MaxTempFiles = 1
  Allowance = 2
SYMMETRY Symmetry
INVARIANTS TypeOK NoFileLost EvictionKnown OverrunBounded
