SPECIFICATION Spec
CONSTANTS
  Stagers = {p1, p2}
  Paths = {f1, f2, f3}
  SizeOf <- OneBlock
  MaxTempFiles = 2
  Allowance = 3
SYMMETRY Symmetry
INVARIANT NoNilEntry
