CONSTANTS
  n1 = n1
  n2 = n2
  Node = {n1, n2}
  MaxDrift = 1
  MaxTime = 3
  MaxLogical = 1
  MaxIssued = 2
SYMMETRY NodeSymmetry
SPECIFICATION ClockSpec
INVARIANTS
  CausalOrder
  AheadIsBounded
  RefusalNeedsSkew
PROPERTY ClockNeverRegresses
