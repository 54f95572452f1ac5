CONSTANTS
  n1 = n1
  n2 = n2
  n3 = n3
  p1 = p1
  p2 = p2
  g1 = g1
  k1 = k1
  None = None
  Node = {n1, n2, n3}
  Key = {k1}
  Put = {p1, p2}
  Get = {g1}
  N = 3
  InitialQuorums <- Minimal
  MaxDrift = 0
  MaxStaleness = 0
  MaxTime = 0
SYMMETRY Symmetry
SPECIFICATION Spec
INVARIANTS
  AckedIsStored
  AckedIsNotMissing
  NotFoundIsLocal
  FreshUnlessRegressed
