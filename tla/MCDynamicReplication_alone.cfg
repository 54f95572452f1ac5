CONSTANTS
  n1 = n1
  n2 = n2
  n3 = n3
  p1 = p1
  g1 = g1
  k1 = k1
  None = None
  Node = {n1, n2, n3}
  Key = {k1}
  Put = {p1}
  Get = {g1}
  N = 3
  InitialQuorums <- Deployed
  MinR = 1
  MaxR = 3
  MinW = 2
  MaxW = 3
  MaxDrift = 0
  MaxStaleness = 0
  MaxTime = 0
  Budgets <- OneDiscovery
SYMMETRY Symmetry
SPECIFICATION DynSpec
INVARIANT AckedIsStored
