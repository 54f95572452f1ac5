CONSTANTS
  n1 = n1
  n2 = n2
  Node = {n1, n2}
  N = 3
  InitialQuorums <- WithinBounds
  MinR = 1
  MaxR = 3
  MinW = 1
  MaxW = 3
  RelaxThreshold = 45
  TightenThreshold = 75
  Scores = {0, 60, 100}
  WindowSize = 2
  Lockout = 2
SPECIFICATION FairSpec
INVARIANTS
  SumIsKept
  BoundsAreKept
  AdjustmentsAreApart
PROPERTIES
  ImplementsQuorumSteps
  HealthyTightens
  UnhealthyRelaxes
