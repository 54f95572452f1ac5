CONSTANTS
  t1 = t1
  t2 = t2
  Thread = {t1, t2}
  WindowSize = 2
  Start = 4
  MaxIssued = 5
  None = None
  Configs <- SmallConfigs
  Rank <- Ranks
  RetryLimit = 1
SPECIFICATION Spec
INVARIANTS
  LastIsAcknowledged
  UnreportedOnlyIfMissed
  ChosenWasTried
  LoadIsExact
  OneEscapes
PROPERTIES
  SignalEndsProcess
  RunEnds
