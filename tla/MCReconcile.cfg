CONSTANTS
  Key = {k1}
  MaxWrites = 3
  Timestamp <- Stamp3
  MaxSize = 2
  MaxAge = 0
  QueueSize = 1
  MaxHeal = 2
  MaxTime = 1
  None = None
SPECIFICATION FairSpec
INVARIANTS TypeOK LogIsRecent LoggedKeyIsStored RunRepairs
PROPERTIES EngineMovesForward HealLeadsToRun
CHECK_DEADLOCK FALSE
