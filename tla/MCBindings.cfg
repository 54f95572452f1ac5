CONSTANTS
  t1 = t1
  t2 = t2
  b1 = b1
  b2 = b2
  Thread = {t1, t2}
  Buffer = {b1, b2}
  Key = {1, 2}
  WriteKey = {1}
  Field = {"field0", "field1"}
  Column <- MCColumn
  Query <- MCQuery
  Configs <- SmallConfigs
  NoRow = NoRow
  None = None
  Refused = Refused
  Ignored = Ignored
  Failed = Failed
  MaxCalls = 3
SYMMETRY Workers
SPECIFICATION Spec
CHECK_DEADLOCK FALSE
INVARIANTS
  AckedFieldsAreRead
  AckedRowsAreScanned
  OneRefusalPerFault
PROPERTY
  ImplementsRecordStore
