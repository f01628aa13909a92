SPECIFICATION FairSpec
CONSTANTS
  Calls = {c1, c2, c3}
  Releasers = {}
  Foreign = {f}
  Models = {m}
  None = None
INVARIANTS
  TypeOK
  AtMostOneServer
  ServedIsRecorded
PROPERTIES
  EveryCallReturns
CHECK_DEADLOCK FALSE
