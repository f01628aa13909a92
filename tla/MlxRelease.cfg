SPECIFICATION ReleaseSpec
CONSTANTS
  Calls = {c1, c2}
  Releasers = {r}
  Foreign = {}
  Models = {m1, m2}
  None = None
INVARIANTS
  AtMostOneServer
CHECK_DEADLOCK FALSE
