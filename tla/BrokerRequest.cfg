SPECIFICATION FairBrokerSpec
CONSTANTS
  Requests = {r1, r2, r3}
  Priorities = {0}
  Private = {r1, r2}
INVARIANTS
  LiveRequestsSerialised
PROPERTIES
  UsesGateRight
  GateIsFreed
CHECK_DEADLOCK FALSE
