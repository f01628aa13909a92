SPECIFICATION FairSpec
CONSTANTS
  Requests = {r1, r2, r3, r4}
  Priorities = {0, 1}
INVARIANTS
  TypeOK
  HeapIsTheQueue
  HeadIsAwake
PROPERTIES
  EveryCallSettles
  ImplementsAdmission
CHECK_DEADLOCK FALSE
