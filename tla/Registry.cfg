SPECIFICATION Spec
CONSTANTS
  Roles = {code, chat}
  Models = {A, B, C}
  Specs = {s1, s2}
  Fallbacks = {C}
  Suspects = {B}
  Managed = {A, B, C}
  None = None
INVARIANTS
  TypeOK
  RollbackIsRestorable
  IncumbentsSurvivePruning
PROPERTIES
  EverySwapCanBeUndone
CHECK_DEADLOCK FALSE
