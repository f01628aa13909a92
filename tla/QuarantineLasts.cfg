SPECIFICATION Spec
CONSTANTS
  Roles = {code}
  Models = {A, B, C}
  Specs = {s1, s2}
  Fallbacks = {C}
  Suspects = {B}
  Managed = {A, B, C}
  None = None
INVARIANTS
  QuarantineLasts
CHECK_DEADLOCK FALSE
