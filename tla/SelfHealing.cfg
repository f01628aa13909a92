SPECIFICATION EngineSpec
CONSTANTS
  Engines = {e1, e2}
  Jobs = {"job"}
  JobOf <- MCJobOf
  Equipped = {e1}
  Deadlined = {e1}
  AllModels = {"incumbent", "fallback", "x"}
  Incumbent = "incumbent"
  Fallback = "fallback"
  Suitable = {"incumbent", "fallback", "x"}
  Absent = {}
  Offers <- MCOffers
  RepairAttempts = 1
  CallsBound = 5
  NoModel = NoModel
INVARIANTS
  FailedChallengerUndone
  BoundedCalls
PROPERTIES
  EveryBlockLasts
  EveryRunEnds
CHECK_DEADLOCK FALSE
