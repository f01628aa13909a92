SPECIFICATION Spec
CONSTANTS
  DefaultLevel = 1
  DefaultSub = "std"
  r1 = r1
  r2 = r2
  Runs = {r1}
  Entries = {"router", "broker"}
  ann = ann
  UserOf <- MCUserOf
  Budget <- MCBudget
  Types <- MCTypes
  DialTexts <- MCDialTexts
  Setups <- MCSetups
  alpha = alpha
  beta = beta
  Candidates <- MCCandidates
  MaxRetries = 1
  Earlier = {4, 5}
  None = None
INVARIANTS
  CapHolds
