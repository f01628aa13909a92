SPECIFICATION Spec
CONSTANTS
  alpha = alpha
  beta = beta
  gamma = gamma
  Tables <- MCTables
  Defaults <- MCDefaults
  Config <- MCConfig
  RoleOrder <- MCRoleOrder
  Inferred <- MCInferred
  Retries = 1
  None = None
INVARIANTS
  PrivatePromptStaysLocal
  QuarantinedNotAsked
  AnswerOrExhausted
