SPECIFICATION Spec
CONSTANTS
  Workflow <- MCWorkflow
  Action <- MCAction
  Order <- MCOrder
  Deps <- MCDeps
  ContinueOn <- MCContinueOn
  MaxAttempts <- MCMaxAttempts
  MaxConcurrency = 1
PROPERTY
  RecheckAgrees
