SPECIFICATION Spec
CONSTANTS
  Workflow <- MCWorkflow
  Action <- MCAction
  Order <- MCOrder
  Deps <- MCDeps
  ContinueOn <- MCContinueOn
  MaxAttempts <- MCMaxAttempts
  MaxConcurrency = 1
INVARIANTS
  TypeOK
  RunsOnGoodDependencies
  HardFailureStopsSection
  AccountsForAll
  SuccessIsComplete
  PartialMeansMainCompleted
  ExclusiveNeverOverlap
PROPERTIES
  RecordsAreFinal
  RunReports
  CleanupAfterCancel
  ImplementsDagRun
