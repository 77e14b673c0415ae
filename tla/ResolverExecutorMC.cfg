SPECIFICATION Spec
CONSTANTS
  Resolver <- MCResolver
  Deps <- MCDeps
  Refs <- MCRefs
  Inline = {"a", "b"}
  Fallback = {"a", "b"}
  When = {"a", "c"}
  Shadowed = {"a"}
  Given <- MCGiven
  Policy = {"stop", "validate all", "non-fatal"}
  Limit = {1, 2}
  None = None
CHECK_DEADLOCK FALSE
INVARIANTS TypeOK RunsOnUsable RecordsAreOwn DeferredVerdicts ReportsFailures
PROPERTY Terminates
