SPECIFICATION Spec
CONSTANTS
  Plugin = {p}
  Version <- MCVersion
  Catalog <- Published
  Preloaded <- MCPreloaded
  MaxPlugins = 2
  Caller = {"c1", "c2"}
  Wants <- MCWants
  Requests <- MCRequests
  Entries = 3
  None = None
CHECK_DEADLOCK FALSE
INVARIANTS TypeOK PoolIsConsistent CountsAreExact AliveIsReachable
