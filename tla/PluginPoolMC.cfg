SPECIFICATION Spec
CONSTANTS
  Name <- MCName
  Provider <- MCName
  Declares <- MCDeclares
  Builtin = {"b"}
  Allowed = {"p"}
  MaxPlugins = 2
  Caller = {"c1", "c2"}
  Wants <- MCWants
  Pinged = {}
  Requests <- MCRequests
  LongTimeout = TRUE
  Entries = 3
  None = None
  Host = Host
CHECK_DEADLOCK FALSE
INVARIANTS TypeOK RecordedIsOwn KilledIsUnregistered
