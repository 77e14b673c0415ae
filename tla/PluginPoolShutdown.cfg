SPECIFICATION Spec
CONSTANTS
  Name <- MCName
  Provider <- MCName
  Declares <- MCDeclares
  Builtin = {"b"}
  Allowed = {"p"}
  MaxPlugins = 2
  Caller = {"c1", "c2"}
  Wants <- MCWants
  Pinged = {"p"}
  Requests <- Once
  LongTimeout = TRUE
  Entries = 2
  None = None
  Host = Host
CHECK_DEADLOCK FALSE
INVARIANT ShutdownKillsAll
