SPECIFICATION Spec
CONSTANTS
  Name = {n1, n2}
  Value = {v1, v2}
  Process = {p, q}
  Cleaner = {p}
  EnvKeys = {None, 1}
  Outages = TRUE
  Keys = 2
  None = None
SYMMETRY Symmetry
CHECK_DEADLOCK FALSE
INVARIANTS TypeOK LossHasCause
PROPERTIES DestroysOnlyUnreadable
