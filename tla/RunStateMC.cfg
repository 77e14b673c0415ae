SPECIFICATION Spec
CONSTANTS
  Run = {r1, r2, r3}
  Place = {"main", "copy"}
  Config <- MCConfig
  Value = {v, w}
  Param = {x, y}
  Given = {y}
  Found <- MCFound
  Parallel = 2
  None = None
SYMMETRY Symmetric
CHECK_DEADLOCK FALSE
INVARIANTS TypeOK ParametersSucceeded
PROPERTIES LocksAreKept ActionsAgree
