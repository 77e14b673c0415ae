SPECIFICATION Spec
CONSTANTS
  Sections <- MCSections
INVARIANTS
  RejectsExactlyCycles
  PhasesAreLayers
  SplitSeparatesExclusive
  SplitIsTight
  IterationsShareDependencies
