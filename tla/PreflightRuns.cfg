SPECIFICATION Spec
CONSTANTS
  r1 = r1
  r2 = r2
  x1 = x1
  x2 = x2
  a = a
  b = b
  None = None
  Run <- TwoRuns
  Recovery <- TwoRecoveries
  Repo <- TwoRepos
  Targets <- ManifestTargets
SYMMETRY RunSymmetry
INVARIANTS
  CancelledWritesNothing
PROPERTIES
  RegisterTrusted
CHECK_DEADLOCK FALSE
