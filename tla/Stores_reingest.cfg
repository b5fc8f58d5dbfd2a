SPECIFICATION StoresSpec
CONSTANTS
  Repo = {"a", "b"}
  Trees <- MCTrees
  Shared = "shared"
  a = a
  b = b
  x = x
  y = y
  Source = {a}
  Tree <- MCTree
  Recovery = {r1, r2}
  Client = {c1}
  User = {u1}
  MaxCaptures = 2
  MaxBytes = 3
  MaxReceipts = 1
  Asked = {a}
  LiveGraphs <- MCLiveGraphs
  TaskScopes <- MCTaskScopes
  Selections <- MCSelections
  PageFacts = {3}
  PageBytes = {4, 6}
  MaxTools = 3
  MaxSelected = 4
  MaxTotalBytes = 15
  MaxEvidence = 2
  MaxEvidenceBytes = 4
  MaxSpan = 2
  MaxValidations = 1
SYMMETRY MCSymmetry
INVARIANTS
  ReingestIsIdentical
CHECK_DEADLOCK FALSE
