SPECIFICATION Spec
CONSTANTS
  a1 = a1
  a2 = a2
  i1 = i1
  r1 = r1
  p1 = p1
  p2 = p2
  None = None
  Source = {1, 2}
  Add = {a1, a2}
  Target <- SystemTarget
  Ingest = {i1}
  Reader = {r1}
  Proc = {p1, p2}
  Home <- SystemHome
  MaxCrashes = 1
INVARIANTS
  StoresCoherent
  ReadsAreStable
PROPERTIES
  CheckoutsSafe
CHECK_DEADLOCK FALSE
