SPECIFICATION Spec
CONSTANTS
  a1 = a1
  a2 = a2
  i1 = i1
  r1 = r1
  p1 = p1
  p2 = p2
  None = None
  Source = {1, 2}
  Add = {a1, a2}
  Target <- ApartTarget
  Ingest = {}
  Reader = {}
  Proc = {p1}
  Home <- AddsHome
  MaxCrashes = 0
INVARIANTS
  ReAddRepairs
CHECK_DEADLOCK FALSE
