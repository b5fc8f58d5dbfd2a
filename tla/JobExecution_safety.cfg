SPECIFICATION WorkersSpec
CONSTANTS
    p1 = p1
    p2 = p2
    t1 = t1
    t2 = t2
    t3 = t3
    i1 = i1
    i2 = i2
    None = None
    Proc = {p1, p2}
    Thread = {t1, t2, t3}
    Home <- MCHome
    Job = {1, 2}
    Legacy = {1}
    MaxGeneration = 2
    MaxCrashes = 2
    Faults = TRUE
SYMMETRY TaskSymmetry
INVARIANTS
  ExclusiveOwner
  LiveWithinCap
PROPERTIES
  RowsRespected
  ImplementsLifecycle
CHECK_DEADLOCK FALSE
