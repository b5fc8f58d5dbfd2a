SPECIFICATION ProgressSpec
CONSTANTS
    p1 = p1
    t1 = t1
    t2 = t2
    None = None
    Proc = {p1}
    Thread = {t1, t2}
    Home <- MCHomeOne
    Job = {1, 2}
    Legacy = {}
    MaxGeneration = 2
    MaxCrashes = 2
    Faults = FALSE
PROPERTIES
    OrphanIsRecovered
    CommandsEnd
CHECK_DEADLOCK FALSE
