SPECIFICATION FairSpec
CONSTANTS
  t1 = t1
  p1 = p1
  p2 = p2
  None = None
  Task <- OneTask
  Proc <- TwoProcs
  MaxLive = 1
  MaxEvents = 14
  MaxInvocations = 2
  MaxCrashes = 2
  MaxFaults = 1
INVARIANTS
  RecordUsable
  CallsAccounted
  EndsTogether
PROPERTIES
  FinishKept
  RecordKept
  WorkerEnds
CHECK_DEADLOCK FALSE
