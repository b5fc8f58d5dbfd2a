SPECIFICATION AdaptersSpec
CONSTANTS
  Trees <- MovedTrees
  Capitalised <- MCCapitalised
  MaxRulesPerFile = 2
  MaxConditions = 2
  Commits = {1}
INVARIANT IncrementalIsFresh
CHECK_DEADLOCK FALSE
