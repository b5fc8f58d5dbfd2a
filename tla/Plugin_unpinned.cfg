SPECIFICATION RecoverySpec
CONSTANTS
  w1 = w1
  w2 = w2
  None = None
  N = 4
  Worker = {w1, w2}
  Ahead = 1
  Trees <- MCAdapterTrees
  Capitalised <- MCCapitalised
  MaxRulesPerFile = 2
  MaxConditions = 2
  Commits = {1, 2}
  Roots <- MCRoots
  PluginIds = {"x"}
  Builds <- MCBuilds
  Corpora <- MCCorpora
  Artifacts <- MCArtifacts
  Sources <- MCSources
  Inputs <- MCInputs
  LayerSets <- MCLayerSets
  MaxChanges = 2
  FlowGraphs <- MCFlowGraphs
  MAX_DEPTH = 3
  GapIds = {8}
  NEIGHBORS = 2
  MaterialisedId <- MCMaterialised
  Similarities <- MCSimilarities
  EvalSets <- MCEvalSets
  Floors = {6, 9}
  MaxLinks = 4
INVARIANTS
  EveryFactIsPinned
CHECK_DEADLOCK FALSE
