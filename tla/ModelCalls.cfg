SPECIFICATION ModelCallsSpec
CONSTANTS
    MAX_REQUESTS = 5
    MAX_CANDIDATES = 2
    SpanBytes = 1
    TotalBytes = 4
    ValidationBytes = 2
    Registered = {"app"}
    AllowedLabels = {"CALLS"}
    MaxRecord = 6
    PageItems = 1
    Proc = {p1}
    Reviewer = {u1, u2}
    Gaps = {"x"}
    Graphs <- MCGraphs
    Trees <- MCTrees
    Receipts <- MCReceipts
    Answers <- MCAnswers
    Budgets <- MCBudgets
    HasKey = TRUE
    Profiles <- MCProfiles
    Actions <- MCActions
    Responses <- MCResponses
    Limits <- MCLimits
    Ceiling <- MCLimits
    ChunkBytes = 4
    MaxSpans = 2
    MaxNesting = 2
    MaxContainers = 3
    MaxParts = 3
SYMMETRY Symmetric
INVARIANTS
  SentIsApproved
  SelectionAccounts
  AcceptedIsStageable
  StagedIsReachable
  CallIsTrue
PROPERTIES
  ReviewIsOfSeen
CHECK_DEADLOCK FALSE
