\* One retrieval and one role's search after it.
SPECIFICATION EvidenceSpec
CONSTANTS
  MaxRetries = 1
  Replies <- MCReplies
  Chunks <- MCChunks
  TypeOf <- MCTypeOf
  Citable <- MCCitable
  Requests <- MCRequests
  RerankLimit = 4
  RiskText = {"body"}
  IterationCaps = {0, 1, 7}
  LoopMaxSteps = 5
  GoalThreshold = 700
INVARIANTS FallbackKeepsEvidence BudgetsRespected CancelledBranchWindsDown
