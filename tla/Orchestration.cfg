SPECIFICATION OrchestrationSpec
CONSTANTS
  Blank = Blank
  NoGroup = NoGroup
  MaxU64 = 15
  HardMaxOrders = 3
  HardMaxLinks = 2
  Graphs <- MCGraphs
  Policies <- MCPolicies
  Obligations <- MCObligations
  Required <- MCRequired
  MaxWorkOrders = 3
  MaxTargets = 1
  MaxOperations = 3
  MaxDependencies = 1
  MaxDelegations = 2
  MaxQuestions = 1
  PlanRevisionLimit = 3
  OrderRevisionLimit = 3
  TurnsFor <- Offered
  AnswersFor <- Single
  Callers = {"c1", "c2", "c3"}
  PolicyOf <- MCPolicyOf
  Requests <- MCRequests
  MaxRecords = 5
INVARIANTS
  RunIsSound
  PlanIsSound
  JournalIsSound
  RouteIsSound
  PromptsAreSound
PROPERTIES
  UnprovenStopsDispatch
  TurnsKeepHistory
CHECK_DEADLOCK FALSE
