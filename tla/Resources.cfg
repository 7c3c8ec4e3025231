SPECIFICATION ResourcesSpec
CONSTANTS
  Brokers = {A, B}
  Threads = {t1, t2}
  Calls = {"c1", "c2"}
  Params <- MCAll
  Bounds <- MCBounds
  Hard <- MCHard
  Grants <- MCGrants
  Oversized = {"c2"}
  Altered = {"decision", "authority", "parameters"}
  Stoppable = {A, B}
  Boundaries = {"RuntimeRestart", "RuntimeShutdown", "Deadline", "EvidenceCommitIndeterminate", "Cancellation"}
  MaxEdits = 2
  MaxFaults = 3
  MaxClaims = 1
  PlanSteps = {"s1"}
  Attempts = {"x", "y"}
  MaxModelCalls = 4
  MaxActionRejections = 1
  TokensPerCall = 2
  MinimumPlanRevisions = 2
  MaxOutputTokens = 7
  MaxToolCalls = 2
  ReadBudget = 3
  ReadSizes = {0, 2}
  Usages = {0, 2, 3}
SYMMETRY Alike
INVARIANTS
  BrokersAreSound
  ObservationsAreTrue
  StoreIsSound
  SnapshotIsSound
  ExplorerIsSound
PROPERTIES
  ImageOutlivesLease
CHECK_DEADLOCK FALSE
