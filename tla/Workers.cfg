SPECIFICATION WorkersSpec
CONSTANTS
    AttemptEdits = 1
    AttemptFaults = 1
    MaxEdits = 2
    MaxFaults = 3
    PlanSteps = {p1, p2}
    MaxModelCalls = 4
    MaxActionRejections = 2
    FinishCallReserve = 1
    TokensPerCall = 2
    MaxOutputTokens = 8
    MinimumPlanRevisions = 3
    Controllers = {c1, c2}
    SelectionIds = {s1, s2, s3}
    Tracks = {"t1", "t2"}
    Candidates = {"x1", "x2"}
    NoSelection = "none"
    ScopeOf <- ScopeOfTwo
    MaxGeneration = 2
SYMMETRY Alike
INVARIANTS
    WriteLaneIsSound
    HeadIsSound
    AttemptIsSound
    ReviewIsSound
    FinishStaysInReach
PROPERTIES
    WriteLaneDestroysNothingUnseen
    ImplementsSelectionChain
CHECK_DEADLOCK FALSE
