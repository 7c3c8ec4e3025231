SPECIFICATION SupervisionSafe
CONSTANTS
    Subjects = {"log", "supervisor", "takeover"}
    MaxClaims = 1
    Actors = {a1, a2}
    Stoppable = {}
    Cancellers = {a1, a2}
    MaxFaults = 1
    MaxRecoveryEvents = 7
    a1 = a1
    a2 = a2
SYMMETRY ActorSymmetry
INVARIANTS
    LogIsSound
    NoDuplicateCall
    SupervisorIsSound
    EvidenceIsTrue
PROPERTIES
    TerminalIsFinal
    ImplementsReview
CHECK_DEADLOCK FALSE
