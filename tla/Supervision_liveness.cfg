SPECIFICATION SupervisionLive
CONSTANTS
    Subjects = {"supervisor"}
    MaxClaims = 1
    Actors = {a1, a2}
    Stoppable = {}
    Cancellers = {a1}
    MaxFaults = 0
    MaxRecoveryEvents = 40
    a1 = a1
    a2 = a2
PROPERTIES
    RunsEnd
CHECK_DEADLOCK FALSE
