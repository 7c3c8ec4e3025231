SPECIFICATION Spec
CONSTANTS
    Actors = {a1, a2}
    Stoppable = {a1}
    Cancellers = {}
    MaxFaults = 0
    MaxRecoveryEvents = 30
    a1 = a1
    a2 = a2
PROPERTY
    DeadlineEndsRun
CHECK_DEADLOCK FALSE
