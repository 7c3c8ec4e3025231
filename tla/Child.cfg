SPECIFICATION ChildSpec
CONSTANTS
    c1 = c1
    c2 = c2
    Runtimes = {r1, r2}
    Children = {c1}
    MaxModelCalls = 2
    MaxToolCalls = 2
    MaxAttempts = 2
    MaxAdoptions = 2
    MaxTakeovers = 1
    MaxCallsPerBroker = 2
    MaxReservations = 3
    MaxClaims = 2
    SpareEpochs = 0
INVARIANTS
    CallsAreAccounted
    AttemptsCanContinue
PROPERTIES
    ImplementsWorkOrder
    StrandedForever
    EffectsAndCancellationsSettle
CHECK_DEADLOCK FALSE
