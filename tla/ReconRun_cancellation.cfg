SPECIFICATION FairSpec
CONSTANTS
  Runtimes = {r1, r2}
  Children = {c1, c2}
  MaxAttempts = 1
  AttemptsPerStage = 2
  MaxClaims = 2

PROPERTIES CancellationEndsPlanning
CHECK_DEADLOCK FALSE
