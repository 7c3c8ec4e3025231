SPECIFICATION ProgressSpec
CONSTANTS
  Runtimes = {r1, r2}
  Children = {c1, c2}
  MaxAttempts = 1
  AttemptsPerStage = 2
  MaxClaims = 2
PROPERTIES
  WorkSettles
CHECK_DEADLOCK FALSE
