SPECIFICATION ReconSpec
CONSTANTS
  Runtimes = {r1, r2}
  Children = {c1, c2}
  MaxAttempts = 2
  AttemptsPerStage = 2
  MaxClaims = 3
SYMMETRY ChildSymmetry
INVARIANTS
  RunIsSound
  EveryTurnLogIsSound
CHECK_DEADLOCK FALSE
