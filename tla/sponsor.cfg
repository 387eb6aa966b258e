SPECIFICATION Spec
CONSTANTS
  Claim = {c1, c2}
  MaxPollAttempts = 3
  CodesGiven = TRUE
INVARIANTS VerdictIsTrue
CHECK_DEADLOCK FALSE
