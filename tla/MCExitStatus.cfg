SPECIFICATION Spec
CONSTANTS
  a = a
  Nodes = {a}
  Numbers = {1, 2}
  Session <- Twice
  Setups <- WithoutSigterm
  Attended = TRUE
INVARIANT ExitStatusTold
CHECK_DEADLOCK FALSE
