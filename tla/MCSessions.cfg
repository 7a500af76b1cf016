SPECIFICATION FairSpec
CONSTANTS
  a = a
  Nodes = {a}
  Numbers = {1, 2}
  Session <- Twice
  Setups <- Scenarios
  Attended = TRUE
INVARIANTS SignalsMeant LocalQuiet
PROPERTIES ImplementsProcess StopsWhenTold OutputIsClosed ExitIsReported
CHECK_DEADLOCK FALSE
