SPECIFICATION DocSpec
CONSTANTS
  Wrong = Wrong
  None = None
  TreeChoice <- MCOpenGates
  Disk <- MCDisk
  VarChoice <- MCNone
  Block <- MCBlock
  MaxDepth = 4
  Thaws <- MCThaws
INVARIANT GatesStayClosed
CHECK_DEADLOCK FALSE
