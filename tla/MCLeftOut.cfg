SPECIFICATION DocSpec
CONSTANTS
  Wrong = Wrong
  None = None
  TreeChoice <- MCLeftOut
  Disk <- MCDisk
  VarChoice <- MCNone
  Block <- MCBlock
  MaxDepth = 4
  Thaws <- MCThaws
INVARIANT LeftOutIsNotInTree
CHECK_DEADLOCK FALSE
