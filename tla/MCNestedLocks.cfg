SPECIFICATION Spec
CONSTANTS
  par = par
  group = group
  make = make
  use = use
  None = None
  Root = par
  Node <- MCNode
  Kids <- MCKids
  Kind <- MCKind
  OnError <- MCOnError
  OnSiblings <- MCOnSiblings
  XLocks <- MCNestedXLocks
  RLocks <- MCNone
  Provides <- MCNone
  Requires <- MCNone
  MaxProc <- MCMaxProc
  Timed = {}
  FrozenInFile = {}
  Unattended = FALSE
  Terminals = {}
  MayExit = FALSE
  MayKeep = {}
  MaxStarts = 1
  MaxOps = 0
INVARIANT LocksRecorded
