SPECIFICATION Spec
CONSTANTS
  par = par
  group = group
  make = make
  use = use
  None = None
  Root = par
  Node <- MCNode
  Kids <- MCKids
  Kind <- MCKind
  OnError <- MCOnError
  OnSiblings <- MCOnSiblings
  XLocks <- MCXLocks
  RLocks <- MCRLocks
  Provides <- MCNone
  Requires <- MCNone
  MaxProc <- MCMaxProc
  Timed = {}
  FrozenInFile = {}
  Unattended = FALSE
  Terminals = {}
  MayExit = FALSE
  MayKeep = {}
  MaxStarts = 2
  MaxOps = 1
INVARIANT LocksExclude
