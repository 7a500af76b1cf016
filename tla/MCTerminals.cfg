SPECIFICATION Spec
CONSTANTS
  group = group
  make = make
  check = check
  None = None
  Root = group
  Node <- MCNode
  Kids <- MCKids
  Kind <- MCKind
  OnError <- MCOnError
  OnSiblings <- MCOnSiblings
  XLocks <- MCXLocks
  RLocks <- MCRLocks
  Provides <- MCProvides
  Requires <- MCRequires
  MaxProc <- MCMaxProc
  Timed = {}
  FrozenInFile = {}
  Unattended = FALSE
  Terminals = {make}
  MayExit = FALSE
  MayKeep = {"bin"}
  MaxStarts = 1
  MaxOps = 0
INVARIANT StartFailedShows
