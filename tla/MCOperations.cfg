SPECIFICATION Spec
CONSTANTS
  group = group
  make = make
  check = check
  None = None
  Root = group
  Node <- MCNode
  Kids <- MCKids
  Kind <- MCKind
  OnError <- MCOnError
  OnSiblings <- MCOnSiblings
  XLocks <- MCXLocks
  RLocks <- MCRLocks
  Provides <- MCProvides
  Requires <- MCRequires
  MaxProc <- MCMaxProc
  Timed = {}
  FrozenInFile = {}
  Unattended = FALSE
  Terminals = {}
  MayExit = FALSE
  MayKeep = {"bin"}
  MaxStarts = 3
  MaxOps = 2
INVARIANTS
  TypeOK NProcExact XLockHeld LiveIsRunning ProvidedComplete
PROPERTY FinishedStays
