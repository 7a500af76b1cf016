SPECIFICATION FairSpec
CONSTANTS
  par = par
  line = line
  prep = prep
  back = back
  window = window
  make = make
  read = read
  None = None
  Root = par
  Node <- MCNode
  Kids <- MCKids
  Kind <- MCKind
  OnError <- MCOnError
  OnSiblings <- MCOnSiblings
  XLocks <- MCXLocks
  RLocks <- MCRLocks
  Provides <- MCProvides
  Requires <- MCRequires
  MaxProc <- MCMaxProc
  Timed <- MCTimed
  FrozenInFile = {}
  Unattended = TRUE
  Terminals = {}
  MayExit = TRUE
  MaxStarts = 1
  MaxOps = 0
  MayKeep = {}
INVARIANTS
  MaxProcRespected LocksExclude LocksRecorded
  SeqInOrder SeqStopsAtError RequiresMet ProvidedBacked TimedOutFails EndIsQuiet
PROPERTIES NoLockPanics EndIsFinal RunEnds
