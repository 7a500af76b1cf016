SPECIFICATION Spec
CONSTANTS
  start1 = start1
  start2 = start2
  Start = {start1, start2}
  awake = awake
  Debounced = {awake, unblock}
  Worker = {w1, w2, w3}
  Runs <- MCRuns
  MaxHeld = 1
  EventBuffer = 1
  OutputBuffer = 1
  BatchSize = 2
  MaxChunk = 2
  SaveFails = TRUE
  File = {"tree", "lib"}
  RtYaml = {"lib"}
  NoText = NoText
  Text <- MCText
  MaxChanges = 2
  Analysis = {1, 2}
  Job = {j1, j2}
  Poster = {p1, p2}
  PipeSize = 1
  ExitDelay = 2
  MaxEvents = 3
  WinSize = {"small", "middle", "large"}
  Sender = {1, 2}
  MaxResizes = 3
  Dialer = {d1, d2, d3}
  MaxUploads = 3
  Wrong = Wrong
  None = None
  TreeChoice <- MCTrees
  Disk <- MCDisk
  VarChoice <- MCVarChoices
  Block <- MCBlock
  MaxDepth = 4
  Thaws <- MCThaws
INVARIANTS
  EndIsComplete EventsSaved ProblemsAreCurrent NoLostWakeUp ClosesSafely SizeIsCurrent UploadsAreShared
  TreeIsExpanded MistakesAreFound ValuesAreSolved GatesStayClosed
  NoLostCall NoStaleEntry
PROPERTIES HeadlessExits ImplementsCoalescer
CHECK_DEADLOCK FALSE
