SPECIFICATION MCSpec
CONSTANTS
  InitSize = 4
  Maxes = {4, 6, 7, 11, 32}
  Exacts = {2, 9}
  Slack = 1
  Heads <- MCHeads
  Terminators <- MCTerminators
  Infos = 1
  Bodies <- MCBodies
  MemLens = {1, 4, 9}
  H09 = TRUE
  MaxBuf = 4
  MaxBufs = 2
  InitCap = 3
  HeadLens = {2}
  FrameLens = {1, 3}
  EndLen = 1
  MaxSlices = 2
  MaxBytes = 16
  Totals = {0, 1, 5}
  Window = 3
  MaxEmpty = 1
  ReadSizes = {1, 2}
  Unknown = Unknown
  Interval = 2
  Timeout = 1
  InitialWindow = 4
  Limit = 8
  InitialDelay = 1
  MaxDelay = 2
  Sizes = {3}
  MaxTime = 6
  MaxSample = 6
  Prompt = TRUE
INVARIANTS
  ReadExact
  WriteExact
  StreamExact
  WindowKept
  PingAccounting
  DeadPeerDetected
  TimeoutJust
PROPERTIES
  GrowsForUnwritten
CHECK_DEADLOCK FALSE
