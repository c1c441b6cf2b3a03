SPECIFICATION DSafety
CONSTANTS
  Req = {r1, r2}
  Handle = {h1}
  Bounded = TRUE
  None = None
  BodyLen = 2
  ReqLen = 2
  MaxBuf = 3
  Flatten = TRUE
  Sized = {}
  Streamed = {}
  Servers <- MCServers
  MaxIn = 3
  FrameSizes = {0, 1, 3}
  MaxFrames = 0
SYMMETRY ReqSymmetry
INVARIANTS
  NoReuseAfterClose
  CleanEndIsComplete
  NoLostWakeup
  AssertionsHold
CHECK_DEADLOCK FALSE
