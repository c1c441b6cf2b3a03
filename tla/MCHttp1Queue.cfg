SPECIFICATION DSafety
CONSTANTS
  Req = {r1, r2}
  Handle = {h1}
  Bounded = TRUE
  None = None
  BodyLen = 2
  ReqLen = 2
  MaxBuf = 3
  Flatten = FALSE
  Sized = {r1}
  Streamed = {}
  Servers = {{"zero"}}
  MaxIn = 1
  FrameSizes = {0, 1, 3}
  MaxFrames = 0
INVARIANTS
  IdleListens
CHECK_DEADLOCK FALSE
