SPECIFICATION DSafety
CONSTANTS
  Req = {r1, r2}
  Handle = {h1}
  Bounded = TRUE
  None = None
  BodyLen = 2
  ReqLen = 2
  MaxBuf = 3
  Flatten = TRUE
  Sized = {r1}
  Streamed = {}
  Servers = {{"zero"}}
  MaxIn = 2
  FrameSizes = {0, 1, 3}
  MaxFrames = 1
INVARIANTS
  NothingReadBeforeWrite
CHECK_DEADLOCK FALSE
