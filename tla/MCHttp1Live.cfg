SPECIFICATION DSpec
CONSTANTS
  Req = {r1, r2}
  Handle = {h1}
  Bounded = TRUE
  None = None
  BodyLen = 2
  ReqLen = 2
  MaxBuf = 3
  Flatten = TRUE
  Sized = {}
  Streamed = {}
  Servers = {{"eofb"}}
  MaxIn = 2
  FrameSizes = {0, 1, 3}
  MaxFrames = 0
PROPERTIES
  PromiseSpec
  BodySettles
CHECK_DEADLOCK FALSE
