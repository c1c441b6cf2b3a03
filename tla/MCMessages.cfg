SPECIFICATION MCSpec
CONSTANTS
  Word = 16
  Base = 2
  Names = {"transfer-encoding", "connection", "trailer"}
  Atoms = {"chunked", "gzip", "keep-alive", "close", "upgrade", "x-a", "x-b"}
  Methods = {"GET", "HEAD", "POST", "CONNECT"}
  Versions = {10, 11}
  ReqHeads <- MCReqHeads
  BodyLengths = {1, 15}
  Statuses = {101, 200, 204, 304, 404}
  RespHeads <- MCRespHeads
  Radix = 2
  MaxSize = 3
  ExtLimit = 2
  TrailerLimit = 9
  MaxHeaders = 2
  Lengths = {0, 2, 3}
  Alphabet = {0, 1, 2, 3, 4, 5, 6}
  MaxWire = 13
  Frames <- MCFrames
  MaxFrames = 2
  FieldNames = {"x-a", "content-length"}
  Forbidden = {"content-length"}
INVARIANTS
  RequestUnderstood
  ResponseFramed
  ReuseAgreed
  DecoderExact
  CodecAgrees
CHECK_DEADLOCK FALSE
