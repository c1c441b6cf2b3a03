SPECIFICATION PSpec
CONSTANTS
  Stream = {s1, s2}
  Window = 3
  FrameSizes = {0, 1, 2}
  MaxFrames = 2
  Stalls = {s1}
INVARIANTS
  NothingPinned
  UploadHonest
PROPERTIES
  PipeFinishes
  ResetEndsPipe
CHECK_DEADLOCK FALSE
