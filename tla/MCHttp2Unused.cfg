SPECIFICATION HSpec
CONSTANTS
  Req = {r1}
  Handle = {h1}
  Bounded = FALSE
  None = None
  Connects = {}
PROPERTIES
  UnusedIsClosed
CHECK_DEADLOCK FALSE
