SPECIFICATION HSpec
CONSTANTS
  Req = {r1, r2}
  Handle = {h1}
  Bounded = FALSE
  None = None
  Connects = {r2}
INVARIANTS
  TasksConsistent
  OnePendingOpen
PROPERTIES
  PromiseKept
  CancelFreesStream
  ConnEndAnswersAll
CHECK_DEADLOCK FALSE
