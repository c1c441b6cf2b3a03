SPECIFICATION Spec
CONSTANTS
  Req = {r1, r2, r3, r4}
  Handle = {h1}
  Bounded = TRUE
  None = None
INVARIANTS
  TypeOK
  QueueBounded
  OneCallback
  ReturnedIsUnsent
  CloseIsVisible
  ReadyIsKept
PROPERTIES
  WaiterWoken
  PromiseSpec
CHECK_DEADLOCK FALSE
