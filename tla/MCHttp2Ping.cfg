SPECIFICATION GSpec
CONSTANTS
  Interval = 2
  Timeout = 2
  InitialWindow = 4
  Limit = 8
  InitialDelay = 1
  MaxDelay = 2
  Sizes = {3}
  MaxTime = 6
  MaxSample = 6
  Prompt = TRUE
INVARIANTS
  OpenStreamsWatched
CHECK_DEADLOCK FALSE
