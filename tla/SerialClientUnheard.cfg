SPECIFICATION Spec
CONSTANTS
  Ids = {a, b}
  SelfRemoving = {}
  Timeouts = {}
  Retries = {}
  Periods = {10000, 15000}
  MaxRqs = 2
  CmdQueueLength = 2
  TimerQueueLength = 3
  RingFrames = 1
  PeekFrames = 1
  ValidStatus = "unknown"
  None = None
  MaxCalls = 2
  MaxUnanswered = 1
  MaxLag = 0
PROPERTY ValidResponseIsReceived
CHECK_DEADLOCK FALSE
