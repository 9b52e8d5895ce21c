SPECIFICATION Spec
CONSTANTS
  Ids = {a, b}
  SelfRemoving = {a}
  Timeouts = {100}
  Retries = {1}
  Periods = {500}
  MaxRqs = 2
  CmdQueueLength = 2
  TimerQueueLength = 2
  RingFrames = 1
  PeekFrames = 1
  ValidStatus = "ok"
  None = None
  MaxCalls = 2
  MaxUnanswered = 1
  MaxLag = 51
INVARIANTS PayloadsOwned PollingGoesOn
CHECK_DEADLOCK FALSE
