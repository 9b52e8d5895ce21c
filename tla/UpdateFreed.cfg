SPECIFICATION Spec
CONSTANTS
  Versions = {v0, v1}
  Installed = v0
  Chunks = 1
  OtaQueueLength = 2
  EventQueueLength = 3
  None = None
  Policies = {"immediate", "delayed"}
  MaxStarts = 2
INVARIANT FreedOnce
CHECK_DEADLOCK FALSE
