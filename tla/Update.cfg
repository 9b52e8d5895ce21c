SPECIFICATION FairSpec
CONSTANTS
  Versions = {v0, v1, v2}
  Installed = v0
  Chunks = 2
  OtaQueueLength = 2
  EventQueueLength = 3
  None = None
  Policies = {"immediate", "delayed"}
  MaxStarts = 3
INVARIANTS BeginsClean NothingLeftOpen NewestDownloaded
PROPERTIES KeepsOrder UpdatesEnd
CHECK_DEADLOCK FALSE
