SPECIFICATION FairSpec
CONSTANTS
  Senders = {s}
  CmdQueueLength = 2
  SendQueueLength = 2
  RxQueueLength = 2
  MaxEvents = 1
INVARIANTS SendsHaveBuffers ReconnectPending DeadLinkNoticed
PROPERTIES SendQueueDrains Recovers
CHECK_DEADLOCK FALSE
