SPECIFICATION Spec
CONSTANTS
  Senders = {s}
  CmdQueueLength = 2
  SendQueueLength = 2
  RxQueueLength = 2
  MaxEvents = 2
INVARIANT DroppedIsNotSent
CHECK_DEADLOCK FALSE
