SPECIFICATION Spec
CONSTANTS
  Callbacks = {f, g}
  Params = {p}
  Tasks = {t}
  Daemon = daemon
  MaxEntries = 2
  QueueLength = 3
  None = None
INVARIANT ExpiredTimerIsScheduled
CHECK_DEADLOCK FALSE
