SPECIFICATION FairSpec
CONSTANTS
  Callbacks = {f, g}
  Params = {p, q}
  Tasks={t}
  Daemon = daemon
  MaxEntries = 2
  QueueLength = 3
  None = None
INVARIANTS CallersNeverAbort TimersFollowEntries
PROPERTIES KeepsPromise WedgedForever CallsReturn RequestsServed
CHECK_DEADLOCK FALSE
