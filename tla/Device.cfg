SPECIFICATION FairSpec
CONSTANTS
  Rx = rx
  Jobs = {"reboot", "factory_button"}
  Tasks = {rx}
  Daemon = daemon
  Main = main
  UniqueIds = {0}
  Positions = {home, away}
  Home = home
  Fragile = {"lat"}
  Other = other
  OtherCounts = {1}
  QueueLength = 1
  MaxSets = 2
  None = None
  ConfirmTimeout = 2
  MinAuth = 1
  MaxAuth = 1
  MaxJobs = 1
  MaxBoots = 1
INVARIANTS NothingForgotten FactoryResetComplete
PROPERTIES GivesUpOnlyIfLate HandlersReturn
CHECK_DEADLOCK FALSE
