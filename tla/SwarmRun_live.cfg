SPECIFICATION FairSpec
CONSTANTS
  w1 = w1
  w2 = w2
  Works = {w1}
  Plans <- OneItem
  RequestLimit = 2
  WorkerCap = 2
  Amounts = {2}
  Features = {"pause", "tools", "controls", "children", "coordinator"}
  NoWork = NoWork
  MaxAttempts = 1
  MaxRequests = 1
  MaxEpoch = 2
  MaxRevision = 1
INVARIANTS
  PausedIsQuiet
PROPERTIES
  ImplementsLifecycle
  StopTerminates
  PauseReached
  RecoveryTerminates
CHECK_DEADLOCK FALSE
