SPECIFICATION Spec
CONSTANTS
  w1 = w1
  w2 = w2
  Works = {w1, w2}
  Plans <- TwoItems
  RequestLimit = 2
  WorkerCap = 2
  Amounts = {1}
  Features = {}
  NoWork = NoWork
  MaxAttempts = 2
  MaxRequests = 0
  MaxEpoch = 2
  MaxRevision = 2
INVARIANTS
  DependenciesFirst
  AcceptedIsCurrent
  WorkMirrorsAttempt
CHECK_DEADLOCK FALSE
