SPECIFICATION Spec
CONSTANTS
  w1 = w1
  w2 = w2
  Works = {w1}
  Plans <- OneItem
  RequestLimit = 1
  WorkerCap = 1
  Amounts = {1}
  Features = {"children"}
  NoWork = NoWork
  MaxAttempts = 2
  MaxRequests = 2
  MaxEpoch = 2
  MaxRevision = 1
INVARIANTS
  AllowanceAllocatedOnce
CHECK_DEADLOCK FALSE
