SPECIFICATION Spec
CONSTANTS
  w1 = w1
  r1 = r1
  Workers = {w1}
  Requests = {}
  WorkerOf <- NoRequest
  MaxEpoch = 3
INVARIANTS
  TakeoverFences
CHECK_DEADLOCK FALSE
