SPECIFICATION Spec
CONSTANTS
  w1 = w1
  c1 = c1
  k1 = k1
  k2 = k2
  x1 = x1
  s1 = s1
  s2 = s2
  s3 = s3
  root = root
  own = own
  Writers = {w1}
  Candidates = {c1}
  Keys = {k1, k2}
  Approvals = {x1}
  Slots = {s1}
  MaxEpoch = 2
  Features = {"pause", "own", "refusals"}
  Root = root
  Own = own
INVARIANTS
  TypeOK
  AppliedWasThere
  AcceptedWasThere
PROPERTIES
  ImplementsLifecycle
CHECK_DEADLOCK FALSE
