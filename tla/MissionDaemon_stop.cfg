SPECIFICATION Spec
CONSTANTS
  i1 = i1
  i2 = i2
  f1 = f1
  b1 = b1
  m1 = m1
  Planned = {i1}
  FollowUps = {f1}
  Checked = {b1}
  Judged = {m1}
  MaxIterations = 2
  Cadence = 2
  FailLimit = 2
  BlockLimit = 2
  MaxLives = 2
INVARIANTS
  StopCancelsInFlight
CHECK_DEADLOCK FALSE
