SPECIFICATION VerifiedSpec
CONSTANTS
  w1 = w1
  c1 = c1
  k1 = k1
  k2 = k2
  x1 = x1
  s1 = s1
  s2 = s2
  s3 = s3
  root = root
  own = own
  Writers = {w1}
  Candidates = {c1}
  Keys = {k1}
  Approvals = {x1}
  Slots = {s1, s2, s3}
  MaxEpoch = 2
  Features = {"own"}
  Root = root
  Own = own
INVARIANTS
  TerminalIsQuiet
PROPERTIES
  MovesOnlyWhilePending
  MergesOnlyWhatPassed
  RecoveryTerminates
CHECK_DEADLOCK FALSE
