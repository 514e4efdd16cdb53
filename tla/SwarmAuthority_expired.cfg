SPECIFICATION FairSpec
CONSTANTS
  p1 = p1
  p2 = p2
  k1 = k1
  k2 = k2
  Apps = {p1, p2}
  Original = p1
  Keys = {k1}
  Kinds = {"launch"}
  LeaseTime = 1
  LostAcks = FALSE
  MaxTime = 3
  MaxEpoch = 3
  MaxRevision = 3
  MaxObjects = 2
PROPERTY
  ExpiredCanBeTaken
CHECK_DEADLOCK FALSE
