SPECIFICATION FairSpec
CONSTANTS
  p1 = p1
  p2 = p2
  k1 = k1
  k2 = k2
  Apps = {p1, p2}
  Original = p1
  Keys = {k1, k2}
  Kinds = {"launch", "pause", "resume", "stop", "complete", "recover", "edit"}
  LeaseTime = 1
  LostAcks = TRUE
  MaxTime = 2
  MaxEpoch = 3
  MaxRevision = 3
  MaxObjects = 1
INVARIANTS
  TypeOK
  AppliedOnce
  LaunchedOnce
  OneAppPerEpoch
PROPERTIES
  DecidedOnWhatIsSeen
  ImplementsLifecycle
  LostTakeoverIsLearned
CHECK_DEADLOCK FALSE
