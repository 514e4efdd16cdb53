SPECIFICATION FairSpec
CONSTANTS
  w1 = w1
  r1 = r1
  Workers = {w1}
  Requests = {r1}
  WorkerOf <- OneEach
  MaxEpoch = 2
INVARIANTS
  TypeOK
  AccountsAgree
PROPERTIES
  ImplementsLedger
  ContinueReached
CHECK_DEADLOCK FALSE
