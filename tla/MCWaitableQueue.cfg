SPECIFICATION FairSpec
CONSTANTS
  Users = {u1, u2}
  Workers = {w1, w2}
  Operations = {o1, o2}
  None = none
CHECK_DEADLOCK FALSE
INVARIANT
  TypeOK
PROPERTIES
  ImplementsSerialExecutor
  WaitForAllCovers
  WaitForOneWaits
  EveryWaitReturns
