SPECIFICATION FairSpec
CONSTANTS
  Clients = {c1, c2}
  Workers = {w1, w2, w3}
  o1 = o1
  o2 = o2
  Operations = {o1, o2}
  MaxThreads = 1
  Needs <- MCNeeds
  None = none
CHECK_DEADLOCK FALSE
INVARIANTS
  TypeOK
  PermitsMatchOperations
  CountersExact
  NoLostWakeup
PROPERTY
  EveryOperationIsExecuted
