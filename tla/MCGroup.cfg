SPECIFICATION FairSpec
CONSTANTS
  Programs = {"group", "apply"}
  Operations = {o1, o2}
  Threads = {t1}
  Notifies = {n1}
  MaxSwaps = 3
CHECK_DEADLOCK FALSE
INVARIANTS
  TypeOK
  ResourcesExact
  WaitCoversOperations
PROPERTY
  EveryWaitReturns
