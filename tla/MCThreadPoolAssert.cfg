SPECIFICATION Spec
CONSTANTS
  Clients = {c1, c2}
  Workers = {w1, w2}
  o1 = o1
  o2 = o2
  Operations = {o1, o2}
  MaxThreads = 1
  Needs <- MCNeeds
  None = none
CHECK_DEADLOCK FALSE
INVARIANT
  SchedulerAssertionHolds
