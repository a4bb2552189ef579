SPECIFICATION FairSpec
CONSTANTS
  Clients = {c1, c2}
  Workers = {w1, w2}
  Manager = m
  Jobs = {j1, j2, j3}
  DetachOp = detachOp
  Null = null
  MaxOpsPerDrain = 2
CHECK_DEADLOCK FALSE
INVARIANTS
  TypeOK
  MutualExclusion
  OneWakeup
  NoUseAfterFree
  NoSelfDestruction
  NoDroppedJob
PROPERTIES
  ImplementsSerialExecutor
  EveryJobIsExecuted
  DroppedQueueIsFreed
