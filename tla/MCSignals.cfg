SPECIFICATION FairSpec
CONSTANTS
  Users = {u1, u2}
  Workers = {w1, w2}
  None = none
  SerialQueue = TRUE
  Modes = {"single_updates", "batch_updates"}
  Usages <- MCUsages
  MaxEmits = 3
  MaxSkips = 2
CHECK_DEADLOCK FALSE
INVARIANTS
  TypeOK
  NoMissedEmit
  FirstDisconnectIsQuiet
  BarrierOutlivesHandler
PROPERTIES
  BarrierKeepsValues
  EveryDisconnectReturns
