SPECIFICATION FairSpec
CONSTANTS
  Users = {u1}
  Workers = {w1, w2}
  Loops = {l1, l2}
  None = None
  Programs = {"timer", "after", "waitable_after", "notifier"}
  MaxCalls = 4
CHECK_DEADLOCK FALSE
INVARIANTS
  TypeOK
  CallsAreExclusive
  FirstCancelIsQuiet
  SourceOutlivesCalls
  OneCurrentLoop
PROPERTIES
  AbandonedSourceIsFreed
  EveryResumeFires
