SPECIFICATION FairSpec
CONSTANTS
  Threads = {t1, t2, t3}
  NoOwner = noOwner
  Completed = completed
  SpuriousCas = FALSE
CHECK_DEADLOCK FALSE
INVARIANTS
  TypeOK
  PreviousIsOwner
  NoUseAfterFree
PROPERTY
  ImplementsOneShotEvent
