SPECIFICATION FairSpec
CONSTANTS
  Operations = {o1, o2}
  MaxRuns = 2
CHECK_DEADLOCK FALSE
PROPERTY
  CancelEndsRun
