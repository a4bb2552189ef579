SPECIFICATION Spec
CONSTANTS
  Programs = {"group"}
  Operations = {o1, o2}
  Threads = {t1}
  Notifies = {}
  MaxSwaps = 1
CHECK_DEADLOCK FALSE
INVARIANT
  WaitCoversAllOperations
