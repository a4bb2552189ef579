SPECIFICATION Spec
CONSTANTS
  Users = {u1}
  Workers = {w1, w2}
  Loops = {l1, l2}
  None = None
  Programs = {"after"}
  MaxCalls = 4
CHECK_DEADLOCK FALSE
INVARIANT
  NoUseAfterFree
