SPECIFICATION Spec
CONSTANTS
  Users = {u1, u2}
  Workers = {w1, w2}
  None = none
  SerialQueue = FALSE
  Modes = {"single_updates"}
  Usages = {{}}
  MaxEmits = 2
  MaxSkips = 1
CHECK_DEADLOCK FALSE
INVARIANT
  NoMissedEmit
