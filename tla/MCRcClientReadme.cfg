CONSTANTS
  Uid = {u1}
  MaxSends = 1
  Careful = FALSE
SPECIFICATION Spec
INVARIANT NeverAborts
CHECK_DEADLOCK FALSE
