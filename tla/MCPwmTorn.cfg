CONSTANTS
  Arr = 12
  Duties = {0, 1}
  Refresh = 3
  Lag = 1
  MaxBack = 2
SPECIFICATION Spec
INVARIANT PinFollowsCcr
