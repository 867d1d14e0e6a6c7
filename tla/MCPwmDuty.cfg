CONSTANTS
  Arr = 12
  Duties = {0, 4}
  Refresh = 3
  Lag = 1
  MaxBack = 0
SPECIFICATION Spec
PROPERTY Rests
