CONSTANTS
  Arr = 12
  Duties = {0, 3}
  Refresh = 3
  Lag = 2
  MaxBack = 2
SPECIFICATION Spec
INVARIANTS TypeOK SilentWhenOff
PROPERTY Pulses
