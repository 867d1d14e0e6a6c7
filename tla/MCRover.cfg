CONSTANTS
  Slices <- Both
  Slots = 3
  Uninit <- Blank
  Expire = 1
  CountCap = 2
  TurnClose = 2
SPECIFICATION Spec
INVARIANTS TypeOK DeadMan EffectiveIsApplied
PROPERTY CentredServoReleased
