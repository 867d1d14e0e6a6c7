CONSTANTS
  Slices <- OnlySteer
  Slots = 3
  Uninit <- Blank
  Expire = 2
  CountCap = 3
  TurnClose = 2
SPECIFICATION Spec
INVARIANT NCentres
