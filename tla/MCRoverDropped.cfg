CONSTANTS
  Slices <- OnlyDrive
  Slots = 3
  Uninit <- Blank
  Expire = 2
  CountCap = 4
  TurnClose = 2
SPECIFICATION Spec
INVARIANT GDrives
