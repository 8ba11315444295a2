SPECIFICATION Spec
CONSTANTS
  Key = {a, b}
  MaxTyped = 3
  MaxAgent = 0
  MaxCanvas = 2
  MaxBoot = 0
  MaxGaps = 0
  MaxFails = 1
  MaxTrouble = 2
INVARIANTS SavedStaysOnItsCanvas
CHECK_DEADLOCK FALSE
