SPECIFICATION Spec
CONSTANTS
  Key = {a, b}
  MaxTyped = 2
  MaxAgent = 0
  MaxCanvas = 1
  MaxBoot = 1
  MaxGaps = 0
  MaxFails = 0
  MaxTrouble = 2
INVARIANTS ParkedIsNamed
CHECK_DEADLOCK FALSE
