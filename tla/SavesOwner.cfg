SPECIFICATION Spec
CONSTANTS
  Key = {a, b}
  MaxTyped = 3
  MaxAgent = 0
  MaxCanvas = 1
  MaxBoot = 0
  MaxGaps = 0
  MaxFails = 3
  MaxTrouble = 3
INVARIANTS PutBackIsTaken
CHECK_DEADLOCK FALSE
