SPECIFICATION Spec
CONSTANTS
  Key = {a}
  MaxTyped = 1
  MaxAgent = 0
  MaxCanvas = 2
  MaxBoot = 0
  MaxGaps = 0
  MaxFails = 0
  MaxTrouble = 1
INVARIANTS TypingIsNamed
CHECK_DEADLOCK FALSE
