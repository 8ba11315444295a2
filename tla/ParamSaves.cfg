SPECIFICATION Spec
CONSTANTS
  Key = {a, b}
  MaxTyped = 2
  MaxAgent = 1
  MaxCanvas = 2
  MaxBoot = 1
  MaxGaps = 1
  MaxFails = 2
  MaxTrouble = 2
INVARIANTS NothingLostUnsaid WritesStayOnTheirCanvas ShownIsTaken
PROPERTIES EndsAtRest
CHECK_DEADLOCK FALSE
