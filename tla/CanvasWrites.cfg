SPECIFICATION Spec
CONSTANTS
  MaxWrites = 3
  MaxAgent = 2
  MaxSwitches = 1
  MaxFails = 1
  MaxAll = 4
INVARIANTS NoWriteAstray InOrder LostIsNamed
PROPERTIES EveryTurnComes
CHECK_DEADLOCK FALSE
