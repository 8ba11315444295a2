SPECIFICATION Spec
CONSTANTS
  MaxWrites = 3
  MaxAgent = 0
  MaxSwitches = 1
  MaxFails = 0
  MaxAll = 4
INVARIANTS GateKeepsOrder
CHECK_DEADLOCK FALSE
