CONSTANTS
  Key = {k1}
  LegacyKey = {k1}
  File = {f1}
  MaxRetries = 0
  MaxLaunches = 2
  MaxKills = 1
  MaxEdits = 0
  MaxFails = 1
SPECIFICATION DesktopSpec
INVARIANT CompleteIsWhole
CHECK_DEADLOCK FALSE
