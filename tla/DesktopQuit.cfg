CONSTANTS
  Key = {k1}
  LegacyKey = {k1}
  File = {f1}
  MaxRetries = 0
  MaxLaunches = 1
  MaxKills = 0
  MaxEdits = 0
  MaxFails = 0
SPECIFICATION DesktopSpec
PROPERTY QuitStopsFirst
CHECK_DEADLOCK FALSE
