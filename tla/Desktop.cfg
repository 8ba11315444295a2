CONSTANTS
  Key = {k1}
  LegacyKey = {k1}
  File = {f1}
  MaxRetries = 1
  MaxLaunches = 2
  MaxKills = 1
  MaxEdits = 2
  MaxFails = 1
SPECIFICATION DesktopSpec
INVARIANTS NoOrphan WindowsAreHonest
PROPERTIES RerunKeepsLater QuitEnds
CHECK_DEADLOCK FALSE
