SPECIFICATION Spec
CONSTANTS
  paid = paid
  p1 = p1  p2 = p2
  free = free
  Proc = {p1}
  Run = {paid, free}
  Paid = {paid}
  Twice <- SentTwice
  NoLease = NoLease
  MaxRecords = 1
  MaxCanvas = 1
  MaxFaults = 1
  MaxRestarts = 1
INVARIANTS TypeOK RunsOnItsCanvas TasksAreRecorded EarlyNeverRan
PROPERTIES TerminalIsFinal
CHECK_DEADLOCK FALSE
