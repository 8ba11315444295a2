SPECIFICATION LiveSpec
CONSTANTS
  paid = paid
  p1 = p1  p2 = p2
  free = free
  Proc = {p1, p2}
  Run = {paid}
  Paid = {paid}
  Twice <- SentTwice
  NoLease = NoLease
  MaxRecords = 1
  MaxCanvas = 1
  MaxFaults = 1
  MaxRestarts = 1
INVARIANTS RunsOnItsCanvas OnceSentKeepsLease
PROPERTIES StopHolds StopEndsRun
CHECK_DEADLOCK FALSE
