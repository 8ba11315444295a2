SPECIFICATION Spec
CONSTANTS
  paid = paid
  p1 = p1  p2 = p2
  free = free
  Proc = {p1}
  Run = {paid}
  Paid = {paid}
  Twice <- SentTwice
  NoLease = NoLease
  MaxRecords = 2
  MaxCanvas = 0
  MaxFaults = 0
  MaxRestarts = 0

INVARIANTS LeaseUntilEnd
CHECK_DEADLOCK FALSE
