SPECIFICATION Spec
CONSTANTS
  paid = paid
  p1 = p1  p2 = p2
  free = free
  Proc = {p1, p2}
  Run = {paid, free}
  Paid = {paid}
  Twice = {}
  NoLease = NoLease
  MaxRecords = 2
  MaxCanvas = 0
  MaxFaults = 0
  MaxRestarts = 0

PROPERTIES CompactedEverywhere
CHECK_DEADLOCK FALSE
