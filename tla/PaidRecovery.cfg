SPECIFICATION Spec
CONSTANTS
  Proc = {p1, p2}
  Run = {r1, r2}
  Node = {n1}
  Pasted <- MCEveryId
  Seed = Seed
  NoRun = NoRun
  NoProc = NoProc
  NoId = NoId
  NoCommit = NoCommit
  Mutation = Mutation
  MaxRecords = 2
  MaxStarts = 2
  MaxFaults = 1
  MaxCrashes = 1
SYMMETRY Alike
INVARIANTS KeptOrHeld OneStartPerNode RoomIsKept
PROPERTIES CommittedIdsAreJournaled
CHECK_DEADLOCK FALSE
