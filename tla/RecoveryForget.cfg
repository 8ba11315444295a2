SPECIFICATION Spec
CONSTANTS
  Proc = {p1}
  Run = {r1, r2}
  Node = {n1}
  Pasted <- MCEveryId
  Seed = Seed
  NoRun = NoRun
  NoProc = NoProc
  NoId = NoId
  NoCommit = NoCommit
  Mutation = Mutation
  MaxRecords = 1
  MaxStarts = 1
  MaxFaults = 0
  MaxCrashes = 0
SYMMETRY Alike
INVARIANTS CanForget
CHECK_DEADLOCK FALSE
