SPECIFICATION LiveSpec
CONSTANTS
  p1 = p1  p2 = p2  r1 = r1  r2 = r2
  env1 = env1  env2 = env2  exp1 = exp1
  environment = environment  export = export
  Proc = {p1, p2}
  Run = {r1, r2}
  Key = {env1, exp1}
  Kind = {environment, export}
  KindOf <- MCKindOf
  HashBits <- MCHashBits
  NoRun = NoRun
  NoProc = NoProc
  Mutation = Mutation
  MaxRecords = 1
  Unreadable = {"load", "inspect", "poll", "release"}
  MaxFaults = 2
  MaxCrashes = 1
INVARIANTS TypeOK LeasesAreCovered PossiblyBilledIsHeld
PROPERTIES HoldsLeaveAlone StopEndsTheLease
CHECK_DEADLOCK FALSE
