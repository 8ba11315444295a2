SPECIFICATION Spec
CONSTANTS
  list = list  each = each  gate = gate  left = left  join = join
  pass = pass  fail = fail
  Node = {list, each, gate, left, join}
  Batch = {list}
  Iterator = {each}
  Gate = {gate}
  Port = {pass, fail}
  Graphs <- MCGraphs
  Cap = 3
  MaxItems = 2
  Concurrency = 2
  MaxStops = 2
INVARIANTS EndIsWritten
CHECK_DEADLOCK FALSE
