SPECIFICATION Spec
CONSTANTS
  up = up  down = down  v = v  w = w  Gone = Gone
  first = first  second = second  one = one  two = two
  Node = {up, down}
  Wire <- MCWire
  Value = {v, w}
  Canvases <- MCCanvases
  Enriching = {down}
  Proposal = {first, second}
  Offers <- MCOffers
  Tab = {one, two}
  MaxOpen = 2
  MaxApprovals = 1
  MaxOthers = 2
  MaxGoing = 2
SYMMETRY Interchangeable
INVARIANTS TypeOK AcceptedAsShown DecidedOnce LockHolds
CHECK_DEADLOCK FALSE
