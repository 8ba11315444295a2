SPECIFICATION Spec
CONSTANTS
  p1 = p1 p2 = p2 c1 = c1 c2 = c2 app = app q1 = q1 q2 = q2 q3 = q3 q4 = q4
  r1 = r1 r2 = r2 r3 = r3 a = a clip = clip f = f
  Proc = {p1, p2}
  Chat = {}
  App = {app}
  Shared = Shared
  Person = Person
  Request = {q1, q2, q3}
  RunOf <- OutRunOf
  KeyOf <- OutKeyOf
  GraphOf <- OutGraphOf
  Home <- Apart
  Passes <- Once
  Node = {a, clip}
  Price <- OutPrices
  Fan <- Single
  LiveKey = {}
  Threshold = 20
  Budget = 20
  AppLimit = 8
  OutsideLimit = 9
  Window = 1
  MaxChats = 1
  MaxHolds = 1
  MaxTime = 1
  MaxFaults = 1
  MaxRestarts = 1
INVARIANTS RealWithinBudget
CHECK_DEADLOCK FALSE
