SPECIFICATION Spec
CONSTANTS
  p1 = p1 p2 = p2 c1 = c1 c2 = c2 app = app q1 = q1 q2 = q2 q3 = q3 q4 = q4
  r1 = r1 r2 = r2 r3 = r3 a = a clip = clip f = f
  Proc = {p1}
  Chat = {}
  App = {app}
  Shared = Shared
  Person = Person
  Request = {q1}
  RunOf <- ShotRunOf
  KeyOf <- ShotKeyOf
  GraphOf <- ShotGraphOf
  Home <- There
  Passes <- Twin
  Node = {a, clip, f}
  Price <- Prices
  Fan <- Single
  LiveKey = {a}
  Threshold = 20
  Budget = 20
  AppLimit = 8
  OutsideLimit = 12
  Window = 2
  MaxChats = 1
  MaxHolds = 1
  MaxTime = 2
  MaxFaults = 0
  MaxRestarts = 0

INVARIANTS NothingSpentIsGivenBack
CHECK_DEADLOCK FALSE
