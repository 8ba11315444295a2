SPECIFICATION Spec
CONSTANTS
  p1 = p1 p2 = p2 c1 = c1 c2 = c2 app = app q1 = q1 q2 = q2 q3 = q3 q4 = q4
  r1 = r1 r2 = r2 r3 = r3 a = a clip = clip f = f
  Proc = {p1}
  Chat = {c1, c2}
  App = {}
  Shared = Shared
  Person = Person
  Request = {q1, q2, q3, q4}
  RunOf <- ChatRunOf
  KeyOf <- ChatKeyOf
  GraphOf <- ChatGraphOf
  Home <- There
  Passes <- Shots
  Node = {a, clip, f}
  Price <- Prices
  Fan <- Batch
  LiveKey = {a, clip}
  Threshold = 17
  Budget = 8
  AppLimit = 8
  OutsideLimit = 10
  Window = 1
  MaxChats = 1
  MaxHolds = 2
  MaxTime = 0
  MaxFaults = 1
  MaxRestarts = 1
INVARIANTS CountedIsCovered
CHECK_DEADLOCK FALSE
