CONSTANTS
  Clients = {c1, c2}
  Rooms = {r1}
  Processes = {p1, p2}
  Messages = {m1, m2}
  m1 = m1
  m2 = m2
  c1 = c1
  c2 = c2
  p1 = p1
  p2 = p2
  NoRecord = none
  MaxRequests = 2
  MaxExtras = 1
SPECIFICATION ServerSpec
INVARIANTS
  JoinedIsMember
  CloseLeavesNothing
  EmittedOnce
SYMMETRY Symmetric
CHECK_DEADLOCK FALSE
