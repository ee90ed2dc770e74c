CONSTANTS
  Subs = {s1, s2}
  Messages = {m1, m2}
  Topics = {"orders", "users"}
  MaxDeliver = 2
  Prefetch = 2
  MaxFaults = 2
SPECIFICATION NatsSpec
INVARIANTS
  LostOnlyWhenLetGo
PROPERTY
  OwedIsHandled
CHECK_DEADLOCK FALSE
