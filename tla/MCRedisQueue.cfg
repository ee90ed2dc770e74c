\* Two processes, of which one never fails, and one message of any kind.
SPECIFICATION Spec
CONSTANTS
  Workers = {w1, w2}
  Steady = {w1}
  Messages = {m1}
  NoMessage = NoMessage
  MaxRequeues = 1
  MaxFaults = 1
INVARIANTS
  NothingVanishes
PROPERTY EventuallyHandled
CHECK_DEADLOCK FALSE
