CONSTANTS
  Declared <- MCDeclared
  Pausing = {s2}
  Messages = {m1, m2}
  s1 = s1
  s2 = s2
  m1 = m1
  m2 = m2
  Pattern <- MCPattern
  Topic <- MCTopic
  Priority <- MCPriority
  MaxRequeues = 1
  MaxSessions = 2
SPECIFICATION MemorySpec
PROPERTIES
  NobodyDocumentedIsMissed
CHECK_DEADLOCK FALSE
