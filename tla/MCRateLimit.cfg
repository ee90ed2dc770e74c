\* As many attempts as two windows admit and time for two windows to end.
SPECIFICATION ClientSpec
CONSTANTS
  c1 = c1
  c2 = c2
  Calls = {c1, c2}
  Requests <- Attempts
  DefaultOptions <- MCDefaultOptions
  BuiltInRetries <- MCBuiltInRetries
  Forms <- Ways
  NewOptions <- Updates
  MostRetries = 1
  Handled = {"ok", "wrong"}
  LastStart = 0
  Keys = {k1}
  Max = 1
  Window = 2
  MaxTime = 3
INVARIANTS
  FewerThanTwiceMaxPerInterval
  ResultEarned
PROPERTIES
  PromiseKept
  CallSettles
CHECK_DEADLOCK FALSE
