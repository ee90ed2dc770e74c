\* Every route of up to one middleware, two guards and two interceptors; and two
\* connections that the application asks for, with their reconnection.
SPECIFICATION TrafficSpec
CONSTANTS
  MaxMiddleware = 1
  MaxGuards = 2
  MaxInterceptors = 2
  MaxAgain = 1
  Signatures <- MCSignatures
  Requests = {r1}
  MaxAttempts = 2
  MaxSockets = 3
INVARIANTS
  HandlerOnlyAdmitted
  StaysOff
PROPERTIES
  OneAnswer
  TimedRoutesAnswered
  EmitSettles
  ReconnectsOrGivesUp
CHECK_DEADLOCK FALSE
