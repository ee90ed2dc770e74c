CONSTANTS
  N = 3
  MaxOdd = 1
  app = app
  admin = admin
  orders = orders
  users = users
  cfg = cfg
  upper = upper
  lower = lower
  ModuleClasses = {app, admin, orders, users, cfg}
  NoClass = NoClass
  MakesIt = MakesIt
  Decorators <- AnyDecorator
  Programs <- AnyProgram
SPECIFICATION RoutingSpec
INVARIANTS
  TwoPassesSuffice
  InjectedInitialized
  UpIsComplete
  RoutesAsWritten
CHECK_DEADLOCK FALSE
