SPECIFICATION ServicesSpec
CONSTANTS
  app = app
  users = users
  auth = auth
  orders = orders
  billing = billing
  sigterm = sigterm
  sigint = sigint
  userCall = userCall
  NoApp = NoApp
  Apps = {app, orders, billing}
  Modules = {app, users, auth, orders, billing}
  Imports <- Trees
  Exported = {auth, users}
  Causes = {sigterm, sigint, userCall}
  StopAll = userCall
  Deployments <- AnyDeployment
  BatchSize = 2
  MaxRecords = 2
INVARIANTS
  StopsComplete
  TrafficOnlyWhileAlive
PROPERTIES
  SignalEndsProcess
  RecordsArePosted
CHECK_DEADLOCK FALSE
