SPECIFICATION ProcessSpec
CONSTANTS
  Callers = {"u", "w"}
  Connections = {"file", "server"}
  KindOf <- MCKindOf
  MaxCalls = 2
  NumberOf <- MCNumberOf
  ItemsOf <- MCItemsOf
  Plans <- MCPlans
  Words <- MCWords
  Files <- MCFiles
  MaxEdits = 1
  Applications = 2
  Methods <- MCMethods
  BatchSize = 2
  MaxSpans = 4
  Services <- MCServices
  MaxLevel = 2
  MaxReads = 2
  Keys = {"k1", "k2"}
  Requests = {"q1"}
  Users = {"cache", "sockets"}
  CacheUser = "cache"
  MaxSize = 1
  MaxChanges = 1
  MaxClients = 2
  MaxQuits = 2
INVARIANTS
  MigratedWhenInitialized
  FlushedWhenStopped
  GaugeFresh
  FreshUnlessRaced
  OneSharedConnection
PROPERTIES
  LosesOnlyUnseen
  SameForAll
CHECK_DEADLOCK FALSE
