SPECIFICATION SpecBackground
CONSTANTS
  LwWorkers = {1, 2}
  LwCalls = {i1, i2}
  LwSockets = {}
  LwMaxCode = 1
  NpWorkers = {1, 2, 3}
  NpCalls = {i1, i2}
  NpRecycleAfter = 2
  NpMaxIdle = 0
  RrRequests = {r1, r2}
  CcMaxOps = 3
  CcOps = {1, 2, 3}
  EcMaxTasks = 2
  EcContainers = 2
  EcMaxDeployments = 2
  EcDesired = {0, 1}
  EcThreshold = 1
  EcRollback = TRUE
  EcMaxTroubles = 1
  GwServices = 2
  GwRequests = {q1}
  GwFormats = {1, 2}
  GwMaxWrites = 1
  GwMaxResets = 1
  GwMaxBoots = 2
  GwMaxTroubles = 1
INVARIANTS BackgroundTypeOK  EachItsOwn GatewayKeepsWord 
PROPERTIES EcOldTasksStay BackgroundEnds
CHECK_DEADLOCK FALSE
