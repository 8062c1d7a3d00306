SPECIFICATION SpecEngines
CONSTANTS
  a = a
  b = b
  SfExecutions = {x1}
  SfWorkers = {w1, w2}
  SfMaxAttempts = 2
  SfMaxQueues = 2
  SfMaxRestarts = 1
  CfIds <- Ids
  CfTemplates <- Templates
  CfMaxOps = 2
  CfOverlaps = 1
  CwConditions = {c1, c2}
  CwProviders = {p1, p2}
  CwIds = {u1, u2}
  CwCount = 2
  CwMaxResets = 1
  SvRegions = {"r1", "r2", "r3"}
  SvVersions = {"v1", "v2", "v3"}
  SvLabels = {"AWSCURRENT", "AWSPREVIOUS", "AWSPENDING"}
  SvMaxCreates = 2
  SvMaxEdits = 2
INVARIANTS EnginesTypeOK TasksMeetAnswers  CfDependentsFirst CwNoLateAnswer
PROPERTIES CwReleasedRightly EnginesEnd
CHECK_DEADLOCK FALSE
