SPECIFICATION SpecEngines
CONSTANTS
  a = a
  b = b
  SfExecutions = {x1}
  SfWorkers = {w1, w2}
  SfMaxAttempts = 2
  SfMaxQueues = 2
  SfMaxRestarts = 0
  CfIds <- Ids
  CfTemplates <- Templates
  CfMaxOps = 2
  CfOverlaps = 0
  CwConditions = {c1, c2}
  CwProviders = {p1, p2}
  CwIds = {u1, u2}
  CwCount = 2
  CwMaxResets = 0
  SvRegions = {"r1"}
  SvVersions = {"v1", "v2", "v3"}
  SvLabels = {"AWSCURRENT", "AWSPREVIOUS", "AWSPENDING"}
  SvMaxCreates = 0
  SvMaxEdits = 0
INVARIANT CfDeletedIsGone
CHECK_DEADLOCK FALSE
