SPECIFICATION FairSpec
CONSTANTS
  Functions = {f}
  Invocations = {i1, i2}
  Boxes = {c1}
  NoLimit = NoLimit
  NoVersion = NoVersion
  NoBox = NoBox
  Limits = {1}
  AccountCap = 1
  Retries = 1
  MaxCode = 0
  MaxEnv = 0
  KillOnRelease = FALSE
INVARIANTS AccountBound
PROPERTIES SlotsEnd
