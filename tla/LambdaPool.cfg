SPECIFICATION Spec
CONSTANTS
  Functions = {f}
  Invocations = {i1, i2}
  Boxes = {c1, c2}
  NoLimit = NoLimit
  NoVersion = NoVersion
  NoBox = NoBox
  Limits = {}
  AccountCap = 0
  Retries = 0
  MaxCode = 1
  MaxEnv = 0
  KillOnRelease = FALSE
INVARIANTS TypeOK BoxExclusive NoOrphans SlotsExact
SYMMETRY Symmetric
