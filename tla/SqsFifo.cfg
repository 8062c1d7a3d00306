SPECIFICATION Spec
CONSTANTS
  m1 = m1 m2 = m2 m3 = m3 c1 = c1 c2 = c2 k1 = k1 k2 = k2
  NoGroup = NoGroup NoKey = NoKey NoHandle = NoHandle
  Ids = {m1, m2, m3} Consumers = {c1, c2}
  Groups = {g1} Keys = {k1, k2} IsFifo = TRUE
  Attributes <- Redrive
  Incarnations <- Once
  Delays = {}
  VisTimeouts = {2}
  WaitTimes <- NoWait
  BatchSizes = {2}
  DedupWindow = 2
  MaxAge = 0
  MaxReceives = 2
  ExtendExpired = FALSE
  ClockInHandler = FALSE
  DirectAppends = FALSE
SYMMETRY Symmetry
INVARIANTS GroupExclusive
PROPERTIES GroupOrder DedupWindowKept
