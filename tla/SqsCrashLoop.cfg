SPECIFICATION CrashLoopSpec
CONSTANTS
  m1 = m1 m2 = m2 m3 = m3 c1 = c1 c2 = c2 k1 = k1 k2 = k2
  NoGroup = NoGroup NoKey = NoKey NoHandle = NoHandle
  Ids = {m1, m2} Consumers = {c1}
  Groups = {g1} Keys = {k1, k2} IsFifo = TRUE
  Attributes <- Redrive2
  Incarnations <- Once
  Delays = {}
  VisTimeouts = {1}
  WaitTimes <- LongPoll
  BatchSizes = {1, 2}
  DedupWindow = 1
  MaxAge = 0
  MaxReceives = 3
  ExtendExpired = FALSE
  ClockInHandler = FALSE
  DirectAppends = TRUE
PROPERTIES CrashLoopEnds
