SPECIFICATION Spec
CONSTANTS
  m1 = m1 m2 = m2 m3 = m3 c1 = c1 c2 = c2 k1 = k1 k2 = k2
  NoGroup = NoGroup NoKey = NoKey NoHandle = NoHandle
  Ids = {m1, m2} Consumers = {c1, c2}
  Groups = {g1} Keys = {k1} IsFifo = FALSE
  Attributes <- Expiring
  Incarnations <- DlqTwice
  Delays = {1}
  VisTimeouts = {1}
  WaitTimes <- LongPoll
  BatchSizes = {2}
  DedupWindow = 1
  MaxAge = 1
  MaxReceives = 2
  ExtendExpired = TRUE
  ClockInHandler = FALSE
  DirectAppends = FALSE
SYMMETRY Symmetry
INVARIANTS TypeOK LeaseExclusive Conservation
PROPERTIES FreshDelivery KeepsPromises
