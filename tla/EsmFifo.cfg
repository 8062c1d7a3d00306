SPECIFICATION UndisturbedSpec
CONSTANTS
  m1 = m1 m2 = m2 b1 = b1 b2 = b2 c1 = c1
  NoGroup = NoGroup NoKey = NoKey NoHandle = NoHandle
  Ids = {m1, m2} Consumers = {b1, b2} Slots = {b1, b2}
  Groups = {g1} Keys = {m1, m2} IsFifo = TRUE
  Attributes <- Redrive2
  Incarnations <- Once
  Delays = {}
  VisTimeouts = {2}
  WaitTimes <- NoWait
  BatchSizes = {1, 2}
  DedupWindow = 1
  MaxAge = 0
  MaxReceives = 3
  ExtendExpired = TRUE
  ClockInHandler = FALSE
  DirectAppends = FALSE
  Concurrency = 2
  Matching = {m1, m2}
  BackoffSeconds = 1
  PartialFailures = FALSE
  SpawnFails = FALSE
INVARIANTS ConcurrencyBound
PROPERTIES HandledInOrder EventuallySettled
