SPECIFICATION EsmSpec
CONSTANTS
  m1 = m1 m2 = m2 b1 = b1 b2 = b2 c1 = c1
  NoGroup = NoGroup NoKey = NoKey NoHandle = NoHandle
  Ids = {m1, m2} Consumers = {b1, b2, c1} Slots = {b1, b2}
  Groups = {g1} Keys = {k1} IsFifo = FALSE
  Attributes <- Redrive1
  Incarnations <- SourceTwice
  Delays = {}
  VisTimeouts = {1}
  WaitTimes <- LongPoll
  BatchSizes = {2}
  DedupWindow = 1
  MaxAge = 0
  MaxReceives = 2
  ExtendExpired = TRUE
  ClockInHandler = FALSE
  DirectAppends = FALSE
  Concurrency = 2
  Matching = {m1}
  BackoffSeconds = 1
  PartialFailures = TRUE
  SpawnFails = TRUE
SYMMETRY SlotSymmetry
INVARIANTS EsmTypeOK
PROPERTIES DeletedAreHandled
