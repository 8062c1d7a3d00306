SPECIFICATION SpecStreams
CONSTANTS
  DsConsumers = {c1}
  DsKinds = {"esm", "pipe", "reader"}
  DsStarts = {"TRIM_HORIZON", "LATEST"}
  DsBatchSize = 1
  DsRetentions = {0, 2}
  DsRecordAges = {0, 1}
  DsMaxWrites = 2
  DsMaxLabels = 2
  DsMaxRestarts = 1
  KsShardIds = {0, 1, 2}
  KsHealthy = {1}
  KsBatchSize = 1
  KsRetentions = {0, 1}
  KsMaxPuts = 2
  KsMaxRestarts = 1
  TiNames = {n1}
  TiStores = {"rules", "schedules"}
  TiRate = 2
  TiDues = {0, 1}
  TiMaxPuts = 2
  TiMaxRestarts = 1
INVARIANTS StreamsTypeOK NothingSkipped FiresOnce
PROPERTIES StreamsProgress
CHECK_DEADLOCK FALSE
