SPECIFICATION FairSpec
CONSTANTS
  v1 = v1
  v2 = v2
  v3 = v3
  Videos = {v1, v2, v3}
  Limits = {1}
  Duration <- Durations
  Live = {v3}
  MaxConcurrent = 1
  MaxQueued = 1
INVARIANTS
  TypeOK
  CountersExact
  RunsBounded
  QueueBounded
  LimitRespected
  TmpOwned
PROPERTIES
  ImplementsPool
  JobsReturn
