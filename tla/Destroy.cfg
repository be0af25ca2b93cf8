CONSTANTS
  Retries = 1
  Durations = {0, 20000}
  MaxDuration = 20000
  RetryAfters = {20000}
  Lateness = {0, 1500}
  MaxLateness = 1500
  CtxEnds <- MCCtxEnds
SPECIFICATION Spec
INVARIANTS
  TypeOK
  NilMeansGone
  DestroyBounded
PROPERTIES
  HonoursRetryAfter
