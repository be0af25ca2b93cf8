CONSTANTS
  Retries = 0
  Durations = {0}
  MaxDuration = 0
  RetryAfters = {}
  Lateness = {0}
  MaxLateness = 0
  CtxEnds <- MCEndless
SPECIFICATION Spec
INVARIANTS
  SevenAttempts
