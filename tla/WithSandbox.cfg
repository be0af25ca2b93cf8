CONSTANTS
  Retries = 1
  Durations = {500, 12000}
  MaxDuration = 12000
  RetryAfters = {40000}
  Lateness = {1500}
  MaxLateness = 1500
  CtxEnds = {30000}
SPECIFICATION SandboxSpec
INVARIANTS
  SandboxTypeOK
  ErrorsKept
  DetachedCleanup
PROPERTIES
  ImplementsScopedUse
