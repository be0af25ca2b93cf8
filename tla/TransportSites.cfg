CONSTANTS
  Calls = {c1}
  CallerKeys = {k1}
  NoKey = NoKey
  Cancellable = {c1}
  Sites <- SDKSites
  Retries = 2
SPECIFICATION CancelSpec
INVARIANTS
  RefusedMeansNever
PROPERTIES
  CancelReturns
  CallReturns
CHECK_DEADLOCK FALSE
