CONSTANTS
  Calls = {c1, c2}
  CallerKeys = {k1}
  NoKey = NoKey
  Cancellable = {}
  Sites <- MCKeyedSites
  Retries = 1
SYMMETRY CallSymmetry
SPECIFICATION Spec
INVARIANTS
  TypeOK
  AtMostOnceEffect
  OkMeansPerformed
PROPERTIES
  ImplementsAtMostOnce
CHECK_DEADLOCK FALSE
