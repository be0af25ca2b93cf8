SPECIFICATION FairSpec
CONSTANTS
  Waiters = {1, 2, 3}
  Handles = {1, 2}
  HandleOf <- TwoShareOne
  Told <- ThreeEnds
  MaxOutput <- TwoBytesEach
  Enough = 1
  Casts <- SharedOrOwn
INVARIANTS
  TypeOK
  TrueResult
  BetweenThem
PROPERTY WaitReturns
CHECK_DEADLOCK FALSE
