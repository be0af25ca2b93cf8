CONSTANTS
  Clients = {1, 2}
  Does <- MCDoes
  Names = {1, 2}
  Limit = 1
  Retries = 1
  MaxUpdates = 2
SPECIFICATION FairSpec
INVARIANTS
  TypeOK
PROPERTIES
  ListedOnce
  NoLostUpdate
  ListEnds
