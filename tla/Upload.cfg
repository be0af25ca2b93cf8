CONSTANTS
  Writers = {1, 2}
  Sizes = {3, 4, 5, 8}
  UploadChunkBytes = 2
  MaxUploadBytes = 3
  MaxUploadFileBytes = 7
  Retries = 1
  MaxWrites = 2
SPECIFICATION Spec
INVARIANTS
  TypeOK
  SuccessIsWhole
  LandedIsThere
  NoByteTwice
CHECK_DEADLOCK FALSE
