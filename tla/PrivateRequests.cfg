SPECIFICATION Spec
CONSTANTS
  Invocations = {i1}
  Issuances = {g1}
  Requests = {r1}
  HTTPClients <- MCHTTPClients
  CommandTimes <- MCCommandTimes
  Durations <- MCDurations
  MaxSends = 1
INVARIANTS
  TypeOK
  SentOnceHome
  NothingEchoed
  EndsInTime
CHECK_DEADLOCK FALSE
