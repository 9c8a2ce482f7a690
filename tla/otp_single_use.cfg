SPECIFICATION Spec
CONSTANTS
  Codes = {c1, c2}
  Sends = {s1}
  Verifies = {v1, v2}
  MaxRequests = 3
  Ttl = 1
  DayLength = 1
  Limit = 2
  MaxTime = 1
  MaxRetries = 0
CHECK_DEADLOCK FALSE
INVARIANTS
  CodeIsUsedOnce
