SPECIFICATION Spec
CONSTANTS
  Codes = {c1}
  Sends = {s1, s2, s3}
  Verifies = {v1}
  MaxRequests = 3
  Ttl = 1
  DayLength = 1
  Limit = 2
  MaxTime = 0
  MaxRetries = 0
CHECK_DEADLOCK FALSE
INVARIANTS
  RefusedOnlyWhenUsedUp
