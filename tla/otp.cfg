SPECIFICATION Spec
CONSTANTS
  Codes = {c1, c2}
  Sends = {s1, s2, s3}
  Verifies = {v1, v2}
  MaxRequests = 3
  Ttl = 1
  DayLength = 1
  Limit = 2
  MaxTime = 1
  MaxRetries = 1
SYMMETRY Symmetry
CHECK_DEADLOCK FALSE
INVARIANTS
  AnsweredCodeIsGone
  VerifiedInTime
  MailedCodeIsUsable
  WithinDailyLimit
  SuccessIsLogged
