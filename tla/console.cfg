SPECIFICATION Spec
CONSTANTS
  Nil = Nil
  MaxKeys = 1
  Addresses = {a1, a2}
  Errors = {e1}
  MaxCalls = 2
  MaxLog = 3
  LogLimit = 2
  Recent = 1
INVARIANTS
  BusyMeansCalls
  VerifiedIsForThisSend
  PanelsAgree
  SmtpPageIsTrue
  SentIsAccountedFor
  StreamIsComplete
PROPERTIES
  SpinnersStop
  StatsNeverGoBack
