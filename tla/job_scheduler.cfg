SPECIFICATION FairSpec
CONSTANTS
  Instances = {i1, i2}
  Jobs = {cron1, once1}
  OneTime = {once1}
  CronMinutes <- MCCronMinutes
  MaxMinute = 1
  MaxCrashes = 1
CHECK_DEADLOCK FALSE
INVARIANTS
  TypeOK
  IInv
  ClaimsAreExclusive
  OneTimeFiresAtMostOnce
  CronClaimCallsOnce
  SettledStatusIsTrue
  HistoryIsTrue
PROPERTIES
  SettledIsFinal
  StrandedIsForever
  DueOneTimeIsClaimed
  DueOneTimeSettlesOrStrands
  ImplementsOneTimeExecution
