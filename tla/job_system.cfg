SPECIFICATION FairSystemSpec
CONSTANTS
  Instances = {i1}
  Jobs = {once1, cron1}
  OneTime = {once1}
  CronMinutes <- MCCronMinutes
  MaxMinute = 1
  MaxCrashes = 1
  MaxCreated = 1
  MaxRedeliveries = 1
  CallsFail = TRUE
CHECK_DEADLOCK FALSE
INVARIANTS
  CallsAreAccountedFor
  CompletedWasCalled
PROPERTIES
  QuietIsForever
  DueJobsSettleOrAreAbandoned
