SPECIFICATION SystemSpec
CONSTANTS
  Instances = {i1}
  Jobs = {once1}
  OneTime = {once1}
  CronMinutes <- MCCronMinutes
  MaxMinute = 0
  MaxCrashes = 0
  MaxCreated = 1
  MaxRedeliveries = 0
  CallsFail = FALSE
CHECK_DEADLOCK FALSE
INVARIANTS
  OneTimeRunsOnce
