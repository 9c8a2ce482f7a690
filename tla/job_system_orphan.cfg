SPECIFICATION SystemSpec
CONSTANTS
  Instances = {i1, i2}
  Jobs = {cron1}
  OneTime = {}
  CronMinutes <- MCCronMinutes
  MaxMinute = 0
  MaxCrashes = 0
  MaxCreated = 1
  MaxRedeliveries = 0
  CallsFail = FALSE
CHECK_DEADLOCK FALSE
INVARIANTS
  NoOrphanedRule
