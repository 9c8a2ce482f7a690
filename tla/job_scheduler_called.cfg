SPECIFICATION ExitsSpec
CONSTANTS
  Instances = {i1}
  Jobs = {once1}
  OneTime = {once1}
  CronMinutes <- MCCronMinutes
  MaxMinute = 1
  MaxCrashes = 1
CHECK_DEADLOCK FALSE
PROPERTIES
  DueOneTimeIsCalled
