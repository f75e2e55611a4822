CONSTANTS
  Items = {index, archive}
  Percents = {0, 30, 100}
  MaxLines = 2
  MaxJobs = 2
SPECIFICATION ProgressSpec
INVARIANTS NeverGoesBack FailuresAreTold
CHECK_DEADLOCK FALSE
