SPECIFICATION Spec
CONSTANTS
  Timeout = 4
  MaxFailures = 1
INVARIANT ExitReportTrue
CHECK_DEADLOCK FALSE
