CONSTANTS
  Scenario <- MCClick
  Snap <- MCOneName
  Names = {"a"}
  StartIndex = 0
  Retries <- MCOnce
  Agents = {}
  Enabled = {TRUE}
  RewindOn = {TRUE}
  RetainDelete = {TRUE}
  Watchdog = TRUE
  MaxFaults = 0
CHECK_DEADLOCK FALSE
SPECIFICATION Spec
PROPERTY WatchdogAborts
