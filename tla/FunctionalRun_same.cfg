CONSTANTS
  Scenario <- MCTwice
  Snap <- MCOneName
  Names = {"a"}
  StartIndex = 0
  Retries <- MCOnce
  Agents = {}
  Enabled = {TRUE}
  RewindOn = {TRUE}
  RetainDelete = {TRUE}
  Watchdog = FALSE
  MaxFaults = 0
CHECK_DEADLOCK FALSE
SPECIFICATION Spec
INVARIANT Aligned
