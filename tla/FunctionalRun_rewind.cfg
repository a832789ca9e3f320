CONSTANTS
  Scenario <- MCScenario
  Snap <- MCSnap
  Names = {"a", "b", "c"}
  StartIndex = 1
  Retries <- MCRetries
  Agents <- MCAgents
  Enabled = {TRUE, FALSE}
  RewindOn = {TRUE}
  RetainDelete = {TRUE, FALSE}
  Watchdog = TRUE
  MaxFaults = 2
\* A run of run_test ends.
CHECK_DEADLOCK FALSE
SPECIFICATION FairSpec
INVARIANTS TypeOK Aligned PassIsClean AllRecordedQueued NoLeftovers OnlyFailuresEscape
PROPERTY Ends
