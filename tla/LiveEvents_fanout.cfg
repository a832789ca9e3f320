SPECIFICATION LiveSpec
CONSTANTS
  MaxFaults = 0
  Clients = {c1, c2}
  LiveRuns = 1
  LiveLines = 1
  c1 = c1
  c2 = c2
INVARIANT AllClientsGet
CHECK_DEADLOCK FALSE
