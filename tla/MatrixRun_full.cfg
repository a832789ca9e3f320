\* Runs, `--only` runs, `--allow-incomplete` and quick runs on one results directory,
\* through crashes, interruptions and failures.
SPECIFICATION FairSpec
CONSTANTS
  NumVMs = 2
  NumPkgs <- MCPkgs
  MaxFaults = 2
  Only <- MCScope
  Quick <- MCAny
  Incomplete <- MCAny
INVARIANTS TypeOK PassedWasTested NoGpuPassFirst DoneMeansComplete
INVARIANTS OneRunningWithoutGpu
PROPERTIES CompletedStaysCompleted NeverRetested Terminates
CHECK_DEADLOCK FALSE
