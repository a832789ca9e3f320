CONSTANTS
  Procs = {p1, p2}
  NoProc = NoProc
  NoSnap = NoSnap
  NoOp = NoOp
  Names = {s}
  MaxFaults = 1
  MaxLeft = 1
\* Two processes on one VM: runs with checkpoints, deployments, resets and probes.
SPECIFICATION FairSpec
INVARIANT TypeOK
PROPERTIES KeepsPromise Delivers CallReturns
