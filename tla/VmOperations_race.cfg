CONSTANTS
  Procs = {p1, p2}
  NoProc = NoProc
  NoSnap = NoSnap
  NoOp = NoOp
  Names = {s}
  MaxFaults = 1
  MaxLeft = 1
\* A tool deploys on a VM on which a functional run is in flight.
SPECIFICATION Spec
INVARIANT NoSilentRace
