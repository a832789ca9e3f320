CONSTANTS
  p1 = p1  p2 = p2  p3 = p3  v1 = v1  v2 = v2  h1 = h1  h2 = h2  a1 = a1
  NoVM = NoVM  NoProc = NoProc
  Procs = {p1, p2, p3}
  VMs = {v1, v2}
  Hosts = {h1, h2}
  Pcis = {a1}
  HostOf <- OneNode
  Node <- NodeEach
  Pci <- OnePci
  Knows <- KnowsEach
  Foreign = {v2}
  MaxFaults = 1
\* Two processes move one GPU between two VMs, one of which other commands
\* also start; a third takes the same PCI lock from another node.
SPECIFICATION FairSpec
INVARIANTS TypeOK OneOwner AttachDelivers MutualExclusion
PROPERTIES CallEnds
