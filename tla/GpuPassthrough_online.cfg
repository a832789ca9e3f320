CONSTANTS
  p1 = p1  p2 = p2  p3 = p3  v1 = v1  v2 = v2  h1 = h1  h2 = h2  a1 = a1
  NoVM = NoVM  NoProc = NoProc
  Procs = {p1, p2}
  VMs = {v1, v2}
  Hosts = {h1}
  Pcis = {a1}
  HostOf <- OneNode
  Node <- NodeEach
  Pci <- OnePci
  Knows <- KnowsEach
  Foreign = {}
  MaxFaults = 0
\* attach_to_vm returns with the GPU not in the running VM, though nothing failed.
SPECIFICATION Spec
INVARIANT GpuOnline
