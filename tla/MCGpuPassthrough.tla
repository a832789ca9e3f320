-------------------------- MODULE MCGpuPassthrough --------------------------
(* Instances of GpuPassthrough for TLC.                                     *)
EXTENDS GpuPassthrough, TLC
CONSTANTS p1, p2, p3, v1, v2, h1, h2, a1

\* two VMs on one node; two processes of that node list both, and a third of
\* a node whose GPU has the same PCI address lists none
OneNode    == [v \in VMs |-> h1]
NodeEach   == [p \in Procs |-> IF p = p3 THEN h2 ELSE h1]
OnePci     == [p \in Procs |-> a1]
KnowsEach  == [p \in Procs |-> IF p = p3 THEN {} ELSE VMs]
=============================================================================
