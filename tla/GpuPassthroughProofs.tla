------------------------ MODULE GpuPassthroughProofs ------------------------
(* Theorems about GpuPassthrough for any number of processes, VMs, nodes    *)
(* and PCI addresses, and any number of failures.                           *)
EXTENDS GpuPassthrough, TLAPS

\* What every step of the critical section of p leaves alone, and where it
\* may go: it keeps the locks and stays under both.
LEMMA CriticalStep ==
  ASSUME TypeOK, NEW p \in Procs, Critical(p) \/ ReadFails(p)
  PROVE  /\ pc[p] \in InPci
         /\ \E l \in InPci : pc' = [pc EXCEPT ![p] = l]
         /\ UNCHANGED <<target, hostLock, pciLock>>
         /\ owner' \in [Procs -> VMs \cup {NoVM}]
         /\ \A q \in Procs \ {p} : owner'[q] = owner[q]
         /\ faults' \in 0..MaxFaults
<1> USE GpuAssumption DEF InPci, locks, Frame, Goto, Answered, Raises, TimesOut, Calm, Fault
<1>t. /\ pc \in [Procs -> {"idle", "host"} \cup InHost] /\ owner \in [Procs -> VMs \cup {NoVM}]
      /\ faults \in 0..MaxFaults
  BY DEF TypeOK
<1>f. faults < MaxFaults => faults + 1 \in 0..MaxFaults
  BY <1>t
<1>1. CASE CheckTarget(p)
  BY <1>1, <1>t, <1>f DEF CheckTarget
<1>2. CASE EnsureRunning(p)
  BY <1>2, <1>t, <1>f DEF EnsureRunning, Request
<1>3. CASE find_current_owner(p)
  <2>1. \A v \in Knows[p] : v \in VMs
    OBVIOUS
  <2>2. \E v \in VMs \cup {NoVM} : owner' = [owner EXCEPT ![p] = v]
    BY <1>3, <2>1 DEF find_current_owner
  <2>3. \A q \in Procs \ {p} : owner'[q] = owner[q]
    BY <2>2, <1>t
  <2>4. owner' \in [Procs -> VMs \cup {NoVM}]
    BY <2>2, <1>t
  <2> QED BY <1>3, <1>t, <2>3, <2>4 DEF find_current_owner
<1>4. CASE StopOwner(p)
  BY <1>4, <1>t, <1>f DEF StopOwner, StopFirst, Request
<1>5. CASE WaitOwner(p)
  BY <1>5, <1>t, <1>f DEF WaitOwner, WaitStopped
<1>6. CASE DetachOwner(p)
  BY <1>6, <1>t, <1>f DEF DetachOwner, Request
<1>7. CASE StartOwner(p)
  BY <1>7, <1>t, <1>f DEF StartOwner, Request
<1>8. CASE StopTarget(p)
  BY <1>8, <1>t, <1>f DEF StopTarget, StopFirst, Request
<1>9. CASE WaitTarget(p)
  BY <1>9, <1>t, <1>f DEF WaitTarget, WaitStopped
<1>10. CASE AttachTarget(p)
  BY <1>10, <1>t, <1>f DEF AttachTarget, Request
<1>11. CASE StartTarget(p)
  BY <1>11, <1>t, <1>f DEF StartTarget, Request
<1>12. CASE WaitForIp(p)
  BY <1>12, <1>t, <1>f DEF WaitForIp
<1>13. CASE ReadFails(p)
  BY <1>13, <1>t, <1>f DEF ReadFails
<1> QED
  BY <1>1, <1>2, <1>3, <1>4, <1>5, <1>6, <1>7, <1>8, <1>9, <1>10, <1>11, <1>12, <1>13 DEF Critical

\* What a request may do to Proxmox, and what queued tasks may do.
LEMMA WorldStep ==
  ASSUME TypeOK, NEW p \in Procs, Named, Critical(p) \/ ReadFails(p)
  PROVE  /\ hostpci' \subseteq VMs /\ running' \subseteq VMs /\ passed' \subseteq VMs
         /\ starting' \subseteq VMs /\ stopping' \subseteq VMs
<1> USE GpuAssumption DEF Request, Answered, Raises, Goto, world
<1>t. /\ hostpci \subseteq VMs /\ running \subseteq VMs /\ passed \subseteq VMs
      /\ starting \subseteq VMs /\ stopping \subseteq VMs
      /\ target[p] \in VMs \cup {NoVM} /\ owner[p] \in VMs \cup {NoVM}
  BY DEF TypeOK
<1>o. /\ pc[p] \in {"ensure", "target_stop", "target_attach", "target_start"} => target[p] \in VMs
      /\ pc[p] \in {"owner_stop", "owner_detach", "owner_start"} => owner[p] \in VMs
  BY <1>t DEF Named
<1>1. CASE UNCHANGED world
  BY <1>1, <1>t
<1>2. CASE EnsureRunning(p)
  BY <1>2, <1>t, <1>o DEF EnsureRunning, start_vm
<1>3. CASE StopOwner(p)
  BY <1>3, <1>t, <1>o DEF StopOwner, StopFirst, stop_vm
<1>4. CASE DetachOwner(p)
  BY <1>4, <1>t, <1>o DEF DetachOwner, detach_gpu
<1>5. CASE StartOwner(p)
  BY <1>5, <1>t, <1>o DEF StartOwner, start_vm
<1>6. CASE StopTarget(p)
  BY <1>6, <1>t, <1>o DEF StopTarget, StopFirst, stop_vm
<1>7. CASE AttachTarget(p)
  BY <1>7, <1>t, <1>o DEF AttachTarget, attach_gpu
<1>8. CASE StartTarget(p)
  BY <1>8, <1>t, <1>o DEF StartTarget, start_vm
<1> QED
  BY <1>1, <1>2, <1>3, <1>4, <1>5, <1>6, <1>7, <1>8
     DEF Critical, CheckTarget, find_current_owner, WaitOwner, WaitTarget, WaitStopped, WaitForIp,
         ReadFails

\* The locks: whoever is inside holds them, and who holds them is inside.
LEMMA LockStep ==
  ASSUME TypeOK, LockInv, [Next]_vars
  PROVE  LockInv'
<1> USE GpuAssumption
<1>t. /\ pc \in [Procs -> {"idle", "host"} \cup InHost]
      /\ hostLock \in [Hosts -> Procs \cup {NoProc}]
      /\ pciLock \in [Pcis -> Procs \cup {NoProc}]
  BY DEF TypeOK
<1>h. {"idle", "host"} \cap InHost = {} /\ InPci \subseteq InHost
      /\ "pci" \in InHost \ InPci /\ "unhost" \in InHost \ InPci
      /\ {"check", "find", "unpci", "attached"} \subseteq InPci
  BY DEF InHost, InPci
<1> USE DEF LockInv, Goto
<1>1. ASSUME NEW p \in Procs, Call(p) PROVE LockInv'
  BY <1>1, <1>t, <1>h DEF Call, locks
<1>2. ASSUME NEW p \in Procs, LockHost(p) PROVE LockInv'
  BY <1>2, <1>t, <1>h DEF LockHost
<1>3. ASSUME NEW p \in Procs, HostTimeout(p) PROVE LockInv'
  BY <1>3, <1>t, <1>h DEF HostTimeout, Return, locks
<1>4. ASSUME NEW p \in Procs, LockPci(p) PROVE LockInv'
  BY <1>4, <1>t, <1>h DEF LockPci
<1>5. ASSUME NEW p \in Procs, PciTimeout(p) PROVE LockInv'
  BY <1>5, <1>t, <1>h DEF PciTimeout, locks
<1>6. ASSUME NEW p \in Procs, UnlockPci(p) PROVE LockInv'
  BY <1>6, <1>t, <1>h DEF UnlockPci
<1>7. ASSUME NEW p \in Procs, UnlockHost(p) PROVE LockInv'
  BY <1>7, <1>t, <1>h DEF UnlockHost, Return
<1>8. ASSUME NEW p \in Procs, Critical(p) \/ ReadFails(p) PROVE LockInv'
  <2>1. PICK l \in InPci : pc' = [pc EXCEPT ![p] = l]
    BY <1>8, CriticalStep
  <2>2. pc[p] \in InPci /\ UNCHANGED <<hostLock, pciLock>>
    BY <1>8, CriticalStep
  <2> QED BY <2>1, <2>2, <1>t, <1>h
<1>9. ASSUME NEW p \in Procs, Crash(p) PROVE LockInv'
  BY <1>9, <1>t, <1>h DEF Crash, Return
<1>10. ASSUME NEW v \in VMs, StartTask(v) \/ StopTask(v) \/ ForeignStart(v) PROVE LockInv'
  BY <1>10 DEF StartTask, StopTask, ForeignStart, locks
<1>11. CASE UNCHANGED vars
  BY <1>11 DEF vars, locks
<1> QED
  BY <1>1, <1>2, <1>3, <1>4, <1>5, <1>6, <1>7, <1>8, <1>9, <1>10, <1>11 DEF Next, Step, Locking

LEMMA LockExcludes ==
  ASSUME LockInv PROVE MutualExclusion
BY DEF LockInv, MutualExclusion, InHost

LEMMA NamedStep ==
  ASSUME TypeOK, Named, [Next]_vars
  PROVE  Named'
<1> USE GpuAssumption DEF Goto
<1>t. /\ pc \in [Procs -> {"idle", "host"} \cup InHost]
      /\ target \in [Procs -> VMs \cup {NoVM}]
      /\ owner \in [Procs -> VMs \cup {NoVM}]
  BY DEF TypeOK
<1>1. ASSUME NEW p \in Procs, Call(p) PROVE Named'
  BY <1>1, <1>t DEF Call, Named
<1>2. ASSUME NEW p \in Procs, Locking(p) PROVE Named'
  <2>1. CASE HostTimeout(p) \/ UnlockHost(p)
    BY <2>1, <1>t DEF HostTimeout, UnlockHost, Return, Named
  <2>2. CASE LockHost(p) \/ LockPci(p) \/ PciTimeout(p) \/ UnlockPci(p)
    BY <2>2, <1>t DEF LockHost, LockPci, PciTimeout, UnlockPci, Named
  <2> QED BY <1>2, <2>1, <2>2 DEF Locking
<1>3. ASSUME NEW p \in Procs, Critical(p) \/ ReadFails(p) PROVE Named'
  <2> DEFINE NamedAt(q) ==
        /\ target[q] \in Knows[q] \cup {NoVM}
        /\ pc[q] \in {"check", "ensure", "target_stop", "target_wait", "target_attach",
                     "target_start", "ip", "attached"} => target[q] # NoVM
        /\ pc[q] \in {"owner_stop", "owner_wait", "owner_detach", "owner_start"} => owner[q] # NoVM
  <2>1. \E l \in InPci : pc' = [pc EXCEPT ![p] = l]
    BY <1>3, CriticalStep
  <2>2. UNCHANGED target /\ \A q \in Procs \ {p} : owner'[q] = owner[q]
    BY <1>3, CriticalStep
  <2>3. \A q \in Procs \ {p} : NamedAt(q)'
    BY <2>1, <2>2, <1>t DEF Named
  <2> USE DEF Answered, Raises, TimesOut, Request, Frame, Named
  <2>4. CASE CheckTarget(p) \/ EnsureRunning(p) \/ WaitForIp(p) \/ ReadFails(p)
    <3>1. NamedAt(p)'
      BY <2>4, <1>t DEF CheckTarget, EnsureRunning, WaitForIp, ReadFails
    <3> QED BY <3>1, <2>3
  <2>5. CASE find_current_owner(p)
    <3>1. NamedAt(p)'
      BY <2>5, <1>t DEF find_current_owner
    <3> QED BY <3>1, <2>3
  <2>6. CASE StopOwner(p) \/ WaitOwner(p) \/ DetachOwner(p) \/ StartOwner(p)
    <3>1. NamedAt(p)'
      BY <2>6, <1>t DEF StopOwner, WaitOwner, DetachOwner, StartOwner, StopFirst, WaitStopped
    <3> QED BY <3>1, <2>3
  <2>7. CASE StopTarget(p) \/ WaitTarget(p) \/ AttachTarget(p) \/ StartTarget(p)
    <3>1. NamedAt(p)'
      BY <2>7, <1>t DEF StopTarget, WaitTarget, AttachTarget, StartTarget, StopFirst, WaitStopped
    <3> QED BY <3>1, <2>3
  <2> QED BY <1>3, <2>4, <2>5, <2>6, <2>7 DEF Critical
<1>4. ASSUME NEW p \in Procs, Crash(p) PROVE Named'
  BY <1>4, <1>t DEF Crash, Return, Named
<1>5. CASE UNCHANGED <<pc, target, owner>>
  BY <1>5 DEF Named
<1> QED
  BY <1>1, <1>2, <1>3, <1>4, <1>5 DEF Next, Step, StartTask, StopTask, ForeignStart, vars

LEMMA TypeStep ==
  ASSUME TypeOK, Named, [Next]_vars
  PROVE  TypeOK'
<1> USE GpuAssumption DEF TypeOK, Goto, Calm, Fault
<1>h. {"idle", "host", "pci", "unhost"} \cup InPci = {"idle", "host"} \cup InHost
      /\ {"check", "find"} \subseteq InPci
  BY DEF InHost, InPci
<1>1. ASSUME NEW p \in Procs, Call(p) PROVE TypeOK'
  BY <1>1, <1>h DEF Call, locks, world
<1>2. ASSUME NEW p \in Procs, Locking(p) PROVE TypeOK'
  <2>1. CASE LockHost(p) \/ HostTimeout(p)
    BY <2>1, <1>h DEF LockHost, HostTimeout, Return, world, locks
  <2>2. CASE LockPci(p) \/ PciTimeout(p)
    BY <2>2, <1>h DEF LockPci, PciTimeout, world, locks
  <2>3. CASE UnlockPci(p) \/ UnlockHost(p)
    BY <2>3, <1>h DEF UnlockPci, UnlockHost, Return, world, locks
  <2> QED
    BY <1>2, <2>1, <2>2, <2>3 DEF Locking
<1>3. ASSUME NEW p \in Procs, Critical(p) \/ ReadFails(p) PROVE TypeOK'
  <2>1. \E l \in InPci : pc' = [pc EXCEPT ![p] = l]
    BY <1>3, CriticalStep
  <2>2. UNCHANGED <<target, hostLock, pciLock>>
        /\ owner' \in [Procs -> VMs \cup {NoVM}] /\ faults' \in 0..MaxFaults
    BY <1>3, CriticalStep
  <2>3. pc' \in [Procs -> {"idle", "host"} \cup InHost]
    BY <2>1, <1>h
  <2>4. /\ hostpci' \subseteq VMs /\ running' \subseteq VMs /\ passed' \subseteq VMs
        /\ starting' \subseteq VMs /\ stopping' \subseteq VMs
    BY <1>3, WorldStep
  <2> QED BY <2>2, <2>3, <2>4
<1>4. ASSUME NEW p \in Procs, Crash(p) PROVE TypeOK'
  <2>1. faults' \in 0..MaxFaults
    BY <1>4 DEF Crash
  <2> QED BY <1>4, <2>1 DEF Crash, Return, world
<1>5. ASSUME NEW v \in VMs, StartTask(v) \/ StopTask(v) \/ ForeignStart(v) PROVE TypeOK'
  BY <1>5 DEF StartTask, StopTask, ForeignStart, start_vm, locks
<1>6. CASE UNCHANGED vars
  BY <1>6 DEF vars, locks, world
<1> QED
  BY <1>1, <1>2, <1>3, <1>4, <1>5, <1>6 DEF Next, Step

LEMMA StartsNamed == Init => Named
<1>1. Init => \A p \in Procs : pc[p] = "idle" /\ target[p] = NoVM
  BY DEF Init
<1> QED
  BY <1>1 DEF Named

LEMMA StartsWell == Init => TypeOK /\ LockInv /\ Named /\ OneOwner /\ \A p \in Procs : OwnerAt(p)
<1> USE GpuAssumption DEF Init
<1>1. Init => TypeOK
  BY DEF TypeOK
<1>2. Init => LockInv
  BY DEF LockInv, InHost, InPci
<1>3. Init => Named
  BY StartsNamed
<1>4. Init => OneOwner /\ \A p \in Procs : OwnerAt(p)
  BY DEF OneOwner, OwnerAt
<1> QED BY <1>1, <1>2, <1>3, <1>4

\* Whatever processes do, fail at and die of, the model's variables keep
\* their types.
THEOREM TypeCorrect == Spec => []TypeOK
<1>1. Init => TypeOK /\ Named
  BY StartsWell
<1>2. TypeOK /\ Named /\ [Next]_vars => (TypeOK /\ Named)'
  BY TypeStep, NamedStep
<1> QED BY <1>1, <1>2, PTL DEF Spec

\* No two mosdat processes are inside the critical section of one Proxmox
\* node, or of one PCI address, at the same time.
THEOREM Excludes == Spec => []MutualExclusion
<1>1. Init => TypeOK /\ Named /\ LockInv
  BY StartsWell
<1>2. TypeOK /\ Named /\ LockInv /\ [Next]_vars => (TypeOK /\ Named /\ LockInv)'
  BY TypeStep, NamedStep, LockStep
<1>3. LockInv => MutualExclusion
  BY LockExcludes
<1> QED BY <1>1, <1>2, <1>3, PTL DEF Spec

-----------------------------------------------------------------------------
(* Who owns the GPU, when every process has all VMs of its node in its      *)
(* config.  Only two steps touch hostpci, both under the lock of the node.  *)

KnowsNode == \A p \in Procs : Knows[p] = {v \in VMs : HostOf[v] = Node[p]}

\* A step of p that leaves hostpci alone disturbs no other process.
LEMMA OthersKeep ==
  ASSUME TypeOK, NEW p \in Procs, NEW l, pc' = [pc EXCEPT ![p] = l],
         UNCHANGED hostpci,
         \A q \in Procs \ {p} : target'[q] = target[q] /\ owner'[q] = owner[q],
         \A q \in Procs : OwnerAt(q), OwnerAt(p)'
  PROVE  \A q \in Procs : OwnerAt(q)'
<1>1. \A q \in Procs \ {p} : pc'[q] = pc[q]
  BY DEF TypeOK
<1> QED BY <1>1 DEF OwnerAt, OnNode

\* A step of p that writes the VM configuration disturbs no process of
\* another node, and no other process of this node is under its lock.
LEMMA WriteStep ==
  ASSUME TypeOK, LockInv, NEW p \in Procs, NEW l, pc' = [pc EXCEPT ![p] = l],
         pc[p] \in InPci, UNCHANGED <<target, owner>>,
         \A h \in Hosts \ {Node[p]} : OnNode(h)' = OnNode(h),
         \A q \in Procs : OwnerAt(q), OwnerAt(p)'
  PROVE  \A q \in Procs : OwnerAt(q)'
<1>1. \A q \in Procs \ {p} : pc'[q] = pc[q]
  BY DEF TypeOK
<1>2. \A q \in Procs \ {p} : Node[q] = Node[p] => pc[q] \notin InHost
  BY LockExcludes DEF MutualExclusion, InHost
<1>3. \A q \in Procs \ {p} : Node[q] # Node[p] => OnNode(Node[q])' = OnNode(Node[q])
  BY GpuAssumption
<1>4. ASSUME NEW q \in Procs \ {p} PROVE OwnerAt(q)'
  <2>1. CASE Node[q] = Node[p]
    BY <2>1, <1>1, <1>2 DEF OwnerAt, InHost, InPci
  <2>2. CASE Node[q] # Node[p]
    BY <2>2, <1>1, <1>3 DEF OwnerAt
  <2> QED BY <2>1, <2>2
<1> QED BY <1>4

LEMMA OwnerStep ==
  ASSUME KnowsNode, TypeOK, LockInv, Named, OneOwner, \A q \in Procs : OwnerAt(q), [Next]_vars
  PROVE  OneOwner' /\ \A q \in Procs : OwnerAt(q)'
<1> USE GpuAssumption
<1>t. /\ pc \in [Procs -> {"idle", "host"} \cup InHost]
      /\ target \in [Procs -> VMs \cup {NoVM}]
      /\ owner \in [Procs -> VMs \cup {NoVM}]
      /\ hostpci \subseteq VMs
  BY DEF TypeOK
<1>k. \A p \in Procs : Knows[p] = {v \in VMs : HostOf[v] = Node[p]}
  BY DEF KnowsNode
<1>o. UNCHANGED hostpci => OneOwner'
  BY DEF OneOwner
<1> USE DEF Goto
<1>1. ASSUME NEW p \in Procs, Call(p) PROVE OneOwner' /\ \A q \in Procs : OwnerAt(q)'
  <2>1. UNCHANGED <<owner, hostpci>> /\ pc' = [pc EXCEPT ![p] = "host"]
    BY <1>1 DEF Call, world
  <2>2. \A q \in Procs \ {p} : target'[q] = target[q]
    BY <1>1, <1>t DEF Call
  <2>3. OwnerAt(p)'
    BY <2>1, <1>t DEF OwnerAt
  <2> QED BY <2>1, <2>2, <2>3, <1>o, OthersKeep
<1>2. ASSUME NEW p \in Procs, Locking(p) PROVE OneOwner' /\ \A q \in Procs : OwnerAt(q)'
  <2>1. /\ UNCHANGED hostpci
        /\ \A q \in Procs \ {p} : target'[q] = target[q] /\ owner'[q] = owner[q]
        /\ \E l \in {"idle", "pci", "check", "find", "unhost"} : pc' = [pc EXCEPT ![p] = l]
    <3>1. CASE HostTimeout(p) \/ UnlockHost(p)
      BY <3>1, <1>t DEF HostTimeout, UnlockHost, Return, locks, world
    <3>2. CASE LockHost(p) \/ LockPci(p) \/ PciTimeout(p) \/ UnlockPci(p)
      BY <3>2 DEF LockHost, LockPci, PciTimeout, UnlockPci, locks, world
    <3> QED BY <1>2, <3>1, <3>2 DEF Locking
  <2>2. OwnerAt(p)'
    BY <2>1, <1>t DEF OwnerAt
  <2> QED BY <2>1, <2>2, <1>o, OthersKeep
<1>3. ASSUME NEW p \in Procs, Critical(p) \/ ReadFails(p), UNCHANGED hostpci, OwnerAt(p)'
      PROVE  OneOwner' /\ \A q \in Procs : OwnerAt(q)'
  BY <1>3, <1>o, CriticalStep, OthersKeep
<1> DEFINE Mine(p) == OnNode(Node[p])' = OnNode(Node[p])
<1>m. \A p \in Procs : UNCHANGED hostpci => Mine(p)
  BY DEF OnNode
<1>4. ASSUME NEW p \in Procs,
             \/ CheckTarget(p) \/ EnsureRunning(p) \/ find_current_owner(p) \/ StopOwner(p)
             \/ WaitOwner(p) \/ StartOwner(p) \/ StopTarget(p) \/ WaitTarget(p)
             \/ StartTarget(p) \/ WaitForIp(p) \/ ReadFails(p)
      PROVE  OneOwner' /\ \A q \in Procs : OwnerAt(q)'
  <2> USE DEF Answered, Raises, TimesOut, Request, Frame, world, OwnerAt
  <2>a. OwnerAt(p)
    OBVIOUS
  <2>1. CASE CheckTarget(p)
    <3>1. UNCHANGED hostpci
      BY <2>1 DEF CheckTarget
    <3>2. target[p] \in VMs /\ HostOf[target[p]] = Node[p]
      BY <2>1, <1>k DEF CheckTarget, Named
    <3>3. target[p] \in hostpci => OnNode(Node[p]) = {target[p]}
      BY <3>2, <1>t DEF OneOwner, OnNode
    <3>4. OwnerAt(p)'
      BY <2>1, <3>1, <3>3, <1>t, <1>m DEF CheckTarget, has_gpu_attached
    <3> QED BY <3>1, <3>4, <2>1, <1>3 DEF Critical
  <2>2. CASE find_current_owner(p)
    <3>1. UNCHANGED <<hostpci, target>>
      BY <2>2 DEF find_current_owner
    <3>2. {v \in Knows[p] : has_gpu_attached(v)} = OnNode(Node[p])
      BY <1>k, <1>t DEF has_gpu_attached, OnNode
    <3>3. \A v \in OnNode(Node[p]) : OnNode(Node[p]) = {v}
      BY <1>t DEF OneOwner, OnNode
    <3>4. OwnerAt(p)'
      BY <2>2, <3>1, <3>2, <3>3, <1>t, <1>m DEF find_current_owner
    <3> QED BY <3>1, <3>4, <2>2, <1>3 DEF Critical
  <2>3. CASE EnsureRunning(p) \/ StartTarget(p) \/ StartOwner(p)
    <3>1. UNCHANGED hostpci
      BY <2>3 DEF EnsureRunning, StartTarget, StartOwner, start_vm
    <3>2. OwnerAt(p)'
      BY <2>a, <2>3, <3>1, <1>t, <1>m DEF EnsureRunning, StartTarget, StartOwner
    <3> QED BY <3>1, <3>2, <2>3, <1>3 DEF Critical
  <2>4. CASE StopOwner(p) \/ StopTarget(p)
    <3>1. UNCHANGED hostpci
      BY <2>4 DEF StopOwner, StopTarget, StopFirst, stop_vm
    <3>2. OwnerAt(p)'
      BY <2>a, <2>4, <3>1, <1>t, <1>m DEF StopOwner, StopTarget, StopFirst
    <3> QED BY <3>1, <3>2, <2>4, <1>3 DEF Critical
  <2>5. CASE WaitOwner(p) \/ WaitTarget(p) \/ WaitForIp(p) \/ ReadFails(p)
    <3>1. UNCHANGED hostpci
      BY <2>5 DEF WaitOwner, WaitTarget, WaitForIp, WaitStopped, ReadFails
    <3>2. OwnerAt(p)'
      BY <2>a, <2>5, <3>1, <1>t, <1>m DEF WaitOwner, WaitTarget, WaitForIp, WaitStopped, ReadFails
    <3> QED BY <3>1, <3>2, <2>5, <1>3 DEF Critical
  <2> QED BY <1>4, <2>1, <2>2, <2>3, <2>4, <2>5
<1>5. ASSUME NEW p \in Procs, DetachOwner(p) PROVE OneOwner' /\ \A q \in Procs : OwnerAt(q)'
  <2>1. /\ pc[p] = "owner_detach" /\ UNCHANGED <<target, owner>>
        /\ \E l : pc' = [pc EXCEPT ![p] = l] /\ (l \in {"unpci", "hung"} \/ (l = "owner_start" /\ hostpci' = hostpci \ {owner[p]}))
        /\ hostpci' \in {hostpci, hostpci \ {owner[p]}}
    BY <1>5 DEF DetachOwner, Request, Answered, Raises, Frame, detach_gpu, world
  <2>2. OnNode(Node[p]) = {owner[p]}
    BY <2>1 DEF OwnerAt
  <2>3. OneOwner'
    BY <2>1 DEF OneOwner
  <2>4. OwnerAt(p)'
    BY <2>1, <2>2, <1>t DEF OwnerAt, OnNode
  <2>5. \A h \in Hosts \ {Node[p]} : OnNode(h)' = OnNode(h)
    BY <2>1, <2>2 DEF OnNode
  <2> QED BY <2>1, <2>3, <2>4, <2>5, WriteStep DEF InPci
<1>6. ASSUME NEW p \in Procs, AttachTarget(p) PROVE OneOwner' /\ \A q \in Procs : OwnerAt(q)'
  <2>1. /\ pc[p] = "target_attach" /\ UNCHANGED <<target, owner>>
        /\ \E l : pc' = [pc EXCEPT ![p] = l] /\ (l \in {"unpci", "hung"} \/ (l = "target_start" /\ hostpci' = hostpci \cup {target[p]}))
        /\ hostpci' \in {hostpci, hostpci \cup {target[p]}}
    BY <1>6 DEF AttachTarget, Request, Answered, Raises, Frame, attach_gpu, world
  <2>2. OnNode(Node[p]) = {}
    BY <2>1 DEF OwnerAt
  <2>3. target[p] \in VMs /\ HostOf[target[p]] = Node[p]
    BY <2>1, <1>k DEF Named
  <2>4. OneOwner'
    BY <2>1, <2>2, <2>3 DEF OneOwner, OnNode
  <2>5. OwnerAt(p)'
    BY <2>1, <2>2, <2>3, <1>t DEF OwnerAt, OnNode
  <2>6. \A h \in Hosts \ {Node[p]} : OnNode(h)' = OnNode(h)
    BY <2>1, <2>3 DEF OnNode
  <2> QED BY <2>1, <2>4, <2>5, <2>6, WriteStep DEF InPci
<1>7. ASSUME NEW p \in Procs, Crash(p) PROVE OneOwner' /\ \A q \in Procs : OwnerAt(q)'
  <2>1. /\ UNCHANGED hostpci
        /\ \A q \in Procs \ {p} : target'[q] = target[q] /\ owner'[q] = owner[q]
        /\ pc' = [pc EXCEPT ![p] = "idle"]
    BY <1>7, <1>t DEF Crash, Return, world
  <2>2. OwnerAt(p)'
    BY <2>1, <1>t DEF OwnerAt
  <2> QED BY <2>1, <2>2, <1>o, OthersKeep
<1>8. CASE UNCHANGED <<pc, target, owner, hostpci>>
  BY <1>8, <1>o DEF OwnerAt, OnNode
<1> QED
  BY <1>1, <1>2, <1>4, <1>5, <1>6, <1>7, <1>8
     DEF Next, Step, Critical, StartTask, StopTask, ForeignStart, start_vm, vars, world

\* When every process has all VMs of its node in its config, no two VMs of a
\* node ever name the GPU in their configuration, and attach_to_vm returns
\* only with the GPU in the configuration of its target alone, whatever
\* other processes do and whatever fails.
THEOREM GpuOwned == KnowsNode => (Spec => [](OneOwner /\ AttachDelivers))
<1> SUFFICES ASSUME KnowsNode PROVE Spec => [](OneOwner /\ AttachDelivers)
  OBVIOUS
<1> DEFINE IInv == TypeOK /\ LockInv /\ Named /\ OneOwner /\ \A p \in Procs : OwnerAt(p)
<1>1. Init => IInv
  BY StartsWell
<1>2. IInv /\ [Next]_vars => IInv'
  BY TypeStep, NamedStep, LockStep, OwnerStep
<1>3. IInv => OneOwner /\ AttachDelivers
  BY DEF AttachDelivers, OwnerAt, OnNode
<1> QED BY <1>1, <1>2, <1>3, PTL DEF Spec

\* Under the same condition a caller of attach_to_vm that gets its answer finds
\* the GPU in the configuration of its target, and of no other VM of the node.
THEOREM AttachesToTarget == KnowsNode => (Spec => []AttachDelivers)
<1>1. OneOwner /\ AttachDelivers => AttachDelivers
  OBVIOUS
<1> QED BY <1>1, GpuOwned, PTL
=============================================================================
