--------------------------- MODULE GpuPassthrough ---------------------------
(***************************************************************************)
(* GPU passthrough on Proxmox (src/automation/proxmox/gpu.py) by several   *)
(* mosdat processes at once, with the part of the Proxmox API it uses      *)
(* (src/automation/proxmox/api.py).                                        *)
(*                                                                         *)
(* attach_to_vm and detach_from_current run under two advisory locks, one  *)
(* per Proxmox node and one per PCI address, taken in that order.  The VM  *)
(* configuration, the VMs and their start and stop tasks live in Proxmox:  *)
(* a POST only queues a task, which runs later.  A call may fail before or *)
(* after it took effect, or never return, for no request has a timeout; a  *)
(* process may be killed between any two steps, and the kernel then drops  *)
(* its flocks.                                                             *)
(***************************************************************************)
EXTENDS Naturals

CONSTANTS Procs,      \* mosdat processes that move a GPU
          VMs,        \* the VMs of all nodes
          Hosts,      \* Proxmox nodes
          Pcis,       \* PCI addresses
          NoVM, NoProc,
          HostOf,     \* the node a VM lives on
          Node,       \* config.node of every process
          Pci,        \* config.gpu_pci_address of every process
          Knows,      \* the VMs every process has in its config
          Foreign,    \* VMs other mosdat commands may start at any time
          MaxFaults   \* bound on failed calls, timeouts and crashes

ASSUME GpuAssumption ==
  /\ NoVM \notin VMs
  /\ NoProc \notin Procs
  /\ HostOf \in [VMs -> Hosts]
  /\ Node \in [Procs -> Hosts]
  /\ Pci \in [Procs -> Pcis]
  /\ Knows \in [Procs -> SUBSET VMs]
  /\ \A p \in Procs : \A v \in Knows[p] : HostOf[v] = Node[p]
  /\ Foreign \subseteq VMs
  /\ MaxFaults \in Nat

VARIABLES
  pc,        \* where every process stands
  target,    \* the VM attach_to_vm was called with, NoVM in detach_from_current
  owner,     \* the local current_owner
  hostLock,  \* holder of mosdat-gpu-<host>.lock
  pciLock,   \* holder of mosdat-gpu-<pci>.lock
  hostpci,   \* the VMs with hostpci0 in their configuration
  running,   \* the VMs whose QEMU process runs
  passed,    \* the VMs whose QEMU process holds the GPU
  starting,  \* queued start tasks
  stopping,  \* queued stop tasks
  faults     \* failures so far (a bound, not state of the code)

locks == <<hostLock, pciLock>>
world == <<hostpci, running, passed, starting, stopping>>
vars  == <<pc, target, owner, locks, world, faults>>

Goto(p, l) == pc' = [pc EXCEPT ![p] = l]
Calm  == UNCHANGED faults
Fault == faults < MaxFaults /\ faults' = faults + 1
Frame == UNCHANGED <<target, owner, locks>>

\* the call is over, and its locals with it
Return(p) ==
  /\ Goto(p, "idle")
  /\ target' = [target EXCEPT ![p] = NoVM]
  /\ owner' = [owner EXCEPT ![p] = NoVM]

-----------------------------------------------------------------------------
(* api.py.  An answered call takes effect and goes on; a call that raises   *)
(* may have taken effect or not, for no POST or PUT is ever retried.  No    *)
(* request is given a timeout: one that is never answered leaves the        *)
(* process hung, with its locks, until somebody kills it.                   *)

Answered(p, l) == Goto(p, l) /\ Calm
Raises(p)      == (Goto(p, "unpci") \/ Goto(p, "hung")) /\ Fault

\* a polling loop whose deadline passed raises GPUError
TimesOut(p)    == Goto(p, "unpci") /\ Calm

Request(p, l, effect) ==
  \/ effect /\ (Answered(p, l) \/ Raises(p))
  \/ UNCHANGED world /\ Raises(p)

start_vm(v) ==
  starting' = starting \cup {v} /\ UNCHANGED <<hostpci, running, passed, stopping>>
stop_vm(v) ==
  stopping' = stopping \cup {v} /\ UNCHANGED <<hostpci, running, passed, starting>>
attach_gpu(v) ==
  hostpci' = hostpci \cup {v} /\ UNCHANGED <<running, passed, starting, stopping>>
detach_gpu(v) ==
  hostpci' = hostpci \ {v} /\ UNCHANGED <<running, passed, starting, stopping>>

has_gpu_attached(v) == v \in hostpci

\* Proxmox runs a queued task.  QEMU takes the GPU its configuration names
\* when it starts, and does not start when another VM of the node holds it.
Busy(v) == v \in hostpci /\ \E w \in passed \ {v} : HostOf[w] = HostOf[v]

StartTask(v) ==
  /\ v \in starting
  /\ starting' = starting \ {v}
  /\ IF v \in running \/ Busy(v)
     THEN UNCHANGED <<running, passed>>
     ELSE /\ running' = running \cup {v}
          /\ passed' = IF v \in hostpci THEN passed \cup {v} ELSE passed
  /\ UNCHANGED <<pc, target, owner, locks, hostpci, stopping, faults>>

StopTask(v) ==
  /\ v \in stopping
  /\ stopping' = stopping \ {v}
  /\ running' = running \ {v}
  /\ passed' = passed \ {v}
  /\ UNCHANGED <<pc, target, owner, locks, hostpci, starting, faults>>

\* VMOperations.ensure_running, wait_vm_ready and others start a VM that
\* is not running, without the GPU locks
ForeignStart(v) ==
  /\ v \in Foreign \ running
  /\ start_vm(v)
  /\ UNCHANGED <<pc, target, owner, locks, faults>>

-----------------------------------------------------------------------------
(* _host_gpu_lock and gpu_lock: flock(LOCK_EX | LOCK_NB), polled.           *)

Call(p) ==
  /\ pc[p] = "idle"
  /\ \E v \in Knows[p] \cup {NoVM} : target' = [target EXCEPT ![p] = v]
  /\ Goto(p, "host")
  /\ UNCHANGED <<owner, locks, world>> /\ Calm

LockHost(p) ==
  /\ pc[p] = "host"
  /\ hostLock[Node[p]] = NoProc
  /\ hostLock' = [hostLock EXCEPT ![Node[p]] = p]
  /\ Goto(p, "pci")
  /\ UNCHANGED <<target, owner, pciLock, world>> /\ Calm

\* the deadline is looked at only after a failed try
HostTimeout(p) ==
  /\ pc[p] = "host"
  /\ hostLock[Node[p]] # NoProc
  /\ Return(p)
  /\ UNCHANGED <<locks, world>> /\ Calm

\* mutant: "force-acquiring" a lock somebody holds
LockPci_forced(p) ==
  /\ pc[p] = "pci"
  /\ pciLock' = [pciLock EXCEPT ![Pci[p]] = p]
  /\ Goto(p, IF target[p] = NoVM THEN "find" ELSE "check")
  /\ UNCHANGED <<target, owner, hostLock, world>> /\ Calm

LockPci(p) ==
  /\ pc[p] = "pci"
  /\ pciLock[Pci[p]] = NoProc
  /\ pciLock' = [pciLock EXCEPT ![Pci[p]] = p]
  /\ Goto(p, IF target[p] = NoVM THEN "find" ELSE "check")
  /\ UNCHANGED <<target, owner, hostLock, world>> /\ Calm

\* ProxmoxLockTimeout, however old the lock file is
PciTimeout(p) ==
  /\ pc[p] = "pci"
  /\ pciLock[Pci[p]] # NoProc
  /\ Goto(p, "unhost")
  /\ UNCHANGED <<target, owner, locks, world>> /\ Calm

\* the finally clauses, inner before outer
UnlockPci(p) ==
  /\ pc[p] \in {"unpci", "attached"}
  /\ pciLock' = [pciLock EXCEPT ![Pci[p]] = NoProc]
  /\ Goto(p, "unhost")
  /\ UNCHANGED <<target, owner, hostLock, world>> /\ Calm

UnlockHost(p) ==
  /\ pc[p] = "unhost"
  /\ hostLock' = [hostLock EXCEPT ![Node[p]] = NoProc]
  /\ Return(p)
  /\ UNCHANGED <<pciLock, world>> /\ Calm

\* a killed process: its file descriptors close, its requests stay made
Crash(p) ==
  /\ pc[p] # "idle"
  /\ Return(p)
  /\ hostLock' = [h \in Hosts |-> IF hostLock[h] = p THEN NoProc ELSE hostLock[h]]
  /\ pciLock' = [a \in Pcis |-> IF pciLock[a] = p THEN NoProc ELSE pciLock[a]]
  /\ UNCHANGED world /\ Fault

-----------------------------------------------------------------------------
(* The critical section.                                                   *)

\* a GET that fails after its retries, or is never answered
ReadFails(p) ==
  /\ pc[p] \in {"check", "ensure", "find", "owner_stop", "owner_wait", "target_stop", "target_wait",
               "ip"}
  /\ Raises(p)
  /\ Frame /\ UNCHANGED world

\* mutant: the current owner keeps its GPU
CheckTarget_undetached(p) ==
  /\ pc[p] = "check"
  /\ Answered(p, IF has_gpu_attached(target[p]) THEN "ensure" ELSE "target_stop")
  /\ Frame /\ UNCHANGED world

CheckTarget(p) ==
  /\ pc[p] = "check"
  /\ Answered(p, IF has_gpu_attached(target[p]) THEN "ensure" ELSE "find")
  /\ Frame /\ UNCHANGED world

EnsureRunning(p) ==
  /\ pc[p] = "ensure"
  /\ IF target[p] \in running
     THEN Answered(p, "ip") /\ UNCHANGED world
     ELSE Request(p, "ip", start_vm(target[p]))
  /\ Frame

\* mutant: no test for "no owner"
find_current_owner_unchecked(p) ==
  /\ pc[p] = "find"
  /\ \E v \in Knows[p] \cup {NoVM} :
       /\ v = NoVM => \A w \in Knows[p] : ~has_gpu_attached(w)
       /\ v # NoVM => has_gpu_attached(v)
       /\ owner' = [owner EXCEPT ![p] = v]
  /\ Answered(p, "owner_stop")
  /\ UNCHANGED <<target, locks, world>>

\* find_current_owner asks for one VM of the config after another
find_current_owner(p) ==
  /\ pc[p] = "find"
  /\ LET owners == {v \in Knows[p] : has_gpu_attached(v)}
     IN  \/ \E v \in owners :
              /\ owner' = [owner EXCEPT ![p] = v]
              /\ Answered(p, "owner_stop")
         \/ /\ owners = {}
            /\ owner' = [owner EXCEPT ![p] = NoVM]
            /\ Answered(p, IF target[p] = NoVM THEN "unpci" ELSE "target_stop")
  /\ UNCHANGED <<target, locks, world>>

\* get_vm_status, then stop_vm and wait_for_status if it said running
StopFirst(p, v, at, wait, next) ==
  /\ pc[p] = at
  /\ IF v \in running
     THEN Request(p, wait, stop_vm(v))
     ELSE Answered(p, next) /\ UNCHANGED world
  /\ Frame

\* "stopped" is seen, or the 60 s pass and GPUError is raised
WaitStopped(p, v, at, next) ==
  /\ pc[p] = at
  /\ \/ v \notin running /\ Answered(p, next)
     \/ v \in running /\ TimesOut(p)
  /\ Frame /\ UNCHANGED world

StopOwner(p)  == StopFirst(p, owner[p], "owner_stop", "owner_wait", "owner_detach")
WaitOwner(p)  == WaitStopped(p, owner[p], "owner_wait", "owner_detach")
StopTarget(p) == StopFirst(p, target[p], "target_stop", "target_wait", "target_attach")
WaitTarget(p) == WaitStopped(p, target[p], "target_wait", "target_attach")

DetachOwner(p) ==
  /\ pc[p] = "owner_detach"
  /\ Request(p, "owner_start", detach_gpu(owner[p]))
  /\ Frame

StartOwner(p) ==
  /\ pc[p] = "owner_start"
  /\ Request(p, IF target[p] = NoVM THEN "unpci" ELSE "target_stop", start_vm(owner[p]))
  /\ Frame

\* mutant: a failed PUT is swallowed
AttachTarget_swallowed(p) ==
  /\ pc[p] = "target_attach"
  /\ \/ attach_gpu(target[p]) /\ Answered(p, "target_start")
     \/ UNCHANGED world /\ Goto(p, "target_start") /\ Fault
  /\ Frame

AttachTarget(p) ==
  /\ pc[p] = "target_attach"
  /\ Request(p, "target_start", attach_gpu(target[p]))
  /\ Frame

StartTarget(p) ==
  /\ pc[p] = "target_start"
  /\ Request(p, "ip", start_vm(target[p]))
  /\ Frame

\* mutant: no deadline
WaitForIp_forever(p) ==
  /\ pc[p] = "ip"
  /\ target[p] \in running /\ Answered(p, "attached")
  /\ Frame /\ UNCHANGED world

\* wait_for_ip: the guest agent answers, or 120 s pass and GPUError is raised
WaitForIp(p) ==
  /\ pc[p] = "ip"
  /\ \/ target[p] \in running /\ Answered(p, "attached")
     \/ TimesOut(p)
  /\ Frame /\ UNCHANGED world

-----------------------------------------------------------------------------
Init ==
  /\ pc = [p \in Procs |-> "idle"]
  /\ target = [p \in Procs |-> NoVM]
  /\ owner = [p \in Procs |-> NoVM]
  /\ hostLock = [h \in Hosts |-> NoProc]
  /\ pciLock = [a \in Pcis |-> NoProc]
  /\ running \in SUBSET VMs
  /\ hostpci \in SUBSET VMs
  /\ \A v, w \in hostpci : HostOf[v] = HostOf[w] => v = w
  /\ passed = hostpci \cap running
  /\ starting = {} /\ stopping = {}
  /\ faults = 0

Locking(p) == \/ LockHost(p) \/ HostTimeout(p) \/ LockPci(p) \/ PciTimeout(p)
              \/ UnlockPci(p) \/ UnlockHost(p)

Critical(p) == \/ CheckTarget(p) \/ EnsureRunning(p) \/ find_current_owner(p)
               \/ StopOwner(p) \/ WaitOwner(p) \/ DetachOwner(p) \/ StartOwner(p)
               \/ StopTarget(p) \/ WaitTarget(p) \/ AttachTarget(p) \/ StartTarget(p)
               \/ WaitForIp(p)

Step(p) == Locking(p) \/ Critical(p) \/ ReadFails(p)

Next == \/ \E p \in Procs : Call(p) \/ Step(p) \/ Crash(p)
        \/ \E v \in VMs : StartTask(v) \/ StopTask(v) \/ ForeignStart(v)

Spec == Init /\ [][Next]_vars

\* A live process executes its next statement, unless that is a request
\* nobody answers ("hung").  Proxmox may never run a task.
FairSpec == Spec /\ \A p \in Procs : WF_vars(Step(p))

-----------------------------------------------------------------------------
(* Properties.                                                             *)

InPci  == {"check", "ensure", "find", "owner_stop", "owner_wait", "owner_detach", "owner_start",
           "target_stop", "target_wait", "target_attach", "target_start", "ip",
           "attached", "unpci", "hung"}
InHost == InPci \cup {"pci", "unhost"}

TypeOK ==
  /\ pc \in [Procs -> {"idle", "host"} \cup InHost]
  /\ target \in [Procs -> VMs \cup {NoVM}]
  /\ owner \in [Procs -> VMs \cup {NoVM}]
  /\ hostLock \in [Hosts -> Procs \cup {NoProc}]
  /\ pciLock \in [Pcis -> Procs \cup {NoProc}]
  /\ hostpci \subseteq VMs
  /\ running \subseteq VMs
  /\ passed \subseteq VMs
  /\ starting \subseteq VMs
  /\ stopping \subseteq VMs
  /\ faults \in 0..MaxFaults

\* "Serializes GPU passthrough operations (attach/detach) across concurrent
\* callers targeting the same Proxmox node" (gpu.py:35): also through crashes
\* and timeouts, and per PCI address inside that.
MutualExclusion ==
  \A p, q \in Procs : p # q =>
    /\ ~(pc[p] \in InHost /\ pc[q] \in InHost /\ Node[p] = Node[q])
    /\ ~(pc[p] \in InPci /\ pc[q] \in InPci /\ Pci[p] = Pci[q])

\* No two VMs of a node ever name the GPU in their configuration at the same
\* time, whatever call fails and wherever a process dies (as long as every
\* process has all VMs of its node in its config).
OneOwner == \A v, w \in hostpci : HostOf[v] = HostOf[w] => v = w

\* When attach_to_vm returns, the configuration of the target, and of no
\* other VM of its node, names the GPU.
AttachDelivers ==
  \A p \in Procs : pc[p] = "attached" =>
    target[p] \in hostpci /\ \A v \in hostpci : HostOf[v] = Node[p] => v = target[p]

\* "wait_for_ip (GPU online verification)" (gpu.py:195): when attach_to_vm has
\* its IP, the running QEMU process of the target holds the GPU.
GpuOnline == \A p \in Procs : pc[p] = "attached" /\ target[p] \in running => target[p] \in passed

\* MutualExclusion, OneOwner and AttachDelivers made inductive: the locks say
\* who is inside, and where a process stands tells which VMs of its node
\* have the GPU in their configuration.
LockInv ==
  /\ \A p \in Procs : /\ pc[p] \in InHost => hostLock[Node[p]] = p
                      /\ pc[p] \in InPci => pciLock[Pci[p]] = p
  /\ \A h \in Hosts : hostLock[h] # NoProc => pc[hostLock[h]] \in InHost /\ Node[hostLock[h]] = h
  /\ \A a \in Pcis : pciLock[a] # NoProc => pc[pciLock[a]] \in InPci /\ Pci[pciLock[a]] = a

OnNode(h) == {v \in hostpci : HostOf[v] = h}

\* the locals that a step uses as a VM name one
Named ==
  \A p \in Procs :
    /\ target[p] \in Knows[p] \cup {NoVM}
    /\ pc[p] \in {"check", "ensure", "target_stop", "target_wait", "target_attach",
                 "target_start", "ip", "attached"} => target[p] # NoVM
    /\ pc[p] \in {"owner_stop", "owner_wait", "owner_detach", "owner_start"} => owner[p] # NoVM

OwnerAt(p) ==
  /\ pc[p] \in {"owner_stop", "owner_wait", "owner_detach"} => OnNode(Node[p]) = {owner[p]}
  /\ pc[p] \in {"owner_start", "target_stop", "target_wait", "target_attach"} => OnNode(Node[p]) = {}
  /\ pc[p] \in {"ensure", "target_start", "ip", "attached"} => OnNode(Node[p]) = {target[p]}

GpuInv == LockInv /\ Named /\ OneOwner /\ \A p \in Procs : OwnerAt(p)

\* Every call ends unless a request of its own is never answered: the locks
\* are not waited for in a circle, every wait has a deadline, and who waits
\* for the lock of a process that hangs gives up.
CallEnds == \A p \in Procs : []<>(pc[p] \in {"idle", "hung"})
=============================================================================
