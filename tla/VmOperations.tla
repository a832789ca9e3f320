---------------------------- MODULE VmOperations ----------------------------
(***************************************************************************)
(* The operations of several mosdat processes on one VM: snapshots and     *)
(* reset (src/automation/proxmox/vm.py), deployments, functional runs and  *)
(* the readiness probe of the MCP server (src/automation/mcp_tools.py).    *)
(*                                                                         *)
(* Operations on one VMID exclude each other by a flock, waited for or,    *)
(* in the MCP tools, only tried.  A snapshot operation is a Proxmox task   *)
(* which its caller polls until a deadline; a deployment runs over SSH.    *)
(* Both may outlive the caller and its lock, and a request to Proxmox that *)
(* is never answered keeps both for ever.                                  *)
(***************************************************************************)
EXTENDS VmDisk, Naturals, FiniteSets

CONSTANTS NoOp,
          MaxFaults, \* bound on calls that fail and on crashes
          MaxLeft    \* bound on the tasks left behind when a call is made

ASSUME OperationsAssumption ==
  /\ NoOp \notin Ops
  /\ MaxFaults \in Nat /\ MaxLeft \in Nat

VARIABLES
  pc,        \* where every process stands
  op,        \* the operation it was called for
  lock,      \* holder of mosdat-vm-<vmid>.lock
  task,      \* the Proxmox task (or the installation) it waits for
  left,      \* tasks nobody waits for any more
  answer,    \* the last answer a process got
  run,       \* the processes that are in a functional run
  disturbed, \* has one of them, or a deploy without the lock, taken effect
             \* since the lock was last taken?
  faults     \* failures so far (a bound, not state of the code)

vars == <<store, pc, op, lock, task, left, answer, run, disturbed, faults>>

Calm  == UNCHANGED faults
Fault == faults < MaxFaults /\ faults' = faults + 1

At(p, l)   == pc[p] = l
Goto(p, l) == pc' = [pc EXCEPT ![p] = l]
Tasked(p, s) == task' = [task EXCEPT ![p] = s]

\* the operation ends: the context manager of the lock closes on the way
Leave(p, r) ==
  /\ Goto(p, "idle")
  /\ op' = [op EXCEPT ![p] = NoOp]
  /\ lock' = NoProc /\ disturbed' = FALSE
  /\ Tasked(p, "none")
  /\ answer' = r
  /\ UNCHANGED <<store, run>>

\* the task of p goes on without p
Abandon(p) ==
  left' = IF task[p] \in {"queued", "active"}
          THEN left \cup {[op |-> op[p], status |-> task[p]]} ELSE left

-----------------------------------------------------------------------------
(* Calls.  A run makes and uses checkpoints; the functional command resets  *)
(* a frozen VM before it starts one; the tools of the MCP server deploy.    *)

Asks(p) == IF p \in run THEN Snapshots ELSE {o \in Deploys : o.arg = p} \cup Resets

Call(p) ==
  /\ At(p, "idle") /\ Cardinality(left) <= MaxLeft
  /\ \E o \in Asks(p) : op' = [op EXCEPT ![p] = o]
  /\ Goto(p, "lock")
  /\ UNCHANGED <<store, lock, task, left, answer, run, disturbed>> /\ Calm

\* mosdat_run_functional takes no lock for the run as a whole
BeginRun(p) ==
  /\ At(p, "idle") /\ p \notin run
  /\ run' = run \cup {p}
  /\ UNCHANGED <<store, pc, op, lock, task, left, answer, disturbed>> /\ Calm

EndRun(p) ==
  /\ At(p, "idle") /\ p \in run
  /\ run' = run \ {p}
  /\ UNCHANGED <<store, pc, op, lock, task, left, answer, disturbed>> /\ Calm

\* `mosdat build` with its deployments, on the command line, takes no lock at all
BareDeploy(p) ==
  /\ At(p, "idle") /\ p \notin run
  /\ Effect([kind |-> "deploy", arg |-> p])
  /\ disturbed' = (lock # NoProc)
  /\ UNCHANGED <<pc, op, lock, task, left, answer, run>> /\ Calm

-----------------------------------------------------------------------------
(* _vm_lock: flock(LOCK_EX | LOCK_NB), polled until the deadline.           *)

\* mutant: the lock is taken over when the deadline has passed
Lock_forced(p) ==
  /\ At(p, "lock")
  /\ lock' = p
  /\ Goto(p, IF op[p] \in Deploys THEN "install" ELSE "post")
  /\ UNCHANGED <<store, op, task, left, answer, run, disturbed>> /\ Calm

Lock(p) ==
  /\ At(p, "lock") /\ lock = NoProc
  /\ lock' = p
  /\ Goto(p, IF op[p] \in Deploys THEN "install" ELSE "post")
  /\ UNCHANGED <<store, op, task, left, answer, run, disturbed>> /\ Calm

\* timeout=0 for the tools, which answer "vm busy"; the others gave up waiting
LockTimeout(p) ==
  /\ At(p, "lock") /\ lock # NoProc
  /\ Goto(p, "idle")
  /\ answer' = (IF op[p] \in Deploys THEN "busy" ELSE "raised")
  /\ op' = [op EXCEPT ![p] = NoOp]
  /\ UNCHANGED <<store, lock, task, left, run, disturbed>> /\ Calm

\* _vm_busy of mosdat_readiness tries the lock and drops it
Probe(p) ==
  /\ At(p, "idle") /\ p \notin run /\ lock = NoProc
  /\ lock' = p
  /\ Goto(p, "probe")
  /\ UNCHANGED <<store, op, task, left, answer, run, disturbed>> /\ Calm

EndProbe(p) ==
  /\ At(p, "probe")
  /\ lock' = NoProc /\ disturbed' = FALSE
  /\ Goto(p, "idle")
  /\ UNCHANGED <<store, op, task, left, answer, run>> /\ Calm

-----------------------------------------------------------------------------
(* snapshot, rollback, delete_snapshot: a request, then _wait_for_task.     *)

Post(p) ==
  /\ At(p, "post") /\ op[p] \in Snapshots
  /\ \/ /\ Goto(p, "wait") /\ Tasked(p, "queued") /\ Calm
        /\ UNCHANGED <<store, op, lock, left, answer, run, disturbed>>
     \/ /\ Leave(p, "raised") /\ Fault
        /\ left' \in {left, left \cup {[op |-> op[p], status |-> "queued"]}}

\* reset_vm does not wait for the task it starts
Reset(p) ==
  /\ At(p, "post") /\ op[p] \in Resets
  /\ \/ /\ Goto(p, "done") /\ Tasked(p, "ok") /\ Calm
        /\ UNCHANGED <<store, op, lock, left, answer, run, disturbed>>
     \/ Leave(p, "raised") /\ UNCHANGED left /\ Fault

\* mutant: a task that stopped has succeeded, whatever its exitstatus
TaskOK_stopped(p) ==
  /\ At(p, "wait") /\ task[p] \in {"ok", "failed"}
  /\ Leave(p, "ok")
  /\ UNCHANGED left /\ Calm

\* the poll finds the task stopped with exitstatus OK
TaskOK(p) ==
  /\ At(p, "wait") /\ task[p] = "ok"
  /\ Leave(p, "ok")
  /\ UNCHANGED left /\ Calm

TaskFailed(p) ==
  /\ At(p, "wait") /\ task[p] = "failed"
  /\ Leave(p, "raised")
  /\ UNCHANGED left /\ Calm

\* mutant: a poll that fails is repeated for ever
Deadline_never(p) ==
  /\ At(p, "wait") /\ task[p] = "queued"
  /\ UNCHANGED vars

\* 120 s have passed, or Proxmox cannot be reached; until then a poll that it
\* answers with an error is repeated
Deadline(p) ==
  /\ At(p, "wait")
  /\ Leave(p, "raised")
  /\ Abandon(p) /\ Calm

\* No request has a timeout: one that is never answered leaves its process
\* hung, with the lock; the request may have been made, and its task goes on.
Hang(p) ==
  /\ \/ At(p, "post") /\ op[p] \in Snapshots /\ (Tasked(p, "queued") \/ UNCHANGED task)
     \/ At(p, "post") /\ op[p] \in Resets /\ UNCHANGED task
     \/ At(p, "wait") /\ UNCHANGED task
  /\ Goto(p, "hung")
  /\ UNCHANGED <<store, op, lock, left, answer, run, disturbed>> /\ Fault

-----------------------------------------------------------------------------
(* deploy_to_vm and its kin: an installation over SSH under the lock.       *)

Install(p) ==
  /\ At(p, "install")
  /\ Effect(op[p]) /\ Goto(p, "done") /\ Tasked(p, "ok")
  /\ UNCHANGED <<op, lock, left, answer, run, disturbed>> /\ Calm

\* an SSH timeout leaves the command running on the VM
InstallFails(p) ==
  /\ At(p, "install")
  /\ Leave(p, "raised") /\ Fault
  /\ left' \in {left, left \cup {[op |-> op[p], status |-> "active"]}}

Return(p) ==
  /\ At(p, "done")
  /\ Leave(p, "ok")
  /\ UNCHANGED left /\ Calm

\* the check of the symbols after the installation, or a later command, fails
ReturnFails(p) ==
  /\ At(p, "done") /\ op[p] \in Deploys
  /\ Leave(p, "raised")
  /\ UNCHANGED left /\ Fault

\* the kernel drops the flock of a killed process; its task goes on
Crash(p) ==
  /\ ~At(p, "idle") \/ p \in run
  /\ Goto(p, "idle")
  /\ run' = run \ {p}
  /\ op' = [op EXCEPT ![p] = NoOp]
  /\ IF lock = p THEN lock' = NoProc /\ disturbed' = FALSE ELSE UNCHANGED <<lock, disturbed>>
  /\ Tasked(p, "none") /\ answer' = "none"
  /\ IF At(p, "install")
     THEN left' \in {left, left \cup {[op |-> op[p], status |-> "active"]}}
     ELSE Abandon(p)
  /\ UNCHANGED store /\ Fault

-----------------------------------------------------------------------------
(* Proxmox runs one task at a time on a VM and fails those that find the    *)
(* VM locked; it is not in the repository.                                  *)

Locked == \/ \E p \in Procs : task[p] = "active"
          \/ \E t \in left : t.status = "active" /\ t.op \notin Deploys

TaskStarts(p) ==
  /\ task[p] = "queued"
  /\ Tasked(p, IF Locked THEN "failed" ELSE "active")
  /\ UNCHANGED <<store, pc, op, lock, left, answer, run, disturbed>> /\ Calm

TaskEnds(p) ==
  /\ task[p] = "active"
  /\ \/ Possible(op[p]) /\ Effect(op[p]) /\ Tasked(p, "ok") /\ Calm
     \/ ~Possible(op[p]) /\ UNCHANGED store /\ Tasked(p, "failed") /\ Calm
     \/ UNCHANGED store /\ Tasked(p, "failed") /\ Fault
  /\ UNCHANGED <<pc, op, lock, left, answer, run, disturbed>>

LeftStarts(t) ==
  /\ t.status = "queued"
  /\ left' = (left \ {t}) \cup IF Locked THEN {} ELSE {[t EXCEPT !.status = "active"]}
  /\ UNCHANGED <<store, pc, op, lock, task, answer, run, disturbed>> /\ Calm

LeftEnds(t) ==
  /\ t.status = "active"
  /\ left' = left \ {t}
  /\ IF Possible(t.op) THEN Effect(t.op) /\ disturbed' = (lock # NoProc)
     ELSE UNCHANGED <<store, disturbed>>
  /\ UNCHANGED <<pc, op, lock, task, answer, run>> /\ Calm

-----------------------------------------------------------------------------
Init ==
  /\ StoreInit
  /\ pc = [p \in Procs |-> "idle"]
  /\ op = [p \in Procs |-> NoOp]
  /\ answer = "none"
  /\ lock = NoProc
  /\ task = [p \in Procs |-> "none"]
  /\ left = {} /\ run = {}
  /\ disturbed = FALSE /\ faults = 0

\* what a process that was called does next
Step(p) == \/ Lock(p) \/ LockTimeout(p) \/ EndProbe(p)
           \/ Post(p) \/ Reset(p) \/ TaskOK(p) \/ TaskFailed(p) \/ Deadline(p) \/ Hang(p)
           \/ Install(p) \/ InstallFails(p) \/ Return(p) \/ ReturnFails(p)

Proxmox == \/ \E p \in Procs : TaskStarts(p) \/ TaskEnds(p)
           \/ \E t \in left : LeftStarts(t) \/ LeftEnds(t)

Next == \/ \E p \in Procs : \/ Call(p) \/ BeginRun(p) \/ EndRun(p) \/ BareDeploy(p)
                            \/ Probe(p) \/ Step(p) \/ Crash(p)
        \/ Proxmox

Spec == Init /\ [][Next]_vars

\* Python executes the next statement, unless that is a request nobody answers
\* ("hung"); waiting ends at a deadline whatever Proxmox does.
FairSpec == Spec /\ \A p \in Procs : WF_vars(Step(p))

-----------------------------------------------------------------------------
(* Properties.                                                              *)

Places == {"idle", "lock", "probe", "post", "wait", "install", "done", "hung"}
Inside == {"post", "wait", "install", "done", "hung"}

TypeOK ==
  /\ StoreOK
  /\ pc \in [Procs -> Places]
  /\ op \in [Procs -> Ops \cup {NoOp}]
  /\ answer \in {"none", "ok", "raised", "busy"}
  /\ lock \in Procs \cup {NoProc}
  /\ task \in [Procs -> {"none", "queued", "active", "ok", "failed"}]
  /\ left \subseteq [op : Snapshots \cup Deploys, status : {"queued", "active"}]
  /\ run \subseteq Procs
  /\ disturbed \in BOOLEAN
  /\ faults \in 0..MaxFaults

\* The operations keep the promise of VmPromise: one at a time, each at most
\* once and as a whole, and "ok" only after it took effect, through lock
\* timeouts, failed requests, tasks that outlive their caller, and crashes.
Caller  == IF lock # NoProc /\ pc[lock] \in Inside THEN lock ELSE NoProc
Promise == INSTANCE VmPromise WITH
             caller <- Caller,
             op     <- IF Caller = NoProc THEN NoOp ELSE op[Caller],
             done   <- Caller # NoProc /\ task[Caller] = "ok",
             later  <- {t.op : t \in left}

KeepsPromise == Promise!Spec

\* An operation that returns normally has delivered: the snapshot holds the
\* disk, the disk is that of the snapshot, the snapshot is gone, the build is
\* installed.  Nobody else got in between, unless some task that its caller
\* had given up, or a deploy without the lock, took effect meanwhile.
Delivers ==
  [][answer' = "ok" /\ ~disturbed =>
       \A p \in Procs, o \in Ops : op[p] = o /\ op'[p] = NoOp => Delivered(o)']_vars

\* Every call is answered unless a request of its own never is: a task that
\* does not end is given up, and so is the lock of a process that hangs.
CallReturns == \A p \in Procs : []<>(pc[p] \in {"idle", "hung"})

\* "mosdat_build, mosdat_deploy, and mosdat_run_functional each acquire
\* _vm_lock(vmid) for the target VM before proceeding"
\* (specs/001-agent-desktop-testing/contracts/mcp-tools.md:183): no tool
\* installs a build on a VM on which a run is in flight.
NoSilentRace == \A p \in run : \A q \in Procs \ {p} : ~At(q, "install")
=============================================================================
