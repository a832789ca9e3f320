------------------------- MODULE VmOperationsProofs -------------------------
(* The operations on one VM implement VmPromise, for any number of          *)
(* processes and snapshots.                                                 *)
EXTENDS VmOperations, TLAPS

LEMMA EffectType ==
  ASSUME StoreOK, NEW o \in Ops, Possible(o), Effect(o)
  PROVE  StoreOK'
<1>1. CASE o \in Snapshots
  BY <1>1 DEF StoreOK, Ops, Snapshots, Possible, Effect, Builds
<1>2. CASE o \in Deploys
  BY <1>2 DEF StoreOK, Deploys, Effect, Builds
<1>3. CASE o \in Resets
  BY <1>3 DEF StoreOK, Resets, Effect, Builds
<1>4. QED
  BY <1>1, <1>2, <1>3 DEF Ops

LEMMA DeployEffect ==
  ASSUME StoreOK, NEW p \in Procs, Effect([kind |-> "deploy", arg |-> p])
  PROVE  StoreOK'
BY DEF StoreOK, Effect, Builds

\* What ties lock, task and operation of a process to where it stands.
ProcInv(p) ==
  /\ pc[p] \in Inside \cup {"probe"} => lock = p
  /\ pc[p] \in Inside \cup {"lock"} => op[p] \in Ops
  /\ pc[p] = "wait" => op[p] \in Snapshots
  /\ pc[p] = "install" => op[p] \in Deploys
  /\ task[p] # "none" => pc[p] \in {"wait", "done", "hung"}
  /\ pc[p] = "hung" /\ task[p] # "none" => op[p] \in Snapshots
  /\ pc[p] = "wait" => task[p] # "none"
  /\ pc[p] = "done" => task[p] = "ok"

OpInv == TypeOK /\ \A p \in Procs : ProcInv(p)

LEMMA Disjoint ==
  /\ Snapshots \cap Deploys = {} /\ Snapshots \cap Resets = {} /\ Deploys \cap Resets = {}
  /\ Snapshots \subseteq Ops /\ Deploys \subseteq Ops /\ Resets \subseteq Ops
  /\ NoProc \notin Procs
<1>1. \A o \in Snapshots : o.kind \in {"snapshot", "rollback", "delete"}
  BY DEF Snapshots
<1>2. \A o \in Deploys : o.kind = "deploy"
  BY DEF Deploys
<1>3. \A o \in Resets : o.kind = "reset"
  BY DEF Resets
<1>4. Snapshots \cap Deploys = {} /\ Snapshots \cap Resets = {} /\ Deploys \cap Resets = {}
  BY <1>1, <1>2, <1>3
<1>5. Snapshots \subseteq Ops /\ Deploys \subseteq Ops /\ Resets \subseteq Ops
  BY DEF Ops
<1>6. NoProc \notin Procs
  BY DiskAssumption
<1>7. QED
  BY <1>4, <1>5, <1>6

LEMMA InitInv == Init => OpInv
<1> SUFFICES ASSUME Init PROVE OpInv
  OBVIOUS
<1>1. TypeOK
  <2>1. StoreOK
    BY DEF Init, StoreInit, StoreOK, Builds
  <2>2. 0 \in 0..MaxFaults
    BY OperationsAssumption
  <2>3. pc \in [Procs -> Places] /\ op \in [Procs -> Ops \cup {NoOp}]
        /\ task \in [Procs -> {"none", "queued", "active", "ok", "failed"}]
    BY DEF Init, Places
  <2>4. QED
    BY <2>1, <2>2, <2>3 DEF Init, TypeOK
<1>2. \A p \in Procs : ProcInv(p)
  BY DEF Init, ProcInv, Inside
<1>3. QED
  BY <1>1, <1>2 DEF OpInv

-----------------------------------------------------------------------------
(* The invariant, by groups of actions.                                     *)

LEMMA FaultType ==
  ASSUME faults \in 0..MaxFaults, Calm \/ Fault
  PROVE  faults' \in 0..MaxFaults
BY OperationsAssumption DEF Calm, Fault

\* a process that ends its operation
LEMMA LeaveInv ==
  ASSUME OpInv, NEW p \in Procs, NEW r \in {"ok", "raised"}, pc[p] \in Inside,
         Leave(p, r), Calm \/ Fault,
         left' \subseteq [op : Snapshots \cup Deploys, status : {"queued", "active"}]
  PROVE  OpInv'
<1>1. TypeOK'
  BY FaultType DEF OpInv, TypeOK, Leave, Goto, Tasked, StoreOK, store, Places
<1>2. \A q \in Procs : ProcInv(q)'
  BY DEF OpInv, ProcInv, TypeOK, Leave, Goto, Tasked, Inside
<1>3. QED
  BY <1>1, <1>2 DEF OpInv

LEMMA LeftType ==
  ASSUME OpInv, NEW p \in Procs
  PROVE  /\ Abandon(p) => left' \subseteq [op : Snapshots \cup Deploys, status : {"queued", "active"}]
         /\ \A s \in {"queued", "active"} : op[p] \in Snapshots \cup Deploys =>
              left \cup {[op |-> op[p], status |-> s]}
                \subseteq [op : Snapshots \cup Deploys, status : {"queued", "active"}]
<1>1. task[p] \in {"queued", "active"} => op[p] \in Snapshots
  BY DEF OpInv, ProcInv
<1>2. left \subseteq [op : Snapshots \cup Deploys, status : {"queued", "active"}]
  BY DEF OpInv, TypeOK
<1>3. QED
  BY <1>1, <1>2 DEF Abandon

\* a process that moves on under the lock, or to and from it
LEMMA CallInv ==
  ASSUME OpInv, NEW p \in Procs,
         Call(p) \/ BeginRun(p) \/ EndRun(p) \/ BareDeploy(p)
  PROVE  OpInv'
<1>1. CASE Call(p)
  <2>1. PICK o \in Asks(p) : op' = [op EXCEPT ![p] = o]
    BY <1>1 DEF Call
  <2>2. o \in Ops
    BY DEF Asks, Ops
  <2>3. TypeOK'
    BY <1>1, <2>1, <2>2
    DEF OpInv, TypeOK, Call, Goto, Calm, StoreOK, store, Places
  <2>4. \A q \in Procs : ProcInv(q)'
    BY <1>1, <2>1, <2>2 DEF OpInv, ProcInv, TypeOK, Call, At, Goto, Inside
  <2>5. QED
    BY <2>3, <2>4 DEF OpInv
<1>2. CASE BeginRun(p) \/ EndRun(p)
  <2>1. TypeOK'
    BY <1>2 DEF OpInv, TypeOK, BeginRun, EndRun, Calm, StoreOK, store
  <2>2. \A q \in Procs : ProcInv(q)'
    BY <1>2 DEF OpInv, ProcInv, BeginRun, EndRun
  <2>3. QED
    BY <2>1, <2>2 DEF OpInv
<1>3. CASE BareDeploy(p)
  <2>1. StoreOK'
    BY <1>3, DeployEffect DEF OpInv, TypeOK, BareDeploy
  <2>2. TypeOK'
    BY <1>3, <2>1 DEF OpInv, TypeOK, BareDeploy, Calm
  <2>3. \A q \in Procs : ProcInv(q)'
    BY <1>3 DEF OpInv, ProcInv, BareDeploy
  <2>4. QED
    BY <2>2, <2>3 DEF OpInv
<1>4. QED
  BY <1>1, <1>2, <1>3

LEMMA LockInv ==
  ASSUME OpInv, NEW p \in Procs,
         Lock(p) \/ LockTimeout(p) \/ Probe(p) \/ EndProbe(p)
  PROVE  OpInv'
<1>1. \A q \in Procs : q # NoProc
  BY Disjoint
<1>2. CASE Lock(p)
  <2>1. TypeOK'
    BY <1>2 DEF OpInv, TypeOK, Lock, Goto, Calm, StoreOK, store, Places
  <2>2. \A q \in Procs : ProcInv(q)'
    BY <1>1, <1>2 DEF OpInv, ProcInv, TypeOK, Lock, At, Goto, Inside
  <2>3. QED
    BY <2>1, <2>2 DEF OpInv
<1>3. CASE LockTimeout(p)
  <2>1. TypeOK'
    BY <1>3 DEF OpInv, TypeOK, LockTimeout, Goto, Calm, StoreOK, store, Places
  <2>2. \A q \in Procs : ProcInv(q)'
    BY <1>1, <1>3 DEF OpInv, ProcInv, TypeOK, LockTimeout, At, Goto, Inside
  <2>3. QED
    BY <2>1, <2>2 DEF OpInv
<1>4. CASE Probe(p) \/ EndProbe(p)
  <2>1. TypeOK'
    BY <1>4 DEF OpInv, TypeOK, Probe, EndProbe, Goto, Calm, StoreOK, store, Places
  <2>2. \A q \in Procs : ProcInv(q)'
    BY <1>1, <1>4 DEF OpInv, ProcInv, TypeOK, Probe, EndProbe, At, Goto, Inside
  <2>3. QED
    BY <2>1, <2>2 DEF OpInv
<1>5. QED
  BY <1>2, <1>3, <1>4

LEMMA TaskInv ==
  ASSUME OpInv, NEW p \in Procs,
         Post(p) \/ Reset(p) \/ TaskOK(p) \/ TaskFailed(p) \/ Deadline(p) \/ Hang(p)
  PROVE  OpInv'
<1> DEFINE Lefts == [op : Snapshots \cup Deploys, status : {"queued", "active"}]
<1>1. left \subseteq Lefts
  BY DEF OpInv, TypeOK
<1>2. ASSUME (Goto(p, "wait") /\ Tasked(p, "queued")) \/ (Goto(p, "done") /\ Tasked(p, "ok")),
             pc[p] = "post", pc'[p] = "wait" => op[p] \in Snapshots, Calm,
             UNCHANGED <<store, op, lock, left, answer, run, disturbed>>
      PROVE  OpInv'
  <2>1. TypeOK'
    BY <1>2 DEF OpInv, TypeOK, Goto, Tasked, Calm, StoreOK, store, Places
  <2>2. \A q \in Procs : ProcInv(q)'
    BY <1>2 DEF OpInv, ProcInv, TypeOK, Goto, Tasked, Inside
  <2>3. QED
    BY <2>1, <2>2 DEF OpInv
<1>3. CASE Post(p)
  <2>1. CASE Goto(p, "wait") /\ Tasked(p, "queued") /\ Calm
             /\ UNCHANGED <<store, op, lock, left, answer, run, disturbed>>
    <3>1. pc[p] = "post" /\ op[p] \in Snapshots
      BY <1>3 DEF Post, At
    <3>2. QED
      BY <1>2, <2>1, <3>1
  <2>2. CASE Leave(p, "raised") /\ Fault
             /\ left' \in {left, left \cup {[op |-> op[p], status |-> "queued"]}}
    <3>1. left' \subseteq Lefts
      BY <1>1, <1>3, <2>2 DEF Post
    <3>2. pc[p] \in Inside
      BY <1>3 DEF Post, At, Inside
    <3>3. QED
      BY <2>2, <3>1, <3>2, LeaveInv
  <2>3. QED
    BY <1>3, <2>1, <2>2 DEF Post
<1>4. CASE Reset(p)
  <2>1. pc[p] = "post" /\ pc[p] \in Inside
    BY <1>4 DEF Reset, At, Inside
  <2>2. CASE Goto(p, "done") /\ Tasked(p, "ok") /\ Calm
             /\ UNCHANGED <<store, op, lock, left, answer, run, disturbed>>
    <3>1. pc'[p] = "done"
      BY <2>2 DEF Goto, OpInv, TypeOK
    <3>2. QED
      BY <1>2, <2>1, <2>2, <3>1
  <2>3. CASE Leave(p, "raised") /\ UNCHANGED left /\ Fault
    BY <1>1, <2>1, <2>3, LeaveInv
  <2>4. QED
    BY <1>4, <2>2, <2>3 DEF Reset
<1>5. CASE TaskOK(p) \/ TaskFailed(p)
  BY <1>1, <1>5, LeaveInv DEF TaskOK, TaskFailed, At, Inside
<1>6. CASE Deadline(p)
  <2>1. left' \subseteq Lefts
    BY <1>6, LeftType DEF Deadline
  <2>2. QED
    BY <1>6, <2>1, LeaveInv DEF Deadline, At, Inside
<1>7. CASE Hang(p)
  <2>1. faults' \in 0..MaxFaults
    BY <1>7, FaultType DEF Hang, OpInv, TypeOK
  <2>2. pc[p] \in {"post", "wait"} /\ op[p] \in Ops /\ lock = p
    BY <1>7 DEF Hang, At, OpInv, ProcInv, Inside
  <2>3. task' \in {task, [task EXCEPT ![p] = "queued"]} /\ pc' = [pc EXCEPT ![p] = "hung"]
    BY <1>7 DEF Hang, Tasked, Goto
  <2>4. TypeOK'
    BY <1>7, <2>1, <2>3 DEF Hang, OpInv, TypeOK, StoreOK, store, Places
  <2>5. task'[p] # "none" => op[p] \in Snapshots
    BY <1>7 DEF Hang, Tasked, At, OpInv, ProcInv
  <2>6. \A q \in Procs : ProcInv(q)'
    BY <1>7, <2>2, <2>3, <2>5 DEF Hang, OpInv, ProcInv, TypeOK, Inside
  <2>7. QED
    BY <2>4, <2>6 DEF OpInv
<1>8. QED
  BY <1>3, <1>4, <1>5, <1>6, <1>7

LEMMA InstallInv ==
  ASSUME OpInv, NEW p \in Procs,
         Install(p) \/ InstallFails(p) \/ Return(p) \/ ReturnFails(p)
  PROVE  OpInv'
<1> DEFINE Lefts == [op : Snapshots \cup Deploys, status : {"queued", "active"}]
<1>1. left \subseteq Lefts
  BY DEF OpInv, TypeOK
<1>2. CASE Install(p)
  <2>1. pc[p] = "install" /\ op[p] \in Deploys
    BY <1>2 DEF Install, At, OpInv, ProcInv
  <2>2. Possible(op[p])
    BY <2>1 DEF Deploys, Possible
  <2>3. StoreOK'
    BY <1>2, <2>1, <2>2, EffectType, Disjoint DEF Install, OpInv, TypeOK
  <2>4. TypeOK'
    BY <1>2, <2>3 DEF OpInv, TypeOK, Install, Goto, Tasked, Calm, Places
  <2>5. \A q \in Procs : ProcInv(q)'
    BY <1>2, <2>1 DEF OpInv, ProcInv, TypeOK, Install, Goto, Tasked, Inside
  <2>6. QED
    BY <2>4, <2>5 DEF OpInv
<1>3. CASE InstallFails(p)
  <2>1. pc[p] = "install" /\ op[p] \in Deploys /\ pc[p] \in Inside
    BY <1>3 DEF InstallFails, At, OpInv, ProcInv, Inside
  <2>2. left' \subseteq Lefts
    BY <1>1, <1>3, <2>1 DEF InstallFails
  <2>3. QED
    BY <1>3, <2>1, <2>2, LeaveInv DEF InstallFails
<1>4. CASE Return(p) \/ ReturnFails(p)
  BY <1>1, <1>4, LeaveInv DEF Return, ReturnFails, At, Inside
<1>5. QED
  BY <1>2, <1>3, <1>4

LEMMA CrashInv ==
  ASSUME OpInv, NEW p \in Procs, Crash(p)
  PROVE  OpInv'
<1>1. left' \subseteq [op : Snapshots \cup Deploys, status : {"queued", "active"}]
  <2>1. CASE At(p, "install")
    <3>1. op[p] \in Deploys
      BY <2>1 DEF At, OpInv, ProcInv
    <3>2. QED
      BY <2>1, <3>1 DEF Crash, OpInv, TypeOK
  <2>2. CASE ~At(p, "install")
    BY <2>2, LeftType DEF Crash
  <2>3. QED
    BY <2>1, <2>2
<1>2. faults' \in 0..MaxFaults
  BY FaultType DEF Crash, OpInv, TypeOK
<1>3. lock' \in Procs \cup {NoProc} /\ disturbed' \in BOOLEAN
  BY DEF Crash, OpInv, TypeOK
<1>4. StoreOK'
  BY DEF Crash, OpInv, TypeOK, StoreOK, store
<1>5. TypeOK'
  BY <1>1, <1>2, <1>3, <1>4 DEF Crash, OpInv, TypeOK, Goto, Tasked, Places
<1>6. \A q \in Procs : ProcInv(q)'
  BY DEF OpInv, ProcInv, TypeOK, Crash, Goto, Tasked, Inside
<1>7. QED
  BY <1>5, <1>6 DEF OpInv

LEMMA ProxmoxInv ==
  ASSUME OpInv, Proxmox
  PROVE  OpInv'
<1>1. ASSUME NEW p \in Procs, TaskStarts(p)
      PROVE  OpInv'
  <2>1. TypeOK'
    BY <1>1 DEF OpInv, TypeOK, TaskStarts, Tasked, Calm, StoreOK, store
  <2>2. pc[p] \in {"wait", "hung"} /\ (pc[p] = "hung" => op[p] \in Snapshots)
    BY <1>1 DEF OpInv, ProcInv, TaskStarts
  <2>3. \A q \in Procs : ProcInv(q)'
    BY <1>1, <2>2 DEF OpInv, ProcInv, TypeOK, TaskStarts, Tasked, Inside
  <2>4. QED
    BY <2>1, <2>3 DEF OpInv
<1>2. ASSUME NEW p \in Procs, TaskEnds(p)
      PROVE  OpInv'
  <2>1. pc[p] \in {"wait", "hung"} /\ op[p] \in Ops /\ (pc[p] = "hung" => op[p] \in Snapshots)
    BY <1>2 DEF OpInv, ProcInv, TaskEnds, Inside
  <2>2. StoreOK'
    <3>1. CASE Possible(op[p]) /\ Effect(op[p])
      BY <2>1, <3>1, EffectType DEF OpInv, TypeOK
    <3>2. CASE UNCHANGED store
      BY <3>2 DEF OpInv, TypeOK, StoreOK, store
    <3>3. QED
      BY <1>2, <3>1, <3>2 DEF TaskEnds
  <2>3. faults' \in 0..MaxFaults
    BY <1>2, FaultType DEF TaskEnds, OpInv, TypeOK
  <2>4. Tasked(p, "ok") \/ Tasked(p, "failed")
    BY <1>2 DEF TaskEnds
  <2>5. TypeOK'
    BY <1>2, <2>2, <2>3, <2>4 DEF TaskEnds, OpInv, TypeOK, Tasked
  <2>6. \A q \in Procs : ProcInv(q)'
    BY <1>2, <2>1, <2>4 DEF OpInv, ProcInv, TypeOK, TaskEnds, Tasked, Inside
  <2>7. QED
    BY <2>5, <2>6 DEF OpInv
<1>3. ASSUME NEW t \in left, LeftStarts(t) \/ LeftEnds(t)
      PROVE  OpInv'
  <2>1. t \in [op : Snapshots \cup Deploys, status : {"queued", "active"}]
    BY DEF OpInv, TypeOK
  <2>2. left' \subseteq [op : Snapshots \cup Deploys, status : {"queued", "active"}]
    BY <1>3, <2>1 DEF LeftStarts, LeftEnds, OpInv, TypeOK
  <2>3. StoreOK' /\ disturbed' \in BOOLEAN
    <3>1. CASE Possible(t.op) /\ Effect(t.op) /\ disturbed' = (lock # NoProc)
      <4>1. t.op \in Ops
        BY <2>1 DEF Ops
      <4>2. StoreOK'
        BY <3>1, <4>1, EffectType DEF OpInv, TypeOK
      <4>3. disturbed' \in BOOLEAN
        BY <3>1
      <4>4. QED
        BY <4>2, <4>3
    <3>2. CASE UNCHANGED <<store, disturbed>>
      BY <3>2 DEF OpInv, TypeOK, StoreOK, store
    <3>3. QED
      BY <1>3, <3>1, <3>2 DEF LeftStarts, LeftEnds
  <2>4. TypeOK'
    BY <1>3, <2>2, <2>3 DEF LeftStarts, LeftEnds, OpInv, TypeOK, Calm
  <2>5. \A q \in Procs : ProcInv(q)'
    BY <1>3 DEF OpInv, ProcInv, LeftStarts, LeftEnds
  <2>6. QED
    BY <2>4, <2>5 DEF OpInv
<1>4. QED
  BY <1>1, <1>2, <1>3 DEF Proxmox

LEMMA NextInv == OpInv /\ [Next]_vars => OpInv'
<1> SUFFICES ASSUME OpInv, [Next]_vars PROVE OpInv'
  OBVIOUS
<1>1. CASE UNCHANGED vars
  BY <1>1 DEF OpInv, TypeOK, ProcInv, StoreOK, store, vars
<1>2. ASSUME NEW p \in Procs,
             Call(p) \/ BeginRun(p) \/ EndRun(p) \/ BareDeploy(p) \/ Probe(p) \/ Step(p) \/ Crash(p)
      PROVE  OpInv'
  BY <1>2, CallInv, LockInv, TaskInv, InstallInv, CrashInv DEF Step
<1>3. QED
  BY <1>1, <1>2, ProxmoxInv DEF Next

\* TypeOK is an invariant, for all processes, snapshot names and bounds.
THEOREM TypeCorrect == Spec => []TypeOK
<1>1. OpInv => TypeOK
  BY DEF OpInv
<1>2. QED
  BY InitInv, NextInv, <1>1, PTL DEF Spec

-----------------------------------------------------------------------------
(* The refinement: what VmPromise sees of a state, and every action as one  *)
(* of its steps.                                                            *)

CallerOp == IF Caller = NoProc THEN NoOp ELSE op[Caller]
Done     == Caller # NoProc /\ task[Caller] = "ok"
Later    == {t.op : t \in left}

Seen == <<Caller, CallerOp, Done>>

\* the process at work holds the lock
LEMMA CallerIs ==
  ASSUME OpInv
  PROVE  /\ \A p \in Procs : pc[p] \in Inside => /\ Caller = p /\ lock = p
                                                  /\ CallerOp = op[p] /\ op[p] \in Ops
                                                  /\ (Done <=> task[p] = "ok")
         /\ (\A p \in Procs : pc[p] \notin Inside) => Caller = NoProc /\ CallerOp = NoOp /\ ~Done
         /\ Caller = NoProc => CallerOp = NoOp /\ ~Done
<1>1. \A p \in Procs : p # NoProc
  BY Disjoint
<1>2. lock \in Procs \cup {NoProc}
  BY DEF OpInv, TypeOK
<1>3. QED
  BY <1>1, <1>2 DEF OpInv, ProcInv, Caller, CallerOp, Done

LEMMA CallerIsNext ==
  ASSUME OpInv'
  PROVE  /\ \A p \in Procs : pc'[p] \in Inside => /\ Caller' = p
                                                   /\ CallerOp' = op'[p] /\ op'[p] \in Ops
                                                   /\ (Done' <=> task'[p] = "ok")
         /\ (\A p \in Procs : pc'[p] \notin Inside) => Caller' = NoProc /\ CallerOp' = NoOp /\ ~Done'
<1>1. \A p \in Procs : p # NoProc
  BY Disjoint
<1>2. lock' \in Procs \cup {NoProc}
  BY DEF OpInv, TypeOK
<1>3. QED
  BY <1>1, <1>2 DEF OpInv, ProcInv, Caller, CallerOp, Done

\* only the process that holds the lock is seen
LEMMA Unseen ==
  ASSUME OpInv, OpInv', NEW p \in Procs, pc[p] \notin Inside, pc'[p] \notin Inside,
         \A q \in Procs \ {p} : pc'[q] = pc[q] /\ op'[q] = op[q] /\ task'[q] = task[q]
  PROVE  UNCHANGED Seen
<1>1. CASE \E q \in Procs : pc[q] \in Inside
  <2>1. PICK q \in Procs : pc[q] \in Inside
    BY <1>1
  <2>2. q # p
    BY <2>1
  <2>3. pc'[q] = pc[q] /\ op'[q] = op[q] /\ task'[q] = task[q]
    BY <2>2
  <2>4. Caller = q /\ CallerOp = op[q]
    BY <2>1, CallerIs
  <2>5. pc'[q] \in Inside
    BY <2>1, <2>3
  <2>6. Caller' = q /\ CallerOp' = op'[q]
    BY <2>5, CallerIsNext
  <2>7. Done' = Done
    BY <2>3, <2>4, <2>6 DEF Done
  <2>8. QED
    BY <2>3, <2>4, <2>6, <2>7 DEF Seen
<1>2. CASE \A q \in Procs : pc[q] \notin Inside
  <2>1. \A q \in Procs : pc'[q] \notin Inside
    BY <1>2
  <2>2. Caller' = Caller /\ CallerOp' = CallerOp
    BY <1>2, <2>1, CallerIs, CallerIsNext
  <2>3. Done' = Done
    BY <1>2, <2>1, CallerIs, CallerIsNext DEF Done
  <2>4. QED
    BY <2>2, <2>3 DEF Seen
<1>3. QED
  BY <1>1, <1>2

\* the steps of VmPromise, as seen from here
LEMMA Steps ==
  /\ Promise!Refuse <=> /\ answer' \in {"busy", "raised", "none"}
                        /\ UNCHANGED <<store, Seen, Later>>
  /\ \A p \in Procs : Promise!Enter(p) <=>
       /\ Caller = NoProc /\ Caller' = p /\ CallerOp' \in Ops /\ Done' = FALSE
       /\ UNCHANGED <<store, Later, answer>>
  /\ Promise!Act <=> /\ Caller # NoProc /\ ~Done /\ Possible(CallerOp)
                     /\ Effect(CallerOp) /\ Done' = TRUE
                     /\ UNCHANGED <<Caller, CallerOp, Later, answer>>
  /\ Promise!Succeed <=> /\ Caller # NoProc /\ Done /\ answer' = "ok"
                         /\ Caller' = NoProc /\ CallerOp' = NoOp /\ Done' = FALSE
                         /\ UNCHANGED <<store, Later>>
  /\ Promise!Fail <=> /\ Caller # NoProc /\ answer' \in {"raised", "none"}
                      /\ Caller' = NoProc /\ CallerOp' = NoOp /\ Done' = FALSE
                      /\ Later' = Later \/ (~Done /\ Later' = Later \cup {CallerOp})
                      /\ UNCHANGED store
  /\ Promise!Late <=> /\ \E o \in Later \cup Deploys :
                           /\ (Possible(o) /\ Effect(o)) \/ UNCHANGED store
                           /\ Later' \in {Later, Later \ {o}}
                      /\ UNCHANGED <<Seen, answer>>
<1> USE DEF CallerOp, Done, Later, Seen, store, Promise!store
<1>1. /\ Promise!Ops = Ops /\ Promise!Deploys = Deploys
      /\ \A o : Promise!Possible(o) <=> Possible(o)
      /\ \A o : Promise!Effect(o) <=> Effect(o)
  BY DEF Promise!Ops, Ops, Promise!Snapshots, Snapshots, Promise!Deploys, Deploys,
         Promise!Resets, Resets, Promise!Possible, Possible, Promise!Effect, Effect
<1>2. Promise!Refuse <=> /\ answer' \in {"busy", "raised", "none"}
                         /\ UNCHANGED <<store, Seen, Later>>
  BY DEF Promise!Refuse
<1>3. \A p \in Procs : Promise!Enter(p) <=>
        /\ Caller = NoProc /\ Caller' = p /\ CallerOp' \in Ops /\ Done' = FALSE
        /\ UNCHANGED <<store, Later, answer>>
  BY <1>1 DEF Promise!Enter
<1>4. Promise!Act <=> /\ Caller # NoProc /\ ~Done /\ Possible(CallerOp)
                      /\ Effect(CallerOp) /\ Done' = TRUE
                      /\ UNCHANGED <<Caller, CallerOp, Later, answer>>
  BY <1>1 DEF Promise!Act
<1>5. Promise!Succeed <=> /\ Caller # NoProc /\ Done /\ answer' = "ok"
                          /\ Caller' = NoProc /\ CallerOp' = NoOp /\ Done' = FALSE
                          /\ UNCHANGED <<store, Later>>
  BY DEF Promise!Succeed
<1>6. Promise!Fail <=> /\ Caller # NoProc /\ answer' \in {"raised", "none"}
                       /\ Caller' = NoProc /\ CallerOp' = NoOp /\ Done' = FALSE
                       /\ Later' = Later \/ (~Done /\ Later' = Later \cup {CallerOp})
                       /\ UNCHANGED store
  BY DEF Promise!Fail
<1>7. Promise!Late <=> /\ \E o \in Later \cup Deploys :
                            /\ (Possible(o) /\ Effect(o)) \/ UNCHANGED store
                            /\ Later' \in {Later, Later \ {o}}
                       /\ UNCHANGED <<Seen, answer>>
  BY <1>1 DEF Promise!Late
<1>8. QED
  BY <1>2, <1>3, <1>4, <1>5, <1>6, <1>7

PromiseStep == Promise!Next \/ UNCHANGED <<store, Seen, Later, answer>>

LEMMA CallSeen ==
  ASSUME OpInv, OpInv', NEW p \in Procs,
         Call(p) \/ BeginRun(p) \/ EndRun(p) \/ BareDeploy(p) \/ Probe(p) \/ EndProbe(p) \/ LockTimeout(p)
  PROVE  PromiseStep
<1>1. UNCHANGED Seen
  <2>1. pc[p] \notin Inside
    BY DEF Call, BeginRun, EndRun, BareDeploy, Probe, EndProbe, LockTimeout, At, Inside
  <2>2. pc'[p] \notin Inside
    BY <2>1 DEF OpInv, TypeOK, Call, BeginRun, EndRun, BareDeploy, Probe, EndProbe, LockTimeout, Goto, Inside
  <2>3. \A q \in Procs \ {p} : pc'[q] = pc[q] /\ op'[q] = op[q] /\ task'[q] = task[q]
    BY DEF OpInv, TypeOK, Call, BeginRun, EndRun, BareDeploy, Probe, EndProbe, LockTimeout, Goto
  <2>4. QED
    BY <2>1, <2>2, <2>3, Unseen
<1>2. Later' = Later
  BY DEF Later, Call, BeginRun, EndRun, BareDeploy, Probe, EndProbe, LockTimeout
<1>3. CASE Call(p) \/ BeginRun(p) \/ EndRun(p) \/ Probe(p) \/ EndProbe(p)
  BY <1>1, <1>2, <1>3 DEF PromiseStep, Call, BeginRun, EndRun, Probe, EndProbe
<1>4. CASE LockTimeout(p)
  <2>1. UNCHANGED store /\ answer' \in {"busy", "raised", "none"}
    BY <1>4 DEF LockTimeout
  <2>2. QED
    BY <1>1, <1>2, <2>1, Steps DEF PromiseStep, Promise!Next
<1>5. CASE BareDeploy(p)
  <2>1. PICK o \in Deploys : Possible(o) /\ Effect(o)
    BY <1>5 DEF BareDeploy, Deploys, Possible
  <2>2. answer' = answer
    BY <1>5 DEF BareDeploy
  <2>3. QED
    BY <1>1, <1>2, <2>1, <2>2, Steps DEF PromiseStep, Promise!Next
<1>6. QED
  BY <1>3, <1>4, <1>5

LEMMA LockSeen ==
  ASSUME OpInv, OpInv', NEW p \in Procs, Lock(p)
  PROVE  PromiseStep
<1>1. Caller = NoProc
  BY DEF Lock, Caller
<1>2. pc'[p] \in Inside /\ op'[p] = op[p] /\ task'[p] = "none"
  BY DEF Lock, At, Goto, Inside, OpInv, TypeOK, ProcInv
<1>3. Caller' = p /\ CallerOp' \in Ops
  BY <1>2, CallerIsNext
<1>4. Done' = FALSE
  BY <1>2, <1>3 DEF Done
<1>5. UNCHANGED <<store, Later, answer>>
  BY DEF Lock, Later
<1>6. Promise!Enter(p)
  BY <1>1, <1>3, <1>4, <1>5, Steps
<1>7. QED
  BY <1>6 DEF PromiseStep, Promise!Next

\* the operation of p ends
LEMMA LeaveSeen ==
  ASSUME OpInv, OpInv', NEW p \in Procs, NEW r, pc[p] \in Inside, Leave(p, r)
  PROVE  /\ Caller # NoProc /\ CallerOp = op[p] /\ (Done <=> task[p] = "ok")
         /\ Caller' = NoProc /\ CallerOp' = NoOp /\ Done' = FALSE
         /\ UNCHANGED store /\ answer' = r
<1>1. Caller # NoProc /\ CallerOp = op[p] /\ (Done <=> task[p] = "ok")
  BY CallerIs, Disjoint
<1>2. \A q \in Procs : pc'[q] \notin Inside
  BY DEF Leave, Goto, OpInv, TypeOK, ProcInv, Inside
<1>3. Caller' = NoProc /\ CallerOp' = NoOp /\ ~Done'
  BY <1>2, CallerIsNext
<1>4. QED
  BY <1>1, <1>3 DEF Leave, Done

\* what a caller leaves behind is its own operation, not yet done
LEMMA LeftSeen ==
  ASSUME NEW o, NEW s, left' \in {left, left \cup {[op |-> o, status |-> s]}}
  PROVE  Later' = Later \/ Later' = Later \cup {o}
BY DEF Later

LEMMA EndSeen ==
  ASSUME OpInv, OpInv', NEW p \in Procs,
         \/ TaskOK(p) \/ TaskFailed(p) \/ Deadline(p) \/ InstallFails(p) \/ Return(p) \/ ReturnFails(p)
  PROVE  PromiseStep
<1>1. pc[p] \in Inside
  BY DEF TaskOK, TaskFailed, Deadline, InstallFails, Return, ReturnFails, At, Inside
<1>2. CASE TaskOK(p) \/ Return(p)
  <2>1. Leave(p, "ok") /\ Later' = Later
    BY <1>2 DEF TaskOK, Return, Later
  <2>2. task[p] = "ok"
    BY <1>2 DEF TaskOK, Return, At, OpInv, ProcInv
  <2>3. Promise!Succeed
    BY <1>1, <2>1, <2>2, LeaveSeen, Steps
  <2>4. QED
    BY <2>3 DEF PromiseStep, Promise!Next
<1>3. ASSUME Leave(p, "raised"),
             Later' = Later \/ (task[p] # "ok" /\ Later' = Later \cup {op[p]})
      PROVE  PromiseStep
  <2>1. Promise!Fail
    BY <1>1, <1>3, LeaveSeen, Steps
  <2>2. QED
    BY <2>1 DEF PromiseStep, Promise!Next
<1>4. CASE TaskFailed(p) \/ ReturnFails(p)
  BY <1>3, <1>4 DEF TaskFailed, ReturnFails, Later
<1>5. CASE Deadline(p)
  <2>1. Later' = Later \/ (task[p] # "ok" /\ Later' = Later \cup {op[p]})
    <3>1. \/ task[p] = "ok" /\ left' = left
          \/ task[p] # "ok" /\ left' \in {left, left \cup {[op |-> op[p], status |-> task[p]]}}
      BY <1>5 DEF Deadline, Abandon
    <3>2. left' = left => Later' = Later
      BY DEF Later
    <3> QED
      BY <3>1, <3>2, LeftSeen
  <2>2. QED
    BY <1>3, <1>5, <2>1 DEF Deadline
<1>6. CASE InstallFails(p)
  <2>1. task[p] # "ok"
    BY <1>6 DEF InstallFails, At, OpInv, ProcInv, TypeOK
  <2>2. Later' = Later \/ Later' = Later \cup {op[p]}
    BY <1>6, LeftSeen DEF InstallFails
  <2>3. QED
    BY <1>3, <1>6, <2>1, <2>2 DEF InstallFails
<1>7. QED
  BY <1>2, <1>4, <1>5, <1>6

LEMMA PostSeen ==
  ASSUME OpInv, OpInv', NEW p \in Procs, Post(p) \/ Reset(p)
  PROVE  PromiseStep
<1>1. pc[p] = "post" /\ pc[p] \in Inside /\ task[p] # "ok"
  BY DEF Post, Reset, At, Inside, OpInv, ProcInv
<1>2. CASE Leave(p, "raised")
  <2>1. Later' = Later \/ Later' = Later \cup {op[p]}
    <3>1. CASE Post(p)
      <4>1. left' \in {left, left \cup {[op |-> op[p], status |-> "queued"]}}
        BY <3>1 DEF Post
      <4>2. QED
        BY <4>1, LeftSeen
    <3>2. CASE Reset(p)
      BY <3>2 DEF Reset, Later
    <3>3. QED
      BY <3>1, <3>2
  <2>2. Promise!Fail
    BY <1>1, <1>2, <2>1, LeaveSeen, Steps
  <2>3. QED
    BY <2>2 DEF PromiseStep, Promise!Next
<1>3. CASE Post(p) /\ Goto(p, "wait")
  <2>1. CASE Leave(p, "raised")
    BY <1>2, <2>1
  <2>2. CASE Goto(p, "wait") /\ Tasked(p, "queued") /\ UNCHANGED <<store, op, lock, left, answer>>
    <3>1. pc'[p] \in Inside /\ task'[p] = "queued"
      BY <2>2 DEF Goto, Tasked, Inside, OpInv, TypeOK
    <3>2. Caller' = Caller /\ CallerOp' = CallerOp
      BY <1>1, <2>2, <3>1, CallerIs, CallerIsNext
    <3>3. ~Done /\ ~Done'
      BY <1>1, <3>1, CallerIs, CallerIsNext
    <3>4. Done' = Done
      BY <3>3 DEF Done
    <3>5. QED
      BY <2>2, <3>2, <3>4 DEF PromiseStep, Seen, Later
  <2>3. QED
    BY <1>3, <2>1, <2>2 DEF Post
<1>4. CASE Reset(p) /\ Goto(p, "done") /\ Tasked(p, "ok") /\ UNCHANGED <<store, op, lock, left, answer>>
  <2>1. pc'[p] \in Inside /\ task'[p] = "ok"
    BY <1>4 DEF Goto, Tasked, Inside, OpInv, TypeOK
  <2>2. Caller' = Caller /\ CallerOp' = CallerOp /\ Caller # NoProc /\ CallerOp = op[p]
    BY <1>1, <1>4, <2>1, CallerIs, CallerIsNext, Disjoint
  <2>3. ~Done /\ Done'
    BY <1>1, <2>1, CallerIs, CallerIsNext
  <2>4. Done' = TRUE
    BY <2>3 DEF Done
  <2>5. Possible(CallerOp) /\ Effect(CallerOp)
    <3>1. CallerOp.kind = "reset"
      BY <1>4, <2>2 DEF Reset, Resets
    <3>2. QED
      BY <1>4, <3>1 DEF Possible, Effect, store
  <2>6. Promise!Act
    BY <1>4, <2>2, <2>3, <2>4, <2>5, Steps DEF Later
  <2>7. QED
    BY <2>6 DEF PromiseStep, Promise!Next
<1>5. QED
  BY <1>2, <1>3, <1>4 DEF Post, Reset

\* a request that hangs shows nothing
LEMMA HangSeen ==
  ASSUME OpInv, OpInv', NEW p \in Procs, Hang(p)
  PROVE  PromiseStep
<1>1. pc[p] \in Inside /\ pc'[p] \in Inside /\ op' = op
  BY DEF Hang, At, Goto, Inside, OpInv, TypeOK
<1>2. task'[p] = "ok" <=> task[p] = "ok"
  BY DEF Hang, At, Tasked, OpInv, TypeOK, ProcInv
<1>3. Caller' = Caller /\ CallerOp' = CallerOp
  BY <1>1, CallerIs, CallerIsNext
<1>4. Done' <=> Done
  BY <1>1, <1>2, CallerIs, CallerIsNext
<1>5. Done' = Done
  BY <1>4 DEF Done
<1> QED
  BY <1>3, <1>5 DEF Hang, PromiseStep, Seen, Later

LEMMA InstallSeen ==
  ASSUME OpInv, OpInv', NEW p \in Procs, Install(p)
  PROVE  PromiseStep
<1>1. pc[p] \in Inside /\ task[p] # "ok" /\ op[p] \in Deploys
  BY DEF Install, At, Inside, OpInv, ProcInv
<1>2. pc'[p] \in Inside /\ task'[p] = "ok" /\ op'[p] = op[p]
  BY DEF Install, Goto, Tasked, Inside, OpInv, TypeOK
<1>3. Caller' = Caller /\ CallerOp' = CallerOp /\ Caller # NoProc /\ CallerOp = op[p]
  BY <1>1, <1>2, CallerIs, CallerIsNext, Disjoint
<1>4. ~Done /\ Done'
  BY <1>1, <1>2, CallerIs, CallerIsNext
<1>5. Done' = TRUE
  BY <1>4 DEF Done
<1>6. Possible(CallerOp) /\ Effect(CallerOp)
  BY <1>1, <1>3 DEF Install, Deploys, Possible
<1>7. UNCHANGED <<Later, answer>>
  BY DEF Install, Later
<1>8. Promise!Act
  BY <1>3, <1>4, <1>5, <1>6, <1>7, Steps
<1>9. QED
  BY <1>8 DEF PromiseStep, Promise!Next

LEMMA CrashSeen ==
  ASSUME OpInv, OpInv', NEW p \in Procs, Crash(p)
  PROVE  PromiseStep
<1>1. pc'[p] \notin Inside
  BY DEF Crash, Goto, Inside, OpInv, TypeOK
<1>2. \A q \in Procs \ {p} : pc'[q] = pc[q] /\ op'[q] = op[q] /\ task'[q] = task[q]
  BY DEF Crash, Goto, Tasked, OpInv, TypeOK
<1>3. UNCHANGED store /\ answer' = "none"
  BY DEF Crash
<1>4. CASE pc[p] \in Inside
  <2>1. Caller # NoProc /\ CallerOp = op[p] /\ (Done <=> task[p] = "ok")
    BY <1>4, CallerIs, Disjoint
  <2>2. \A q \in Procs : pc'[q] \notin Inside
    BY <1>1, <1>2, <1>4 DEF OpInv, ProcInv
  <2>3. Caller' = NoProc /\ CallerOp' = NoOp /\ ~Done'
    BY <2>2, CallerIsNext
  <2>4. Done' = FALSE
    BY <2>3 DEF Done
  <2>5. Later' = Later \/ (task[p] # "ok" /\ Later' = Later \cup {op[p]})
    <3>1. CASE At(p, "install")
      <4>1. task[p] # "ok"
        BY <3>1 DEF At, OpInv, ProcInv, TypeOK
      <4>2. left' \in {left, left \cup {[op |-> op[p], status |-> "active"]}}
        BY <3>1 DEF Crash
      <4>3. Later' = Later \/ Later' = Later \cup {op[p]}
        BY <4>2, LeftSeen
      <4>4. QED
        BY <4>1, <4>3
    <3>2. CASE ~At(p, "install") /\ task[p] \in {"queued", "active"}
      BY <3>2, LeftSeen DEF Crash, Abandon
    <3>3. CASE ~At(p, "install") /\ task[p] \notin {"queued", "active"}
      BY <3>3 DEF Crash, Abandon, Later
    <3>4. QED
      BY <3>1, <3>2, <3>3
  <2>6. Promise!Fail
    BY <1>3, <2>1, <2>3, <2>4, <2>5, Steps
  <2>7. QED
    BY <2>6 DEF PromiseStep, Promise!Next
<1>5. CASE pc[p] \notin Inside
  <2>1. UNCHANGED Seen
    BY <1>1, <1>2, <1>5, Unseen
  <2>2. ~At(p, "install") /\ task[p] = "none"
    BY <1>5 DEF At, Inside, OpInv, ProcInv
  <2>3. Later' = Later
    BY <2>2 DEF Crash, Abandon, Later
  <2>4. Promise!Refuse
    BY <1>3, <2>1, <2>3, Steps
  <2>5. QED
    BY <2>4 DEF PromiseStep, Promise!Next
<1>6. QED
  BY <1>4, <1>5

\* the steps of a task that somebody waits for
LEMMA TaskSeen ==
  ASSUME OpInv, OpInv', NEW p \in Procs, TaskStarts(p) \/ TaskEnds(p)
  PROVE  PromiseStep
<1>1. pc[p] \in Inside /\ task[p] # "ok"
  BY DEF TaskStarts, TaskEnds, Inside, OpInv, ProcInv
<1>2. pc'[p] \in Inside /\ op'[p] = op[p]
  BY <1>1 DEF TaskStarts, TaskEnds
<1>3. Caller' = Caller /\ CallerOp' = CallerOp /\ Caller # NoProc /\ CallerOp = op[p]
  BY <1>1, <1>2, CallerIs, CallerIsNext, Disjoint
<1>4. UNCHANGED <<Later, answer>>
  BY DEF TaskStarts, TaskEnds, Later
<1>5. ~Done
  BY <1>1, CallerIs
<1>6. CASE task'[p] # "ok" /\ UNCHANGED store
  <2>1. ~Done'
    BY <1>2, <1>6, CallerIsNext
  <2>2. Done' = Done
    BY <1>5, <2>1 DEF Done
  <2>3. QED
    BY <1>3, <1>4, <1>6, <2>2 DEF PromiseStep, Seen
<1>7. CASE Possible(op[p]) /\ Effect(op[p]) /\ Tasked(p, "ok")
  <2>1. task'[p] = "ok"
    BY <1>7 DEF Tasked, OpInv, TypeOK
  <2>2. Done'
    BY <1>2, <2>1, CallerIsNext
  <2>3. Done' = TRUE
    BY <2>2 DEF Done
  <2>4. Promise!Act
    BY <1>3, <1>4, <1>5, <1>7, <2>3, Steps
  <2>5. QED
    BY <2>4 DEF PromiseStep, Promise!Next
<1>8. CASE TaskStarts(p)
  BY <1>6, <1>8 DEF TaskStarts, Tasked, OpInv, TypeOK
<1>9. CASE TaskEnds(p)
  <2>1. CASE UNCHANGED store /\ Tasked(p, "failed")
    BY <1>6, <2>1 DEF Tasked, OpInv, TypeOK
  <2>2. QED
    BY <1>7, <1>9, <2>1 DEF TaskEnds
<1>10. QED
  BY <1>8, <1>9

\* the steps of a task that was left behind
LEMMA LateSeen ==
  ASSUME OpInv, OpInv', NEW t \in left, LeftStarts(t) \/ LeftEnds(t)
  PROVE  PromiseStep
<1>1. UNCHANGED <<Seen, answer>>
  BY DEF LeftStarts, LeftEnds, Seen, Caller, CallerOp, Done
<1>2. t.op \in Later
  BY DEF Later
<1>3. Later' \in {Later, Later \ {t.op}}
  <2>1. t \in [op : Snapshots \cup Deploys, status : {"queued", "active"}]
    BY DEF OpInv, TypeOK
  <2>2. CASE left' = left \ {t}
    BY <2>2 DEF Later
  <2>3. CASE left' = (left \ {t}) \cup {[t EXCEPT !.status = "active"]}
    <3>1. [t EXCEPT !.status = "active"].op = t.op
      BY <2>1
    <3>2. QED
      BY <2>3, <3>1 DEF Later
  <2>4. QED
    BY <2>2, <2>3 DEF LeftStarts, LeftEnds
<1>4. (Possible(t.op) /\ Effect(t.op)) \/ UNCHANGED store
  BY DEF LeftStarts, LeftEnds, store
<1>5. Promise!Late
  BY <1>1, <1>2, <1>3, <1>4, Steps
<1>6. QED
  BY <1>5 DEF PromiseStep, Promise!Next

LEMMA NextSeen ==
  ASSUME OpInv, OpInv', [Next]_vars
  PROVE  PromiseStep
<1>1. CASE UNCHANGED vars
  BY <1>1 DEF vars, PromiseStep, Seen, Caller, CallerOp, Done, Later
<1>2. ASSUME NEW p \in Procs,
             Call(p) \/ BeginRun(p) \/ EndRun(p) \/ BareDeploy(p) \/ Probe(p) \/ Step(p) \/ Crash(p)
      PROVE  PromiseStep
  BY <1>2, CallSeen, LockSeen, PostSeen, HangSeen, InstallSeen, EndSeen, CrashSeen DEF Step
<1>3. CASE Proxmox
  BY <1>3, TaskSeen, LateSeen DEF Proxmox
<1>4. QED
  BY <1>1, <1>2, <1>3 DEF Next

\* The operations on one VM implement VmPromise: whatever the locks, tasks,
\* deadlines, failures and crashes, one operation at a time takes effect, at
\* most once, and is answered "ok" only if it did.
THEOREM Implements == Spec => KeepsPromise
<1>1. Init => Promise!Init
  BY DEF Init, Promise!Init, Promise!StoreInit, StoreInit, Caller
<1>2. OpInv /\ OpInv' /\ [Next]_vars
        => [Promise!Next]_<<store, Caller, CallerOp, Done, Later, answer>>
  BY NextSeen DEF PromiseStep, Seen
<1>3. QED
  BY InitInv, NextInv, <1>1, <1>2, PTL
  DEF Spec, KeepsPromise, Promise!Spec, CallerOp, Done, Later, Promise!store, store

-----------------------------------------------------------------------------
(* An operation that took effect is still delivered while the lock is held  *)
(* and nothing from outside has taken effect.                               *)

DeliverInv == ~disturbed => \A p \in Procs : task[p] = "ok" => Delivered(op[p])

\* what Effect leaves is what its caller may rely on
LEMMA EffectDelivers ==
  ASSUME StoreOK, NEW o \in Ops, Effect(o)
  PROVE  Delivered(o)'
<1>1. CASE o \in Snapshots
  BY <1>1 DEF Effect, Delivered, Snapshots, StoreOK
<1>2. CASE o \in Deploys
  BY <1>2 DEF Effect, Delivered, Deploys
<1>3. CASE o \in Resets
  BY <1>3 DEF Delivered, Resets
<1>4. QED
  BY <1>1, <1>2, <1>3 DEF Ops

\* at most one task is waited for, that of the process with the lock
LEMMA OneTask ==
  ASSUME OpInv, NEW p \in Procs, pc[p] \in Inside \cup {"probe"}
  PROVE  \A q \in Procs \ {p} : task[q] = "none"
BY DEF OpInv, ProcInv, Inside

\* nobody waits for a task when the lock is given back
LEMMA NoTaskLeft ==
  ASSUME OpInv, NEW p \in Procs, pc[p] \in Inside \cup {"probe"},
         task' = [task EXCEPT ![p] = "none"] \/ (pc[p] = "probe" /\ task' = task)
  PROVE  DeliverInv'
<1>1. \A q \in Procs : task'[q] = "none"
  BY OneTask DEF OpInv, TypeOK, ProcInv
<1>2. QED
  BY <1>1 DEF DeliverInv

\* an operation takes effect under the lock
LEMMA ActDelivers ==
  ASSUME OpInv, NEW p \in Procs, pc[p] \in Inside, op' = op, Tasked(p, "ok"),
         Effect(op[p]) \/ (op[p] \in Resets /\ UNCHANGED store)
  PROVE  DeliverInv'
<1>1. PICK o \in Ops : op[p] = o /\ op'[p] = o
  BY DEF OpInv, ProcInv
<1>2. Delivered(o)'
  <2>1. CASE Effect(op[p])
    BY <1>1, <2>1, EffectDelivers DEF OpInv, TypeOK
  <2>2. CASE op[p] \in Resets
    BY <1>1, <2>2 DEF Delivered, Resets
  <2>3. QED
    BY <2>1, <2>2
<1>3. \A q \in Procs \ {p} : task'[q] = "none"
  BY OneTask DEF OpInv, TypeOK, Tasked
<1>4. \A q \in Procs : task'[q] = "ok" => q = p
  BY <1>3
<1>5. \A q \in Procs : task'[q] = "ok" => Delivered(op[q])'
  BY <1>1, <1>2, <1>4 DEF Delivered
<1>6. QED
  BY <1>5 DEF DeliverInv

\* nothing changes for those that wait for a task
LEMMA SameDelivers ==
  ASSUME OpInv, DeliverInv, UNCHANGED <<store, disturbed>>,
         \A q \in Procs : task'[q] = "ok" => task[q] = "ok" /\ op'[q] = op[q]
  PROVE  DeliverInv'
BY DEF DeliverInv, Delivered, store

\* something from outside takes effect, which is noted if the lock is held
LEMMA OutsideDelivers ==
  ASSUME OpInv, disturbed' = (lock # NoProc), UNCHANGED <<task, lock>>
  PROVE  DeliverInv'
<1>1. \A q \in Procs : task[q] = "ok" => lock = q
  BY DEF OpInv, ProcInv, Inside
<1>2. QED
  BY <1>1, Disjoint DEF DeliverInv

LEMMA NextDelivers == OpInv /\ OpInv' /\ DeliverInv /\ [Next]_vars => DeliverInv'
<1> SUFFICES ASSUME OpInv, OpInv', DeliverInv, [Next]_vars PROVE DeliverInv'
  OBVIOUS
<1> USE DEF At
<1>1. CASE UNCHANGED vars
  BY <1>1, SameDelivers DEF vars
<1>2. ASSUME NEW p \in Procs,
             Call(p) \/ BeginRun(p) \/ EndRun(p) \/ Lock(p) \/ LockTimeout(p) \/ Probe(p)
      PROVE  DeliverInv'
  <2>1. UNCHANGED <<store, disturbed, task>>
    BY <1>2 DEF Call, BeginRun, EndRun, Lock, LockTimeout, Probe
  <2>2. \A q \in Procs \ {p} : op'[q] = op[q]
    BY <1>2 DEF Call, BeginRun, EndRun, Lock, LockTimeout, Probe, OpInv, TypeOK
  <2>3. task[p] = "ok" => op'[p] = op[p]
    BY <1>2 DEF Call, BeginRun, EndRun, Lock, LockTimeout, Probe, OpInv, ProcInv, TypeOK
  <2>4. QED
    BY <2>1, <2>2, <2>3, SameDelivers
<1>3. ASSUME NEW p \in Procs, BareDeploy(p)
      PROVE  DeliverInv'
  BY <1>3, OutsideDelivers DEF BareDeploy
<1>4. ASSUME NEW p \in Procs, EndProbe(p)
      PROVE  DeliverInv'
  BY <1>4, NoTaskLeft DEF EndProbe
<1>5. ASSUME NEW p \in Procs, NEW r, Leave(p, r), pc[p] \in Inside
      PROVE  DeliverInv'
  BY <1>5, NoTaskLeft DEF Leave, Tasked
<1>6. ASSUME NEW p \in Procs, Post(p)
      PROVE  DeliverInv'
  <2>1. pc[p] \in Inside
    BY <1>6 DEF Post, Inside
  <2>2. CASE Tasked(p, "queued") /\ UNCHANGED <<store, op, disturbed>>
    BY <2>2, SameDelivers DEF Tasked, OpInv, TypeOK
  <2>3. QED
    BY <1>5, <1>6, <2>1, <2>2 DEF Post
<1>7. ASSUME NEW p \in Procs, Reset(p)
      PROVE  DeliverInv'
  <2>1. pc[p] \in Inside
    BY <1>7 DEF Reset, Inside
  <2>2. CASE Tasked(p, "ok") /\ UNCHANGED <<store, op, disturbed>>
    BY <1>7, <2>1, <2>2, ActDelivers DEF Reset
  <2>3. QED
    BY <1>5, <1>7, <2>1, <2>2 DEF Reset
<1>8. ASSUME NEW p \in Procs, Install(p)
      PROVE  DeliverInv'
  BY <1>8, ActDelivers DEF Install, Inside
<1>9. ASSUME NEW p \in Procs,
             \/ TaskOK(p) \/ TaskFailed(p) \/ Deadline(p)
             \/ InstallFails(p) \/ Return(p) \/ ReturnFails(p)
      PROVE  DeliverInv'
  <2>1. pc[p] \in Inside
    BY <1>9 DEF TaskOK, TaskFailed, Deadline, InstallFails, Return, ReturnFails, Inside
  <2>2. QED
    BY <1>5, <1>9, <2>1 DEF TaskOK, TaskFailed, Deadline, InstallFails, Return, ReturnFails
<1>10. ASSUME NEW p \in Procs, Crash(p)
       PROVE  DeliverInv'
  <2>1. CASE lock = p
    <3>1. \A q \in Procs : task'[q] = "none"
      BY <1>10, <2>1 DEF Crash, Tasked, OpInv, TypeOK, ProcInv, Inside
    <3>2. QED
      BY <3>1 DEF DeliverInv
  <2>2. CASE lock # p
    <3>1. UNCHANGED <<store, disturbed>>
      BY <1>10, <2>2 DEF Crash
    <3>2. \A q \in Procs : task'[q] = "ok" => task[q] = "ok" /\ op'[q] = op[q]
      BY <1>10 DEF Crash, Tasked, OpInv, TypeOK
    <3>3. QED
      BY <3>1, <3>2, SameDelivers
  <2>3. QED
    BY <2>1, <2>2
<1>11. ASSUME NEW p \in Procs, TaskStarts(p)
       PROVE  DeliverInv'
  BY <1>11, SameDelivers DEF TaskStarts, Tasked, OpInv, TypeOK
<1>12. ASSUME NEW p \in Procs, TaskEnds(p)
       PROVE  DeliverInv'
  <2>1. pc[p] \in Inside
    BY <1>12 DEF TaskEnds, OpInv, ProcInv, Inside
  <2>2. CASE Effect(op[p]) /\ Tasked(p, "ok")
    BY <1>12, <2>1, <2>2, ActDelivers DEF TaskEnds
  <2>3. CASE UNCHANGED store /\ Tasked(p, "failed")
    BY <1>12, <2>3, SameDelivers DEF TaskEnds, Tasked, OpInv, TypeOK
  <2>4. QED
    BY <1>12, <2>2, <2>3 DEF TaskEnds
<1>13. ASSUME NEW t \in left, LeftStarts(t) \/ LeftEnds(t)
       PROVE  DeliverInv'
  <2>1. CASE UNCHANGED <<store, disturbed>>
    BY <1>13, <2>1, SameDelivers DEF LeftStarts, LeftEnds
  <2>2. CASE disturbed' = (lock # NoProc)
    BY <1>13, <2>2, OutsideDelivers DEF LeftStarts, LeftEnds
  <2>3. QED
    BY <1>13, <2>1, <2>2 DEF LeftStarts, LeftEnds
<1>14. ASSUME NEW p \in Procs, Hang(p)
       PROVE  DeliverInv'
  <2>1. \A q \in Procs : task'[q] = "ok" => task[q] = "ok"
    BY <1>14 DEF Hang, Tasked, OpInv, TypeOK
  <2>2. QED
    BY <1>14, <2>1, SameDelivers DEF Hang
<1>15. QED
  BY <1>1, <1>2, <1>3, <1>4, <1>6, <1>7, <1>8, <1>9, <1>10, <1>11, <1>12, <1>13, <1>14
  DEF Next, Step, Proxmox

\* the only step that ends an operation with "ok" is a Leave by its process
LEMMA OnlyLeaveSucceeds ==
  ASSUME OpInv, [Next]_vars, answer' = "ok",
         NEW p \in Procs, op[p] \in Ops, op'[p] = NoOp
  PROVE  task[p] = "ok" /\ Leave(p, "ok")
<1> USE DEF At
<1> DEFINE LeftBy(q) == \E r \in {"ok", "raised"} : Leave(q, r) /\ (r = "ok" => task[q] = "ok")
<1>1. op[p] # NoOp
  BY OperationsAssumption
<1>2. ~UNCHANGED op
  BY <1>1
<1>3. PICK q \in Procs : Call(q) \/ LockTimeout(q) \/ Crash(q) \/ LeftBy(q)
  <2>1. CASE Proxmox
    BY <1>2, <2>1 DEF Proxmox, TaskStarts, TaskEnds, LeftStarts, LeftEnds
  <2>2. CASE UNCHANGED vars
    BY <1>2, <2>2 DEF vars
  <2>3. ASSUME NEW q \in Procs, BeginRun(q) \/ EndRun(q) \/ BareDeploy(q) \/ Probe(q) \/ Lock(q) \/ EndProbe(q)
                                \/ Hang(q)
        PROVE  FALSE
    BY <1>2, <2>3 DEF BeginRun, EndRun, BareDeploy, Probe, Lock, EndProbe, Hang
  <2>4. ASSUME NEW q \in Procs, Post(q) \/ Reset(q) \/ TaskOK(q) \/ TaskFailed(q) \/ Deadline(q)
                                \/ Install(q) \/ InstallFails(q) \/ Return(q) \/ ReturnFails(q)
        PROVE  LeftBy(q)
    BY <1>2, <2>4
    DEF Post, Reset, TaskOK, TaskFailed, Deadline, Install, InstallFails, Return, ReturnFails, OpInv, ProcInv
  <2>5. QED
    BY <2>1, <2>2, <2>3, <2>4 DEF Next, Step
<1>4. ~Call(q) /\ ~LockTimeout(q) /\ ~Crash(q)
  <2>1. ~Crash(q) /\ ~LockTimeout(q)
    BY DEF Crash, LockTimeout
  <2>2. ~Call(q)
    <3>1. SUFFICES ASSUME Call(q) PROVE FALSE
      OBVIOUS
    <3>2. PICK o \in Asks(q) : op' = [op EXCEPT ![q] = o]
      BY <3>1 DEF Call
    <3>3. o \in Ops
      BY DEF Asks, Ops
    <3>4. QED
      BY <1>1, <3>2, <3>3, OperationsAssumption DEF OpInv, TypeOK
  <2>3. QED
    BY <2>1, <2>2
<1>5. Leave(q, "ok") /\ task[q] = "ok"
  BY <1>3, <1>4 DEF Leave
<1>6. q = p
  BY <1>1, <1>5 DEF Leave, OpInv, TypeOK
<1>7. QED
  BY <1>5, <1>6

\* An operation that is answered "ok" has delivered: nothing that took effect
\* since it was done undid it, unless it came from outside the lock.
THEOREM SuccessIsDelivered == Spec => Delivers
<1>1. Init => DeliverInv
  BY DEF Init, DeliverInv
<1>2. OpInv /\ OpInv' /\ DeliverInv /\ [Next]_vars
        => (answer' = "ok" /\ ~disturbed =>
              \A p \in Procs, o \in Ops : op[p] = o /\ op'[p] = NoOp => Delivered(o)')
  BY OnlyLeaveSucceeds DEF DeliverInv, Leave, Delivered, store
<1>3. QED
  BY InitInv, NextInv, NextDelivers, <1>1, <1>2, PTL DEF Spec, Delivers
=============================================================================
