------------------------- MODULE FunctionalRunProofs -------------------------
(* Theorems about FunctionalRun for every scenario, every start index and    *)
(* any number of failures.                                                   *)
EXTENDS FunctionalRun, SequenceTheorems, TLAPS

LEMMA TotalType == Total \in Nat /\ \A i \in Steps : Scenario[i] \in Kinds
BY FunctionalAssumption, LenProperties, ElementOfSeq DEF Total, Steps

-----------------------------------------------------------------------------
(* Types.  The steps on the stack are steps of the scenario, and a step is   *)
(* under way where the code works on one.                                    *)

StepNumbers == StartIndex..(StartIndex + Total)

OnStack == /\ \A k \in DOMAIN checkpoints : checkpoints[k].step \in StepNumbers
           /\ target.step \in StepNumbers

CursorOK  == /\ at \in Places
             /\ index \in 1..Total + 1
             /\ attempt = 1 \/ (index \in Steps /\ attempt \in 1..Retries[index])
             /\ at \in {"attempt", "list", "delete", "snap"} => index \in Steps

RunnerOK  == /\ opts \in Options
             /\ checkpoints \in Seq(Entries)
             /\ target \in Entries
             /\ created \in Seq(Names)
             /\ pending \in Seq(Steps)
             /\ verdict \in {"none", "pass", "fail"}
             /\ OnStack

ProxmoxOK == /\ disk \in SUBSET (0..Total)
             /\ live \in SUBSET (0..Total)
             /\ snaps \in [Names -> [there : BOOLEAN, of : SUBSET (0..Total)]]

CountsOK  == /\ outcome \in [Steps -> Outcomes]
             /\ fired \in BOOLEAN
             /\ faults \in 0..MaxFaults

TypeInv == CursorOK /\ RunnerOK /\ ProxmoxOK /\ CountsOK

LEMMA InitType == Init => TypeInv
<1> SUFFICES ASSUME Init PROVE TypeInv
  OBVIOUS
<1> USE FunctionalAssumption, TotalType DEF Init
<1>1. CursorOK
  BY DEF CursorOK, Places
<1>2. RunnerOK
  <2>1. (CHOOSE n \in Names : TRUE) \in Names
    OBVIOUS
  <2>2. target \in Entries /\ target.step \in StepNumbers
    BY <2>1 DEF Entries, StepNumbers
  <2>3. QED
    BY <2>2, EmptySeq DEF RunnerOK, OnStack
<1>3. ProxmoxOK
  <2>1. \A n \in Names : snaps[n] \in [there : BOOLEAN, of : SUBSET (0..Total)]
    <3>1. {} \in SUBSET (0..Total) /\ {0} \in SUBSET (0..Total)
      OBVIOUS
    <3>2. \A n \in Names : snaps[n] \in {[there |-> FALSE, of |-> {}], [there |-> TRUE, of |-> {0}]}
      OBVIOUS
    <3>3. ASSUME NEW n \in Names PROVE snaps[n] \in [there : BOOLEAN, of : SUBSET (0..Total)]
      <4>1. CASE snaps[n] = [there |-> FALSE, of |-> {}]
        BY <3>1, <4>1
      <4>2. CASE snaps[n] = [there |-> TRUE, of |-> {0}]
        BY <3>1, <4>2
      <4>3. QED
        BY <3>2, <4>1, <4>2
    <3>4. QED
      BY <3>3
  <2>2. QED
    BY <2>1 DEF ProxmoxOK
<1>4. CountsOK
  <2>1. outcome \in [Steps -> Outcomes]
    BY DEF Outcomes
  <2>2. faults \in 0..MaxFaults
    OBVIOUS
  <2>3. QED
    BY <2>1, <2>2 DEF CountsOK
<1>5. QED
  BY <1>1, <1>2, <1>3, <1>4 DEF TypeInv

\* where the cursor may go
LEMMA GotoType ==
  ASSUME CursorOK, NEW l \in Places, Goto(l),
         l \in {"attempt", "list", "delete", "snap"} => index \in Steps
  PROVE  CursorOK'
BY DEF CursorOK, Goto

LEMMA NextStepType ==
  ASSUME CursorOK, index \in Steps, NextStep
  PROVE  CursorOK'
BY TotalType DEF CursorOK, NextStep, Steps, Places

LEMMA AgainType ==
  ASSUME CursorOK, index \in Steps, at = "attempt", Again
  PROVE  CursorOK'
BY FunctionalAssumption DEF CursorOK, Again, Places

LEMMA CalmType ==
  ASSUME CountsOK, Calm \/ Exception
  PROVE  fired' \in BOOLEAN /\ faults' \in 0..MaxFaults
<1>1. fired' \in BOOLEAN
  BY DEF CountsOK, Calm, Exception
<1>2. faults' \in 0..MaxFaults
  BY FunctionalAssumption DEF CountsOK, Calm, Exception
<1>3. QED
  BY <1>1, <1>2

LEMMA EmitType ==
  ASSUME CountsOK, index \in Steps, NEW o \in Outcomes, Emit(o) \/ UNCHANGED outcome
  PROVE  outcome' \in [Steps -> Outcomes]
BY DEF CountsOK, Emit

LEMMA TouchType ==
  ASSUME ProxmoxOK, index \in Steps, Touch \/ UNCHANGED proxmox
  PROVE  ProxmoxOK'
<1>1. index \in 0..Total
  BY TotalType DEF Steps
<1>2. QED
  BY <1>1 DEF ProxmoxOK, Touch, proxmox

LEMMA RunnerKept == RunnerOK /\ UNCHANGED runner => RunnerOK'
BY DEF RunnerOK, OnStack, runner

\* the dispatch of a step, but for the queue of deferred checks
LEMMA DispatchType ==
  ASSUME TypeInv, Dispatch
  PROVE  TypeInv'
<1> USE DEF TypeInv
<1>1. at = "run" /\ index \in Steps
  BY TotalType DEF Dispatch, Checkpoint, IfVisible, VerifyRecorded, WaitFor, PollShell, Waits,
                   Shell, Key, OneShot, Launch, Ui, AtStep, CursorOK, Steps
<1>2. {"open", "ok", "failed", "deferred"} \subseteq Outcomes
  BY DEF Outcomes
<1>3. {"attempt", "list", "failing", "raised"} \subseteq Places
  BY DEF Places
<1>4. RunnerOK'
  <2>1. CASE VerifyRecorded
    BY <1>1, <2>1, AppendProperties DEF VerifyRecorded, RunnerOK, OnStack
  <2>2. CASE ~VerifyRecorded
    BY <2>2, RunnerKept DEF Dispatch, Checkpoint, IfVisible, WaitFor, PollShell, Waits, Shell, Key,
                            OneShot, Launch, Ui
  <2>3. QED
    BY <2>1, <2>2
<1>5. CursorOK'
  BY <1>1, <1>3, GotoType, NextStepType
     DEF Dispatch, Checkpoint, IfVisible, VerifyRecorded, WaitFor, PollShell, Waits, Shell, Key,
         OneShot, Launch, Ui, MayTouch, StepFailed, Escape
<1>6. ProxmoxOK'
  BY <1>1, TouchType
     DEF Dispatch, Checkpoint, IfVisible, VerifyRecorded, WaitFor, PollShell, Waits, Shell, Key,
         OneShot, Launch, Ui, MayTouch
<1>7. CountsOK'
  <2>1. fired' \in BOOLEAN /\ faults' \in 0..MaxFaults
    BY CalmType
       DEF Dispatch, Checkpoint, IfVisible, VerifyRecorded, WaitFor, PollShell, Waits, Shell, Key,
           OneShot, Launch, Ui
  <2>2. outcome' \in [Steps -> Outcomes]
    BY <1>1, <1>2, EmitType
       DEF Dispatch, Checkpoint, IfVisible, VerifyRecorded, WaitFor, PollShell, Waits, Shell, Key,
           OneShot, Launch, Ui
  <2>3. QED
    BY <2>1, <2>2 DEF CountsOK
<1>8. QED
  BY <1>4, <1>5, <1>6, <1>7

\* the three calls of _do_checkpoint
LEMMA SnapshotType ==
  ASSUME TypeInv, Snapshot
  PROVE  TypeInv'
<1> USE DEF TypeInv
<1>1. at \in {"list", "delete", "snap"} /\ index \in Steps
  BY DEF Snapshot, ListSnapshots, DeleteSnapshot, CreateSnapshot, CursorOK
<1>2. Name \in Names /\ Number \in StepNumbers /\ Number \in Nat
  BY <1>1, TotalType, FunctionalAssumption DEF Name, Number, StepNumbers, Steps
<1>3. CursorOK'
  <2>1. {"delete", "snap"} \subseteq Places
    BY DEF Places
  <2>2. QED
    BY <1>1, <2>1, GotoType, NextStepType
       DEF Snapshot, ListSnapshots, DeleteSnapshot, CreateSnapshot
<1>4. RunnerOK'
  <2>1. CASE Pushed /\ UNCHANGED <<opts, target, pending, verdict>>
    <3> DEFINE e == [name |-> Name, step |-> Number, text |-> Kind = "nested"]
    <3>1. e \in Entries /\ e.step \in StepNumbers
      BY <1>2 DEF Entries
    <3>2. checkpoints' = Append(checkpoints, e) /\ created' = Append(created, Name)
      BY <2>1 DEF Pushed
    <3>3. checkpoints' \in Seq(Entries) /\ created' \in Seq(Names)
      BY <1>2, <3>1, <3>2, AppendProperties DEF RunnerOK
    <3>4. \A k \in DOMAIN checkpoints' : checkpoints'[k].step \in StepNumbers
      BY <3>1, <3>2, AppendProperties, LenProperties DEF RunnerOK, OnStack
    <3>5. QED
      BY <2>1, <3>3, <3>4 DEF RunnerOK, OnStack
  <2>2. CASE UNCHANGED runner
    BY <2>2, RunnerKept
  <2>3. QED
    BY <2>1, <2>2 DEF Snapshot, ListSnapshots, DeleteSnapshot, CreateSnapshot, runner
<1>5. ProxmoxOK'
  <2>1. \/ UNCHANGED proxmox
        \/ \E r \in [there : BOOLEAN, of : SUBSET (0..Total)] :
             snaps' = [snaps EXCEPT ![Name] = r] /\ UNCHANGED <<disk, live>>
    <3>1. CASE ListSnapshots
      BY <3>1 DEF ListSnapshots
    <3>2. CASE DeleteSnapshot
      <4>1. [snaps[Name] EXCEPT !.there = FALSE] \in [there : BOOLEAN, of : SUBSET (0..Total)]
        BY <1>2 DEF ProxmoxOK
      <4>2. QED
        BY <3>2, <4>1 DEF DeleteSnapshot, Gone
    <3>3. CASE CreateSnapshot
      <4>1. [there |-> TRUE, of |-> disk] \in [there : BOOLEAN, of : SUBSET (0..Total)]
        BY DEF ProxmoxOK
      <4>2. QED
        BY <3>3, <4>1 DEF CreateSnapshot, Taken
    <3>4. QED
      BY <3>1, <3>2, <3>3 DEF Snapshot
  <2>2. QED
    BY <1>2, <2>1 DEF ProxmoxOK, proxmox
<1>6. CountsOK'
  <2>1. fired' \in BOOLEAN /\ faults' \in 0..MaxFaults
    BY CalmType DEF Snapshot, ListSnapshots, DeleteSnapshot, CreateSnapshot
  <2>2. outcome' \in [Steps -> Outcomes]
    <3>1. "ok" \in Outcomes
      BY DEF Outcomes
    <3>2. QED
      BY <1>1, <3>1, EmitType DEF Snapshot, ListSnapshots, DeleteSnapshot, CreateSnapshot
  <2>3. QED
    BY <2>1, <2>2 DEF CountsOK
<1>7. QED
  BY <1>3, <1>4, <1>5, <1>6

\* the retry loop
LEMMA AttemptType ==
  ASSUME TypeInv, Attempt
  PROVE  TypeInv'
<1> USE DEF TypeInv
<1>1. at = "attempt" /\ index \in Steps
  BY DEF Attempt, NoAttempt, Settled, Verified, ClickUnverified, OutOfBounds, Unverified, AppCrashed,
         AttemptRaises, AgentRaises, InLoop, CursorOK
<1>2. RunnerOK'
  BY RunnerKept
     DEF Attempt, NoAttempt, Settled, Verified, ClickUnverified, OutOfBounds, Unverified, AppCrashed,
         AttemptRaises, AgentRaises
<1>3. CursorOK'
  <2>1. {"failing", "raised"} \subseteq Places
    BY DEF Places
  <2>2. QED
    BY <1>1, <2>1, GotoType, NextStepType, AgainType
       DEF Attempt, NoAttempt, Settled, Verified, ClickUnverified, OutOfBounds, Unverified, AppCrashed,
           AttemptRaises, AgentRaises, GiveUp, MayTouch, StepFailed, Escape
<1>4. ProxmoxOK'
  BY <1>1, TouchType
     DEF Attempt, NoAttempt, Settled, Verified, ClickUnverified, OutOfBounds, Unverified, AppCrashed,
         AttemptRaises, AgentRaises, GiveUp, MayTouch
<1>5. CountsOK'
  <2>1. fired' \in BOOLEAN /\ faults' \in 0..MaxFaults
    BY CalmType
       DEF Attempt, NoAttempt, Settled, Verified, ClickUnverified, OutOfBounds, Unverified, AppCrashed,
           AttemptRaises, AgentRaises
  <2>2. outcome' \in [Steps -> Outcomes]
    <3>1. {"ok", "failed"} \subseteq Outcomes
      BY DEF Outcomes
    <3>2. QED
      BY <1>1, <3>1, EmitType
         DEF Attempt, NoAttempt, Settled, Verified, ClickUnverified, OutOfBounds, Unverified, AppCrashed,
             AttemptRaises, AgentRaises, GiveUp, MayTouch
  <2>3. QED
    BY <2>1, <2>2 DEF CountsOK
<1>6. QED
  BY <1>2, <1>3, <1>4, <1>5

\* popping the stack
LEMMA PopType ==
  ASSUME RunnerOK, checkpoints # <<>>
  PROVE  /\ Len(checkpoints) \in Nat \ {0}
         /\ checkpoints[Len(checkpoints)] \in Entries
         /\ checkpoints[Len(checkpoints)].step \in StepNumbers
         /\ SubSeq(checkpoints, 1, Len(checkpoints) - 1) \in Seq(Entries)
         /\ DOMAIN SubSeq(checkpoints, 1, Len(checkpoints) - 1) = 1..Len(checkpoints) - 1
         /\ \A k \in 1..Len(checkpoints) - 1 :
              SubSeq(checkpoints, 1, Len(checkpoints) - 1)[k] = checkpoints[k]
<1>1. checkpoints \in Seq(Entries)
  BY DEF RunnerOK
<1>2. Len(checkpoints) \in Nat \ {0}
  BY <1>1, EmptySeq
<1>3. \A k \in 1..Len(checkpoints) : checkpoints[k] \in Entries /\ checkpoints[k].step \in StepNumbers
  BY <1>1, ElementOfSeq, LenProperties DEF RunnerOK, OnStack
<1> DEFINE n    == Len(checkpoints) - 1
           rest == SubSeq(checkpoints, 1, n)
<1>4. /\ rest \in Seq(Entries)
      /\ Len(rest) = Len(checkpoints) - 1
      /\ \A k \in 1..Len(checkpoints) - 1 : rest[k] = checkpoints[k]
  <2>1. 1 \in Int /\ n \in Int /\ n - 1 + 1 = n /\ n >= 0
    BY <1>2
  <2>2. \A i \in 1..n : checkpoints[i] \in Entries
    BY <1>2, <1>3
  <2>3. /\ rest \in Seq(Entries)
        /\ Len(rest) = IF 1 <= n THEN n - 1 + 1 ELSE 0
        /\ \A i \in 1..n - 1 + 1 : rest[i] = checkpoints[1 + i - 1]
    <3> HIDE DEF n
    <3>1. QED
      BY <2>1, <2>2, SubSeqProperties
  <2>4. Len(rest) = n
    <3> HIDE DEF n
    <3>1. QED
      BY <2>1, <2>3
  <2>5. ASSUME NEW k \in 1..n PROVE rest[k] = checkpoints[k]
    <3> HIDE DEF n
    <3>1. k \in 1..n - 1 + 1 /\ 1 + k - 1 = k
      BY <2>1
    <3>2. QED
      BY <2>3, <3>1
  <2>6. QED
    BY <2>3, <2>4, <2>5
<1>5. QED
  BY <1>2, <1>3, <1>4, LenProperties

LEMMA FailureType ==
  ASSUME TypeInv, Failure
  PROVE  TypeInv'
<1> USE DEF TypeInv
<1>1. at \in {"failing", "rollback", "wait_ip"}
  BY DEF Failure, PopCheckpoint, Fails, Rollback, WaitForIp
<1>2. CursorOK'
  <2>1. {"rollback", "cleanup", "wait_ip", "raised"} \subseteq Places
    BY DEF Places
  <2>2. Resume => CursorOK'
    <3>1. target.step - StartIndex + 1 \in 1..Total + 1
      BY FunctionalAssumption, TotalType DEF RunnerOK, OnStack, StepNumbers
    <3>2. QED
      BY <3>1 DEF Resume, CursorOK, Places
  <2>3. QED
    BY <2>1, <2>2, GotoType DEF Failure, PopCheckpoint, Fails, Rollback, WaitForIp, Return, Escape
<1>3. RunnerOK'
  <2>1. CASE PopCheckpoint
    <3>1. checkpoints # <<>>
      BY <2>1 DEF PopCheckpoint, CanRewind
    <3>2. QED
      BY <2>1, <3>1, PopType DEF PopCheckpoint, RunnerOK, OnStack
  <2>2. CASE Fails \/ Rollback \/ WaitForIp
    <3>1. UNCHANGED <<opts, checkpoints, target, created, pending>>
      BY <2>2 DEF Fails, Rollback, WaitForIp
    <3>2. verdict' \in {"none", "pass", "fail"}
      BY <2>2 DEF Fails, Rollback, WaitForIp, Return, RunnerOK
    <3>3. QED
      BY <3>1, <3>2 DEF RunnerOK, OnStack
  <2>3. QED
    BY <2>1, <2>2 DEF Failure
<1>4. ProxmoxOK'
  <2>1. target.name \in Names
    BY DEF RunnerOK, Entries
  <2>2. snaps[target.name].of \in SUBSET (0..Total)
    BY <2>1 DEF ProxmoxOK
  <2>3. QED
    BY <2>2 DEF Failure, PopCheckpoint, Fails, Rollback, WaitForIp, Restored, ProxmoxOK, proxmox
<1>5. CountsOK'
  <2>1. fired' \in BOOLEAN /\ faults' \in 0..MaxFaults
    BY CalmType DEF Failure, PopCheckpoint, Fails, Rollback, WaitForIp
  <2>2. outcome' = outcome
    BY DEF Failure, PopCheckpoint, Fails, Rollback, WaitForIp
  <2>3. QED
    BY <2>1, <2>2 DEF CountsOK
<1>6. QED
  BY <1>2, <1>3, <1>4, <1>5

\* Passes, WatchdogEscapes, Hang and Cleanup
LEMMA EndType ==
  ASSUME TypeInv, Passes \/ WatchdogEscapes \/ Hang \/ Cleanup
  PROVE  TypeInv'
<1> USE DEF TypeInv
<1>1. CursorOK'
  <2>1. {"cleanup", "raised", "ended", "hung"} \subseteq Places
    BY DEF Places
  <2>2. QED
    BY <2>1, GotoType DEF Passes, WatchdogEscapes, Hang, Cleanup, Return, Escape
<1>2. RunnerOK'
  <2>1. UNCHANGED <<opts, checkpoints, target, created, pending>>
    BY DEF Passes, WatchdogEscapes, Hang, Cleanup, runner
  <2>2. verdict' \in {"none", "pass", "fail"}
    BY DEF Passes, WatchdogEscapes, Hang, Cleanup, runner, Return, RunnerOK
  <2>3. QED
    BY <2>1, <2>2 DEF RunnerOK, OnStack
<1>3. ProxmoxOK'
  <2>1. CASE UNCHANGED proxmox
    BY <2>1 DEF ProxmoxOK, proxmox
  <2>2. CASE Cleanup /\ ~UNCHANGED proxmox
    <3>1. PICK kept \in SUBSET {n \in Names : \E k \in DOMAIN created : created[k] = n} :
             snaps' = [n \in Names |-> [snaps[n] EXCEPT !.there =
                         @ /\ (n \in kept \/ \A k \in DOMAIN created : created[k] # n)]]
      BY <2>2 DEF Cleanup
    <3>2. \A n \in Names : snaps'[n] \in [there : BOOLEAN, of : SUBSET (0..Total)]
      BY <3>1 DEF ProxmoxOK
    <3>3. UNCHANGED <<disk, live>>
      BY <2>2 DEF Cleanup, proxmox
    <3>4. QED
      BY <3>1, <3>2, <3>3 DEF ProxmoxOK
  <2>3. QED
    BY <2>1, <2>2 DEF Passes, WatchdogEscapes, Hang
<1>4. CountsOK'
  <2>1. CASE Passes
    BY <2>1, CalmType DEF Passes, CountsOK
  <2>2. CASE WatchdogEscapes
    BY <2>2 DEF WatchdogEscapes, CountsOK
  <2>3. CASE Hang
    <3>1. faults \in 0..MaxFaults /\ faults < MaxFaults /\ faults' = faults + 1 /\ MaxFaults \in Nat
      BY <2>3, FunctionalAssumption DEF Hang, CountsOK
    <3>2. faults' \in 0..MaxFaults
      BY <3>1
    <3>3. UNCHANGED <<outcome, fired>>
      BY <2>3 DEF Hang
    <3>4. QED
      BY <3>2, <3>3 DEF CountsOK
  <2>4. CASE Cleanup
    <3>1. fired' \in BOOLEAN /\ faults' \in 0..MaxFaults
      BY <2>4, CalmType DEF Cleanup
    <3>2. QED
      BY <2>4, <3>1 DEF Cleanup, CountsOK
  <2>5. QED
    BY <2>1, <2>2, <2>3, <2>4
<1>5. QED
  BY <1>1, <1>2, <1>3, <1>4

LEMMA NextType == TypeInv /\ [Next]_vars => TypeInv'
<1> SUFFICES ASSUME TypeInv, [Next]_vars PROVE TypeInv'
  OBVIOUS
<1>1. CASE UNCHANGED vars
  BY <1>1 DEF vars, runner, proxmox, TypeInv, CursorOK, RunnerOK, OnStack, ProxmoxOK, CountsOK
<1>2. QED
  BY <1>1, DispatchType, SnapshotType, AttemptType, FailureType, EndType DEF Next

\* Every variable keeps its type: the cursor stays within the scenario, also
\* when a rewind computes it from a step number, and no attempt exceeds the
\* retries of its step.
THEOREM TypeCorrect == Spec => []TypeOK
<1>1. TypeInv => TypeOK
  BY DEF TypeInv, CursorOK, RunnerOK, ProxmoxOK, CountsOK, TypeOK
<1>2. QED
  BY InitType, NextType, <1>1, PTL DEF Spec

-----------------------------------------------------------------------------
(* Rewinds.  Two checkpoint steps of one name break them, and so does an     *)
(* action step that is never attempted; without both, RewindInv holds.       *)

IsSnapshotStep(i) == Scenario[i] \in {"checkpoint", "nested"}

WellFormed ==
  /\ \A i, j \in Steps : IsSnapshotStep(i) /\ IsSnapshotStep(j) /\ Snap[i] = Snap[j] => i = j
  /\ \A i \in Steps : Scenario[i] = "ui" => Retries[i] # 0

LEMMA BeforeNext ==
  ASSUME NEW i \in Steps
  PROVE  Before(i + 1) = IF Acts(i) THEN Before(i) \cup {i} ELSE Before(i)
<1>1. i \in Nat /\ 1..(i + 1) - 1 = (1..i - 1) \cup {i}
  BY TotalType DEF Steps
<1>2. QED
  BY <1>1 DEF Before

LEMMA InitRewind == Init => RewindInv
<1> SUFFICES ASSUME Init PROVE RewindInv
  OBVIOUS
<1>1. Before(1) = {}
  BY DEF Before
<1>2. QED
  BY <1>1 DEF Init, RewindInv, StackInv, CursorInv

\* StackInv, entry by entry
Holds(c, i, of) ==
  /\ c.step > StartIndex
  /\ Position(c) < i
  /\ Scenario[Position(c)] = IF c.text THEN "nested" ELSE "checkpoint"
  /\ Snap[Position(c)] = c.name
  /\ of = Before(Position(c))

Ordered(s) == \A k, l \in DOMAIN s : k < l => s[k].step < s[l].step

LEMMA StackHolds ==
  /\ StackInv <=> /\ \A k \in DOMAIN checkpoints :
                       Holds(checkpoints[k], index, snaps[checkpoints[k].name].of)
                  /\ Ordered(checkpoints)
  /\ StackInv' <=> /\ \A k \in DOMAIN checkpoints' :
                        Holds(checkpoints'[k], index', snaps'[checkpoints'[k].name].of)
                   /\ Ordered(checkpoints')
BY DEF StackInv, IsCheckpoint, Holds, Ordered, Position

\* a step that neither shortens what the cursor has passed nor touches the
\* stack or the contents of a snapshot
LEMMA StackKept ==
  ASSUME TypeInv, TypeInv', StackInv, index' >= index, checkpoints' = checkpoints,
         \A n \in Names : snaps'[n].of = snaps[n].of
  PROVE  StackInv'
<1>1. ASSUME NEW k \in DOMAIN checkpoints
      PROVE  /\ checkpoints[k] \in Entries
             /\ IsCheckpoint(checkpoints[k])' /\ IsCheckpoint(checkpoints[k])
             /\ snaps'[checkpoints[k].name].of = Before(Position(checkpoints[k]))
  <2>1. checkpoints[k] \in Entries
    BY ElementOfSeq, LenProperties DEF TypeInv, RunnerOK
  <2>2. /\ IsCheckpoint(checkpoints[k])
        /\ snaps[checkpoints[k].name].of = Before(Position(checkpoints[k]))
    BY DEF StackInv
  <2>3. index \in Nat /\ index' \in Nat /\ Position(checkpoints[k]) \in Int
    BY <2>1, FunctionalAssumption, TotalType DEF TypeInv, CursorOK, Position, Entries
  <2>4. Position(checkpoints[k]) < index'
    BY <2>2, <2>3 DEF IsCheckpoint
  <2>5. checkpoints'[k] = checkpoints[k] /\ checkpoints[k].name \in Names
    BY <2>1 DEF Entries
  <2>6. IsCheckpoint(checkpoints[k])'
    BY <2>2, <2>4, <2>5 DEF IsCheckpoint, Position
  <2>7. QED
    BY <2>1, <2>2, <2>5, <2>6
<1>2. QED
  BY <1>1 DEF StackInv, IsCheckpoint, Position

LEMMA DispatchRewind ==
  ASSUME TypeInv, TypeInv', RewindInv, Dispatch
  PROVE  RewindInv'
<1>1. at = "run" /\ index \in Steps /\ index \in Nat /\ disk = Before(index)
  BY TotalType
     DEF Dispatch, Checkpoint, IfVisible, VerifyRecorded, WaitFor, PollShell, Waits, Shell, Key,
         OneShot, Launch, Ui, AtStep, CursorOK, Steps, TypeInv, RewindInv, CursorInv
<1>2. UNCHANGED <<checkpoints, target, snaps>>
  BY DEF Dispatch, Checkpoint, IfVisible, VerifyRecorded, WaitFor, PollShell, Waits, Shell, Key,
         OneShot, Launch, Ui, Touch, MayTouch, runner, proxmox
<1>3. \/ at' = "run" /\ index' = index + 1 /\ ~Acts(index) /\ disk' = disk
      \/ at' = "list" /\ index' = index /\ IsSnapshotStep(index) /\ disk' = disk
      \/ at' = "attempt" /\ index' = index /\ Acts(index) /\ disk' = disk \cup {index}
      \/ at' = "attempt" /\ index' = index /\ Kind = "ui" /\ disk' = disk
      \/ at' \in {"failing", "raised"} /\ index' = index
  <2> USE DEF Acts, IsSnapshotStep, Kind, AtStep, NextStep, Goto, StepFailed, Escape, Touch, proxmox
  <2>1. CASE Checkpoint
    BY <2>1 DEF Checkpoint
  <2>2. CASE IfVisible
    BY <2>2 DEF IfVisible
  <2>3. CASE VerifyRecorded
    BY <2>3 DEF VerifyRecorded
  <2>4. CASE WaitFor \/ PollShell
    BY <2>4 DEF WaitFor, PollShell, Waits
  <2>5. CASE Shell \/ Key
    BY <2>5 DEF Shell, Key, OneShot
  <2>6. CASE Launch
    BY <2>6 DEF Launch
  <2>7. CASE Ui
    BY <2>7 DEF Ui
  <2>8. QED
    BY <2>1, <2>2, <2>3, <2>4, <2>5, <2>6, <2>7 DEF Dispatch
<1>4. StackInv'
  <2>1. index' >= index
    BY <1>1, <1>3
  <2>2. QED
    BY <1>2, <2>1, StackKept DEF RewindInv
<1>5. CursorInv'
  <2>1. CASE at' = "run" /\ index' = index + 1 /\ ~Acts(index) /\ disk' = disk
    BY <1>1, <2>1, BeforeNext DEF CursorInv
  <2>2. CASE at' = "list" /\ index' = index /\ IsSnapshotStep(index) /\ disk' = disk
    BY <1>1, <2>2 DEF CursorInv, IsSnapshotStep
  <2>3. CASE at' = "attempt" /\ index' = index /\ Acts(index) /\ disk' = disk \cup {index}
    BY <1>1, <2>3, BeforeNext DEF CursorInv
  <2>4. CASE at' = "attempt" /\ index' = index /\ Kind = "ui" /\ disk' = disk
    BY <1>1, <2>4 DEF CursorInv, Kind, Acts
  <2>5. CASE at' \in {"failing", "raised"} /\ index' = index
    BY <2>5 DEF CursorInv
  <2>6. QED
    BY <1>3, <2>1, <2>2, <2>3, <2>4, <2>5
<1>6. QED
  BY <1>4, <1>5 DEF RewindInv

LEMMA SnapshotRewind ==
  ASSUME WellFormed, TypeInv, TypeInv', RewindInv, Snapshot
  PROVE  RewindInv'
<1>1. /\ at \in {"list", "delete", "snap"} /\ index \in Steps /\ index \in Nat
      /\ IsSnapshotStep(index) /\ ~Acts(index) /\ disk = Before(index)
  BY TotalType DEF Snapshot, ListSnapshots, DeleteSnapshot, CreateSnapshot, RewindInv, CursorInv,
                   IsSnapshotStep, Acts, Steps
<1>2. disk' = disk /\ target' = target /\ Name \in Names
  BY <1>1, FunctionalAssumption
     DEF Snapshot, ListSnapshots, DeleteSnapshot, CreateSnapshot, Gone, Taken, Pushed, Name,
         runner, proxmox
<1>3. CASE ListSnapshots \/ DeleteSnapshot
  <2>1. UNCHANGED <<checkpoints, index>> /\ at' \in {"delete", "snap"}
    BY <1>3 DEF ListSnapshots, DeleteSnapshot, Goto, runner
  <2>2. \A n \in Names : snaps'[n].of = snaps[n].of
    BY <1>2, <1>3 DEF ListSnapshots, DeleteSnapshot, Gone, proxmox, TypeInv, ProxmoxOK
  <2>3. StackInv'
    BY <1>1, <2>1, <2>2, StackKept DEF RewindInv
  <2>4. CursorInv'
    BY <1>1, <1>2, <2>1 DEF CursorInv, IsSnapshotStep
  <2>5. QED
    BY <2>3, <2>4 DEF RewindInv
<1>4. CASE CreateSnapshot
  <2>1. at' = "run" /\ index' = index + 1
    BY <1>4 DEF CreateSnapshot, NextStep
  <2>2. CursorInv'
    BY <1>1, <1>2, <2>1, BeforeNext DEF CursorInv
  <2>3. /\ \A n \in Names \ {Name} : snaps'[n] = snaps[n]
        /\ Pushed => snaps'[Name].of = Before(index)
    BY <1>1, <1>2, <1>4 DEF CreateSnapshot, Taken, Pushed, proxmox, TypeInv, ProxmoxOK
  <2>4. ASSUME NEW k \in DOMAIN checkpoints
        PROVE  /\ checkpoints[k].step < Number
               /\ Holds(checkpoints[k], index', snaps'[checkpoints[k].name].of)
    <3> DEFINE c == checkpoints[k]
    <3>1. c \in Entries
      BY ElementOfSeq, LenProperties DEF TypeInv, RunnerOK
    <3>2. Holds(c, index, snaps[c.name].of)
      BY StackHolds DEF RewindInv
    <3>3. /\ Position(c) \in Steps /\ Position(c) < index /\ Position(c) # index
          /\ c.step < Number
      <4>1. c.step \in Nat /\ StartIndex \in Nat
        BY <3>1, FunctionalAssumption DEF Entries
      <4>2. QED
        BY <1>1, <3>2, <4>1, TotalType DEF Holds, Position, Number, Steps
    <3>4. IsSnapshotStep(Position(c)) /\ Snap[Position(c)] = c.name
      BY <3>2 DEF Holds, IsSnapshotStep
    <3>5. c.name # Name
      BY <1>1, <3>3, <3>4 DEF WellFormed, Name
    <3>6. snaps'[c.name] = snaps[c.name]
      BY <2>3, <3>1, <3>5 DEF Entries
    <3>7. Position(c) < index'
      BY <1>1, <2>1, <3>3 DEF Steps
    <3>8. QED
      BY <3>2, <3>3, <3>6, <3>7 DEF Holds
  <2>5. CASE UNCHANGED checkpoints
    BY <2>2, <2>4, <2>5, StackHolds DEF RewindInv, Ordered
  <2>6. CASE Pushed
    <3> DEFINE e == [name |-> Name, step |-> Number, text |-> Kind = "nested"]
               n == Len(checkpoints)
    <3>1. e \in Entries /\ n \in Nat /\ DOMAIN checkpoints = 1..n
      BY <1>1, <1>2, FunctionalAssumption, LenProperties DEF Entries, Number, TypeInv, RunnerOK
    <3>2. /\ DOMAIN checkpoints' = 1..n + 1
          /\ checkpoints'[n + 1] = e
          /\ \A k \in 1..n : checkpoints'[k] = checkpoints[k]
      BY <2>6, <3>1, AppendProperties, LenProperties DEF Pushed, TypeInv, RunnerOK
    <3>3. Holds(e, index', snaps'[Name].of)
      <4>1. Position(e) = index /\ e.step > StartIndex /\ e.name = Name
        BY <1>1, TotalType, FunctionalAssumption DEF Position, Number, Steps
      <4>2. Scenario[index] = IF e.text THEN "nested" ELSE "checkpoint"
        BY <1>1 DEF IsSnapshotStep, Kind
      <4>3. index < index' /\ Snap[index] = e.name
        BY <1>1, <2>1 DEF Name
      <4>4. QED
        BY <2>3, <2>6, <4>1, <4>2, <4>3 DEF Holds
    <3>4. \A k \in 1..n + 1 : Holds(checkpoints'[k], index', snaps'[checkpoints'[k].name].of)
      <4>1. \A k \in 1..n + 1 : k \in 1..n \/ k = n + 1
        BY <3>1
      <4>2. e.name = Name
        OBVIOUS
      <4>3. QED
        BY <2>4, <3>1, <3>2, <3>3, <4>1, <4>2
    <3>5. Ordered(checkpoints')
      <4>1. ASSUME NEW k \in 1..n + 1, NEW l \in 1..n + 1, k < l
            PROVE  checkpoints'[k].step < checkpoints'[l].step
        <5>1. k \in 1..n
          BY <3>1, <4>1
        <5>2. CASE l = n + 1
          <6>1. e.step = Number
            OBVIOUS
          <6>2. QED
            BY <2>4, <3>1, <3>2, <5>1, <5>2, <6>1
        <5>3. CASE l \in 1..n
          BY <3>1, <3>2, <4>1, <5>1, <5>3, StackHolds DEF RewindInv, Ordered
        <5>4. QED
          BY <3>1, <5>2, <5>3
      <4>2. QED
        BY <3>2, <4>1 DEF Ordered
    <3>6. StackInv'
      BY <3>2, <3>4, <3>5, StackHolds
    <3>7. QED
      BY <2>2, <3>6 DEF RewindInv
  <2>7. QED
    BY <1>4, <2>5, <2>6 DEF CreateSnapshot, runner
<1>5. QED
  BY <1>3, <1>4 DEF Snapshot

LEMMA AttemptRewind ==
  ASSUME WellFormed, TypeInv, TypeInv', RewindInv, Attempt
  PROVE  RewindInv'
<1>1. /\ at = "attempt" /\ index \in Steps /\ index \in Nat /\ Acts(index)
      /\ disk \in {Before(index), Before(index + 1)}
      /\ Kind # "ui" => disk = Before(index + 1)
  BY TotalType
     DEF Attempt, NoAttempt, Settled, Verified, ClickUnverified, OutOfBounds, Unverified, AppCrashed,
         AttemptRaises, AgentRaises, InLoop, RewindInv, CursorInv, Steps, Kind
<1>2. Before(index + 1) = Before(index) \cup {index}
  BY <1>1, BeforeNext
<1>3. UNCHANGED <<checkpoints, target, snaps>>
  BY DEF Attempt, NoAttempt, Settled, Verified, ClickUnverified, OutOfBounds, Unverified, AppCrashed,
         AttemptRaises, AgentRaises, GiveUp, MayTouch, Touch, runner, proxmox
<1>4. disk' = disk \/ disk' = Before(index + 1)
  <2>1. disk \cup {index} = Before(index + 1)
    BY <1>1, <1>2
  <2>2. disk' = disk \/ disk' = disk \cup {index}
    BY DEF Attempt, NoAttempt, Settled, Verified, ClickUnverified, OutOfBounds, Unverified, AppCrashed,
           AttemptRaises, AgentRaises, GiveUp, MayTouch, Touch, proxmox
  <2>3. QED
    BY <2>1, <2>2
<1>5. \/ at' = "run" /\ index' = index + 1 /\ disk' = Before(index + 1)
      \/ at' = "attempt" /\ index' = index
      \/ at' \in {"failing", "raised"} /\ index' = index
  <2> USE DEF NextStep, Goto, StepFailed, Escape, Again
  <2>1. CASE NoAttempt
    <3>1. attempt = 1 /\ Retries[index] \in Nat
      BY <1>1, <2>1, FunctionalAssumption DEF NoAttempt, TypeInv, CursorOK
    <3>2. Kind # "ui"
      BY <1>1, <2>1, <3>1 DEF NoAttempt, WellFormed, Kind
    <3>3. disk' = Before(index + 1)
      BY <1>1, <2>1, <3>2 DEF NoAttempt, proxmox
    <3>4. QED
      BY <2>1, <3>3 DEF NoAttempt
  <2>2. disk \cup {index} = Before(index + 1)
    BY <1>1, <1>2
  <2>3. CASE Settled \/ Verified
    BY <2>2, <2>3 DEF Settled, Verified, Touch
  <2>4. CASE ClickUnverified
    BY <1>1, <2>4 DEF ClickUnverified
  <2>5. CASE Unverified
    BY <1>1, <2>2, <2>5 DEF Unverified, GiveUp, MayTouch, Touch
  <2>6. CASE OutOfBounds \/ AppCrashed \/ AgentRaises
    BY <2>6 DEF OutOfBounds, AppCrashed, AgentRaises
  <2>7. CASE AttemptRaises
    BY <1>1, <2>2, <2>7 DEF AttemptRaises, GiveUp, MayTouch, Touch
  <2>8. QED
    BY <2>1, <2>3, <2>4, <2>5, <2>6, <2>7 DEF Attempt
<1>6. StackInv'
  <2>1. index' >= index
    BY <1>1, <1>5
  <2>2. QED
    BY <1>3, <2>1, StackKept DEF RewindInv
<1>7. CursorInv'
  <2>1. CASE at' = "run" /\ index' = index + 1 /\ disk' = Before(index + 1)
    BY <2>1 DEF CursorInv
  <2>2. CASE at' = "attempt" /\ index' = index
    BY <1>1, <1>4, <2>2 DEF CursorInv, Kind, Acts
  <2>3. CASE at' \in {"failing", "raised"} /\ index' = index
    BY <2>3 DEF CursorInv
  <2>4. QED
    BY <1>5, <2>1, <2>2, <2>3
<1>8. QED
  BY <1>6, <1>7 DEF RewindInv

LEMMA PopRewind ==
  ASSUME TypeInv, TypeInv', RewindInv, PopCheckpoint
  PROVE  RewindInv'
<1> DEFINE n == Len(checkpoints)
<1>1. checkpoints # <<>>
  BY DEF PopCheckpoint, CanRewind
<1>2. /\ n \in Nat \ {0} /\ DOMAIN checkpoints = 1..n
      /\ target' = checkpoints[n]
      /\ DOMAIN checkpoints' = 1..n - 1
      /\ \A k \in 1..n - 1 : checkpoints'[k] = checkpoints[k]
  BY <1>1, PopType, LenProperties DEF PopCheckpoint, TypeInv, RunnerOK
<1>3. UNCHANGED <<index, disk, snaps>> /\ at' = "rollback"
  BY DEF PopCheckpoint, Goto, proxmox
<1>4. \A k \in 1..n - 1 : k \in 1..n /\ n \in 1..n /\ k < n
  BY <1>2
<1>5. StackInv'
  <2>1. /\ \A k \in 1..n : Holds(checkpoints[k], index, snaps[checkpoints[k].name].of)
        /\ \A k, l \in 1..n : k < l => checkpoints[k].step < checkpoints[l].step
    BY <1>2, StackHolds DEF RewindInv, Ordered
  <2>2. \A k \in DOMAIN checkpoints' : Holds(checkpoints'[k], index', snaps'[checkpoints'[k].name].of)
    BY <1>2, <1>3, <1>4, <2>1
  <2>3. Ordered(checkpoints')
    BY <1>2, <1>4, <2>1 DEF Ordered
  <2>4. QED
    BY <2>2, <2>3, StackHolds
<1>6. CursorInv'
  <2>1. Holds(target', index', snaps'[target'.name].of)
    BY <1>2, <1>3, StackHolds DEF RewindInv
  <2>2. \A k \in DOMAIN checkpoints' : checkpoints'[k].step < target'.step
    BY <1>2, <1>4, StackHolds DEF RewindInv, Ordered
  <2>3. QED
    BY <1>3, <2>1, <2>2 DEF CursorInv, Holds, IsCheckpoint, Position
<1>7. QED
  BY <1>5, <1>6 DEF RewindInv

LEMMA RollbackRewind ==
  ASSUME TypeInv, TypeInv', RewindInv, Fails \/ Rollback
  PROVE  RewindInv'
<1>1. UNCHANGED <<checkpoints, target, snaps, index>>
  BY DEF Fails, Rollback, Restored, Return, Goto, proxmox
<1>2. \/ at' = "cleanup"
      \/ at = "rollback" /\ at' = "wait_ip" /\ disk' = snaps[target.name].of
  BY DEF Fails, Rollback, Restored, Return, Goto
<1>3. StackInv'
  <2>1. index' >= index
    BY <1>1, TotalType DEF TypeInv, CursorOK
  <2>2. QED
    BY <1>1, <2>1, StackKept DEF RewindInv
<1>4. CursorInv'
  BY <1>1, <1>2 DEF RewindInv, CursorInv, IsCheckpoint, Position
<1>5. QED
  BY <1>3, <1>4 DEF RewindInv

LEMMA ResumeRewind ==
  ASSUME TypeInv, TypeInv', RewindInv, WaitForIp
  PROVE  RewindInv'
<1>1. UNCHANGED <<checkpoints, target, disk, snaps>> /\ at = "wait_ip"
  BY DEF WaitForIp, proxmox
<1>2. CASE Resume /\ ~target.text
  <2> DEFINE i == Position(target)
  <2>1. /\ target \in Entries /\ target.step \in Nat /\ StartIndex \in Nat
    BY FunctionalAssumption DEF TypeInv, RunnerOK, Entries
  <2>2. IsCheckpoint(target) /\ disk = Before(i)
    BY <1>1 DEF RewindInv, CursorInv
  <2>3. i \in Steps /\ index' = i + 1 /\ at' = "run"
    BY <1>2, <2>1, <2>2, TotalType
       DEF Resume, IsCheckpoint, Position, Steps, TypeInv, CursorOK
  <2>4. ~Acts(i)
    BY <1>2, <2>2 DEF IsCheckpoint, Acts
  <2>5. disk' = Before(index')
    BY <1>1, <2>2, <2>3, <2>4, BeforeNext
  <2>6. CursorInv'
    BY <2>3, <2>5 DEF CursorInv
  <2>7. ASSUME NEW k \in DOMAIN checkpoints
        PROVE  Holds(checkpoints[k], index', snaps[checkpoints[k].name].of)
    <3>1. /\ Holds(checkpoints[k], index, snaps[checkpoints[k].name].of)
          /\ checkpoints[k].step < target.step
      BY <1>1, StackHolds DEF RewindInv, CursorInv
    <3>2. checkpoints[k].step \in Nat
      <4>1. checkpoints[k] \in Entries
        BY ElementOfSeq, LenProperties DEF TypeInv, RunnerOK
      <4>2. QED
        BY <4>1 DEF Entries
    <3>3. Position(checkpoints[k]) < index'
      BY <2>1, <2>3, <3>1, <3>2 DEF Position
    <3>4. QED
      BY <3>1, <3>3 DEF Holds
  <2>8. StackInv'
    BY <1>1, <2>7, StackHolds DEF RewindInv
  <2>9. QED
    BY <2>6, <2>8 DEF RewindInv
<1>3. CASE ~(Resume /\ ~target.text)
  <2>1. index' = index /\ at' \in {"cleanup", "raised"}
    BY <1>3 DEF WaitForIp, Return, Escape, Goto
  <2>2. index' >= index
    BY <2>1, TotalType DEF TypeInv, CursorOK
  <2>3. StackInv'
    BY <1>1, <2>2, StackKept DEF RewindInv
  <2>4. CursorInv'
    BY <2>1 DEF CursorInv
  <2>5. QED
    BY <2>3, <2>4 DEF RewindInv
<1>4. QED
  BY <1>2, <1>3

LEMMA EndRewind ==
  ASSUME TypeInv, TypeInv', RewindInv, Passes \/ WatchdogEscapes \/ Hang \/ Cleanup
  PROVE  RewindInv'
<1>1. UNCHANGED <<checkpoints, index>> /\ at' \in {"cleanup", "raised", "ended", "hung"}
  BY DEF Passes, WatchdogEscapes, Hang, Cleanup, Return, Escape, Goto, runner
<1>2. \A n \in Names : snaps'[n].of = snaps[n].of
  <2>1. CASE UNCHANGED proxmox
    BY <2>1 DEF proxmox
  <2>2. CASE Cleanup
    BY <2>2 DEF Cleanup, proxmox, TypeInv, ProxmoxOK
  <2>3. QED
    BY <2>1, <2>2 DEF Passes, WatchdogEscapes, Hang
<1>3. index' >= index
  BY <1>1, TotalType DEF TypeInv, CursorOK
<1>4. StackInv'
  BY <1>1, <1>2, <1>3, StackKept DEF RewindInv
<1>5. CursorInv'
  BY <1>1 DEF CursorInv
<1>6. QED
  BY <1>4, <1>5 DEF RewindInv

LEMMA NextRewind ==
  ASSUME WellFormed
  PROVE  TypeInv /\ TypeInv' /\ RewindInv /\ [Next]_vars => RewindInv'
<1> SUFFICES ASSUME TypeInv, TypeInv', RewindInv, [Next]_vars PROVE RewindInv'
  OBVIOUS
<1>1. CASE UNCHANGED vars
  BY <1>1, StackHolds DEF vars, runner, proxmox, RewindInv, CursorInv, IsCheckpoint, Position
<1>2. QED
  BY <1>1, DispatchRewind, SnapshotRewind, AttemptRewind, PopRewind, RollbackRewind,
     ResumeRewind, EndRewind
     DEF Next, Failure

\* what a step does to the memory goes with what it does to the disk
LEMMA InitLive == Init => LiveInv
BY FunctionalAssumption DEF Init, LiveInv, Position

TouchesBoth ==
  \/ UNCHANGED <<disk, live>>
  \/ disk' = disk \cup {index} /\ live' = live \cup {index}

LEMMA LiveKept ==
  ASSUME TypeInv, TypeInv', LiveInv, at \in {"run", "attempt", "list", "delete", "snap"},
         index' \in {index, index + 1}, target' = target, TouchesBoth,
         at' # "wait_ip"
  PROVE  LiveInv'
<1>1. /\ Position(target) < index /\ live = {j \in disk : j > Position(target)}
      /\ index \in Nat /\ Position(target) \in Int
  BY TotalType, FunctionalAssumption
     DEF LiveInv, TypeInv, CursorOK, RunnerOK, Entries, Position
<1>2. Position(target') = Position(target) /\ Position(target) < index'
  BY <1>1 DEF Position
<1>3. live' = {j \in disk' : j > Position(target)}
  BY <1>1 DEF TouchesBoth
<1>4. QED
  BY <1>2, <1>3 DEF LiveInv, Position

LEMMA NextLive ==
  TypeInv /\ TypeInv' /\ RewindInv' /\ RewindInv /\ LiveInv /\ [Next]_vars => LiveInv'
<1> SUFFICES ASSUME TypeInv, TypeInv', RewindInv, RewindInv', LiveInv, [Next]_vars PROVE LiveInv'
  OBVIOUS
<1> USE DEF Goto, NextStep, Again, StepFailed, Escape, Return
<1>1. CASE Dispatch
  BY <1>1, LiveKept
     DEF Dispatch, Checkpoint, IfVisible, VerifyRecorded, WaitFor, PollShell, Waits, Shell, Key, OneShot,
         Launch, Ui, AtStep, MayTouch, Touch, TouchesBoth, runner, proxmox
<1>2. CASE Snapshot
  BY <1>2, LiveKept
     DEF Snapshot, ListSnapshots, DeleteSnapshot, CreateSnapshot, Gone, Taken, TouchesBoth, runner, proxmox
<1>3. CASE Attempt
  BY <1>3, LiveKept
     DEF Attempt, NoAttempt, Settled, Verified, ClickUnverified, OutOfBounds, Unverified, AppCrashed,
         AttemptRaises, AgentRaises, GiveUp, InLoop, MayTouch, Touch, TouchesBoth, runner, proxmox
<1>4. CASE PopCheckpoint \/ Fails \/ Rollback \/ (WaitForIp /\ ~Resume) \/ Passes
           \/ WatchdogEscapes \/ Hang \/ Cleanup
  <2>1. /\ at' \notin {"run", "attempt", "list", "delete", "snap"}
        /\ at' = "wait_ip" => live' = {}
    BY <1>4 DEF PopCheckpoint, Fails, Rollback, Restored, WaitForIp, Passes, WatchdogEscapes, Hang, Cleanup
  <2>2. QED
    BY <2>1 DEF LiveInv
<1>5. CASE WaitForIp /\ Resume
  <2> DEFINE i == Position(target)
  <2>1. at = "wait_ip" /\ at' = "run" /\ index' = i + 1 /\ target' = target /\ live' = live
    BY <1>5 DEF WaitForIp, Resume, Position, proxmox
  <2>2. live' = {} /\ i \in Int
    BY <2>1, FunctionalAssumption DEF LiveInv, TypeInv, RunnerOK, Entries, Position
  <2>3. disk' = Before(i + 1)
    BY <2>1 DEF RewindInv, CursorInv
  <2>4. \A j \in disk' : j <= i
    BY <2>2, <2>3 DEF Before
  <2>5. live' = {j \in disk' : j > i} /\ i < index'
    BY <2>1, <2>2, <2>3, <2>4 DEF Before
  <2>6. QED
    BY <2>1, <2>5 DEF LiveInv, Position
<1>6. CASE UNCHANGED vars
  BY <1>6 DEF vars, runner, proxmox, LiveInv, Position
<1>7. QED
  BY <1>1, <1>2, <1>3, <1>4, <1>5, <1>6 DEF Next, Failure

\* In a scenario whose snapshot names are unique and whose clicks are tried at
\* all, every step starts on a VM whose disk shows the effects of exactly the
\* steps before it, and in whose memory is what was done since the checkpoint
\* last rewound to: after any rewinds, failed snapshots and failed deletions,
\* and with any cut by --from-step.
THEOREM RewindAligned ==
  ASSUME WellFormed
  PROVE  Spec => []Aligned
<1>1. Init => TypeInv /\ RewindInv /\ LiveInv
  BY InitType, InitRewind, InitLive
<1>2. TypeInv /\ RewindInv /\ LiveInv /\ [Next]_vars => TypeInv' /\ RewindInv' /\ LiveInv'
  BY NextType, NextRewind, NextLive
<1>3. RewindInv /\ LiveInv => Aligned
  BY DEF RewindInv, CursorInv, LiveInv, Aligned
<1>4. QED
  BY <1>1, <1>2, <1>3, PTL DEF Spec
-----------------------------------------------------------------------------
(* What a pass means.  None of this depends on the names of the snapshots.    *)

LEMMA InitSettled == Init => BehindInv /\ SettledInv
BY TotalType DEF Init, BehindInv, SettledInv

\* a step that leaves the stack alone and does not go back
LEMMA BehindKept ==
  ASSUME TypeInv, TypeInv', BehindInv, index' >= index, UNCHANGED <<checkpoints, target>>,
         at' \in {"rollback", "wait_ip"} => at \in {"rollback", "wait_ip"}
  PROVE  BehindInv'
<1>1. ASSUME NEW c \in Entries, Position(c) < index PROVE Position(c) < index'
  BY <1>1, FunctionalAssumption, TotalType DEF TypeInv, CursorOK, Position, Entries
<1>2. /\ \A k \in DOMAIN checkpoints : checkpoints[k] \in Entries
      /\ target \in Entries
  BY ElementOfSeq, LenProperties DEF TypeInv, RunnerOK
<1>3. \A k \in DOMAIN checkpoints' : Position(checkpoints'[k]) < index'
  BY <1>1, <1>2 DEF BehindInv
<1>4. at' \in {"rollback", "wait_ip"} => Position(target') < index'
  BY <1>1, <1>2 DEF BehindInv
<1>5. QED
  BY <1>3, <1>4 DEF BehindInv, Position

LEMMA PushBehind ==
  ASSUME TypeInv, TypeInv', BehindInv, CreateSnapshot, Pushed
  PROVE  BehindInv'
<1> DEFINE e == [name |-> Name, step |-> Number, text |-> Kind = "nested"]
           n == Len(checkpoints)
<1>1. index \in Steps /\ index \in Nat /\ StartIndex \in Nat /\ index' = index + 1 /\ at' = "run"
  BY TotalType, FunctionalAssumption DEF CreateSnapshot, NextStep, Steps, TypeInv, CursorOK
<1>2. n \in Nat /\ DOMAIN checkpoints = 1..n /\ \A k \in 1..n : checkpoints[k] \in Entries
  BY ElementOfSeq, LenProperties DEF TypeInv, RunnerOK
<1>3. e \in Entries
  BY <1>1, FunctionalAssumption DEF Entries, Name, Number, Steps
<1>4. /\ DOMAIN checkpoints' = 1..n + 1
      /\ checkpoints'[n + 1] = e
      /\ \A k \in 1..n : checkpoints'[k] = checkpoints[k]
  BY <1>3, AppendProperties, LenProperties DEF Pushed, TypeInv, RunnerOK
<1>5. e.step = StartIndex + index
  BY DEF Number
<1>6. \A k \in 1..n : Position(checkpoints[k]) < index
  BY <1>2 DEF BehindInv
<1>7. \A k \in 1..n : Position(checkpoints[k]) < index' /\ checkpoints[k].step < e.step
  <2>1. \A c \in Entries : Position(c) < index => Position(c) < index + 1 /\ c.step < StartIndex + index
    BY <1>1 DEF Position, Entries
  <2>2. QED
    BY <1>1, <1>2, <1>5, <1>6, <2>1
<1>8. Position(e) < index'
  BY <1>1, <1>5 DEF Position
<1>9. \A k \in 1..n + 1 : k \in 1..n \/ k = n + 1
  BY <1>2
<1>10. \A k \in DOMAIN checkpoints' : Position(checkpoints'[k]) < index'
  BY <1>4, <1>7, <1>8, <1>9
<1>11. ASSUME NEW k \in 1..n + 1, NEW l \in 1..n + 1, k < l
       PROVE  checkpoints'[k].step < checkpoints'[l].step
  <2>1. k \in 1..n
    BY <1>2, <1>11
  <2>2. CASE l = n + 1
    BY <1>4, <1>7, <2>1, <2>2
  <2>3. CASE l \in 1..n
    BY <1>2, <1>4, <1>11, <2>1, <2>3 DEF BehindInv
  <2>4. QED
    BY <1>9, <2>2, <2>3
<1>12. QED
  BY <1>1, <1>4, <1>10, <1>11 DEF BehindInv, Position

LEMMA PopBehind ==
  ASSUME TypeInv, BehindInv, PopCheckpoint
  PROVE  BehindInv'
<1> DEFINE n == Len(checkpoints)
<1>1. checkpoints # <<>> /\ index' = index
  BY DEF PopCheckpoint, CanRewind, Goto
<1>2. /\ n \in Nat \ {0} /\ DOMAIN checkpoints = 1..n
      /\ target' = checkpoints[n]
      /\ DOMAIN checkpoints' = 1..n - 1
      /\ \A k \in 1..n - 1 : checkpoints'[k] = checkpoints[k]
  BY <1>1, PopType, LenProperties DEF PopCheckpoint, TypeInv, RunnerOK
<1>3. \A k \in 1..n - 1 : k \in 1..n /\ n \in 1..n /\ k < n
  BY <1>2
<1>4. n \in 1..n
  BY <1>2
<1>5. \A k \in 1..n : Position(checkpoints[k]) < index
  BY <1>2 DEF BehindInv
<1>6. \A k, l \in 1..n : k < l => checkpoints[k].step < checkpoints[l].step
  BY <1>2 DEF BehindInv
<1>7. Position(target') < index'
  BY <1>1, <1>2, <1>4, <1>5
<1>8. \A k \in DOMAIN checkpoints' : Position(checkpoints'[k]) < index'
  BY <1>1, <1>2, <1>3, <1>5
<1>9. \A k \in DOMAIN checkpoints' : checkpoints'[k].step < target'.step
  BY <1>2, <1>3, <1>6
<1>10. \A k, l \in DOMAIN checkpoints' : k < l => checkpoints'[k].step < checkpoints'[l].step
  BY <1>2, <1>3, <1>6
<1>11. QED
  BY <1>7, <1>8, <1>9, <1>10 DEF BehindInv, Position

\* a rewind lets the cursor go back, behind the checkpoint and before the cursor
LEMMA ResumeBehind ==
  ASSUME TypeInv, BehindInv, at = "wait_ip", Resume, UNCHANGED <<checkpoints, target>>
  PROVE  BehindInv' /\ index' \in Nat /\ index' <= index
<1>1. /\ target \in Entries /\ StartIndex \in Nat /\ index \in Nat
      /\ \A k \in DOMAIN checkpoints : checkpoints[k] \in Entries
  BY FunctionalAssumption, TotalType, ElementOfSeq, LenProperties DEF TypeInv, RunnerOK, CursorOK
<1>2. at' = "run" /\ index' = Position(target) + 1 /\ target.step \in StepNumbers
  BY DEF Resume, Position, TypeInv, RunnerOK, OnStack
<1>3. index' \in Nat /\ index' <= index
  BY <1>1, <1>2, TotalType DEF BehindInv, Position, StepNumbers, Entries
<1>4. \A k \in DOMAIN checkpoints : Position(checkpoints[k]) < index'
  BY <1>1, <1>2 DEF BehindInv, Position, Entries
<1>5. QED
  BY <1>2, <1>3, <1>4 DEF BehindInv, Position

LEMMA NextBehind == TypeInv /\ TypeInv' /\ BehindInv /\ [Next]_vars => BehindInv'
<1> SUFFICES ASSUME TypeInv, TypeInv', BehindInv, [Next]_vars PROVE BehindInv'
  OBVIOUS
<1>0. index \in Nat
  BY TotalType DEF TypeInv, CursorOK
<1>1. CASE Dispatch \/ Attempt \/ ListSnapshots \/ DeleteSnapshot \/ Fails \/ Rollback
           \/ Passes \/ WatchdogEscapes \/ Hang \/ Cleanup \/ (CreateSnapshot /\ ~Pushed)
           \/ (WaitForIp /\ ~Resume)
  <2>1. UNCHANGED <<checkpoints, target>>
    BY <1>1 DEF Dispatch, Checkpoint, IfVisible, VerifyRecorded, WaitFor, PollShell, Waits, Shell, Key,
         OneShot, Launch, Ui, Attempt, NoAttempt, Settled, Verified, ClickUnverified, OutOfBounds,
         Unverified, AppCrashed, AttemptRaises, AgentRaises, ListSnapshots, DeleteSnapshot,
         CreateSnapshot, Fails, Rollback, WaitForIp, Passes, WatchdogEscapes, Hang, Cleanup, runner
  <2>2. index' \in {index, index + 1} /\ (at' \in {"rollback", "wait_ip"} => at \in {"rollback", "wait_ip"})
    <3> USE DEF Goto, NextStep, Again, StepFailed, Escape, Return
    <3>1. CASE Dispatch
      BY <3>1 DEF Dispatch, Checkpoint, IfVisible, VerifyRecorded, WaitFor, PollShell, Waits, Shell, Key,
                  OneShot, Launch, Ui
    <3>2. CASE Attempt
      BY <3>2 DEF Attempt, NoAttempt, Settled, Verified, ClickUnverified, OutOfBounds,
                  Unverified, AppCrashed, AttemptRaises, AgentRaises, GiveUp
    <3>3. CASE ListSnapshots \/ DeleteSnapshot \/ Fails \/ Rollback
               \/ Passes \/ WatchdogEscapes \/ Hang \/ Cleanup \/ CreateSnapshot
      BY <3>3 DEF ListSnapshots, DeleteSnapshot, Fails, Rollback, Passes, WatchdogEscapes, Hang, Cleanup,
                  CreateSnapshot
    <3>4. CASE WaitForIp /\ ~Resume
      BY <3>4 DEF WaitForIp
    <3>5. QED
      BY <1>1, <3>1, <3>2, <3>3, <3>4
  <2>3. index' >= index
    BY <1>0, <2>2
  <2>4. QED
    BY <2>1, <2>2, <2>3, BehindKept
<1>2. CASE CreateSnapshot /\ Pushed
  BY <1>2, PushBehind
<1>3. CASE PopCheckpoint
  BY <1>3, PopBehind
<1>4. CASE WaitForIp /\ Resume
  BY <1>4, ResumeBehind DEF WaitForIp
<1>5. CASE UNCHANGED vars
  BY <1>5, <1>0, BehindKept DEF vars, runner
<1>6. QED
  BY <1>1, <1>2, <1>3, <1>4, <1>5 DEF Next, Snapshot, Failure

\* The cursor stays or moves behind the step it is on, which is settled then;
\* no other step's last event changes, and no queued check is dropped.
SettlesStep ==
  /\ index \in Steps
  /\ outcome' = outcome \/ \E o \in Outcomes : Emit(o)
  /\ \A i \in Steps : Queued(i) => Queued(i)'
  /\ outcome'[index] = "failed" =>
       outcome[index] = "failed" \/ Scenario[index] \notin {"checkpoint", "nested", "recorded"}
  /\ index' = index \/ (index' = index + 1 /\ \A i \in Steps : i = index => IsSettled(i)')

LEMMA SettlesKeeps ==
  ASSUME TypeInv, SettledInv, SettlesStep
  PROVE  /\ \A i \in 1..index' - 1 : IsSettled(i)'
         /\ \A i \in Steps : outcome'[i] = "failed" =>
              Scenario[i] \notin {"checkpoint", "nested", "recorded"}
<1>1. index \in Nat /\ Steps = 1..Total /\ Total \in Nat /\ outcome \in [Steps -> Outcomes]
  BY TotalType DEF SettlesStep, Steps, TypeInv, CountsOK
<1>2. \A i \in Steps \ {index} : outcome'[i] = outcome[i]
  BY <1>1 DEF SettlesStep, Emit
<1>3. \A i \in 1..index - 1 : i \in Steps \ {index}
  BY <1>1 DEF SettlesStep
<1>4. \A i \in 1..index - 1 : IsSettled(i)'
  BY <1>2, <1>3 DEF SettledInv, IsSettled, SettlesStep
<1>5. \A i \in 1..index' - 1 : i \in 1..index - 1 \/ (i = index /\ index' = index + 1)
  BY <1>1 DEF SettlesStep
<1>6. \A i \in 1..index' - 1 : IsSettled(i)'
  BY <1>4, <1>5 DEF SettlesStep
<1>7. ASSUME NEW i \in Steps, outcome'[i] = "failed"
      PROVE  Scenario[i] \notin {"checkpoint", "nested", "recorded"}
  BY <1>2, <1>7 DEF SettledInv, SettlesStep
<1>8. QED
  BY <1>6, <1>7

LEMMA EmitSays ==
  ASSUME CountsOK, index \in Steps, NEW o, Emit(o)
  PROVE  outcome'[index] = o
BY DEF CountsOK, Emit

LEMMA QueuedKept == UNCHANGED pending => \A i \in Steps : Queued(i)' <=> Queued(i)
BY DEF Queued

LEMMA DispatchSettled ==
  ASSUME TypeInv, SettledInv, Dispatch
  PROVE  SettledInv'
<1>1. at = "run" /\ index \in Steps
  BY TotalType DEF Dispatch, Checkpoint, IfVisible, VerifyRecorded, WaitFor, PollShell, Waits,
                   Shell, Key, OneShot, Launch, Ui, AtStep, CursorOK, Steps, TypeInv
<1>2. CountsOK
  BY DEF TypeInv
<1>3. verdict' = verdict
  BY DEF Dispatch, Checkpoint, IfVisible, VerifyRecorded, WaitFor, PollShell, Waits, Shell, Key,
         OneShot, Launch, Ui, runner
<1>4. SettlesStep /\ (at' = "attempt" => Acts(index') /\ outcome'[index'] = "open")
      /\ (at' \in {"list", "delete", "snap"} => Scenario[index'] \in {"checkpoint", "nested"})
  <2> USE <1>1, <1>2 DEF AtStep, Kind, Goto, NextStep, StepFailed, Escape, Acts, Outcomes
  <2>1. CASE Checkpoint
    BY <2>1, QueuedKept DEF Checkpoint, SettlesStep, SettledInv, IsSettled, runner
  <2>2. CASE IfVisible
    BY <2>2, QueuedKept, EmitSays DEF IfVisible, SettlesStep, IsSettled, runner
  <2>3. CASE VerifyRecorded
    <3>1. pending' = Append(pending, index) /\ pending \in Seq(Steps)
      BY <2>3 DEF VerifyRecorded, TypeInv, RunnerOK
    <3>2. Len(pending) \in Nat /\ DOMAIN pending = 1..Len(pending)
      BY <3>1, LenProperties
    <3>3. /\ DOMAIN pending' = 1..Len(pending) + 1
          /\ pending'[Len(pending) + 1] = index
          /\ \A k \in 1..Len(pending) : pending'[k] = pending[k]
      BY <3>1, AppendProperties, LenProperties
    <3>4. \A i \in Steps : i = index \/ Queued(i) => Queued(i)'
      BY <3>2, <3>3 DEF Queued
    <3>5. QED
      BY <2>3, <3>4, EmitSays DEF VerifyRecorded, SettlesStep, IsSettled
  <2>4. CASE WaitFor \/ PollShell
    BY <2>4, QueuedKept, EmitSays DEF WaitFor, PollShell, Waits, SettlesStep, IsSettled, runner
  <2>5. CASE Shell \/ Key \/ Launch \/ Ui
    BY <2>5, QueuedKept, EmitSays DEF Shell, Key, OneShot, Launch, Ui, SettlesStep, IsSettled, runner
  <2>6. QED
    BY <2>1, <2>2, <2>3, <2>4, <2>5 DEF Dispatch
<1>5. verdict' # "pass"
  BY <1>1, <1>3 DEF SettledInv
<1>6. QED
  BY <1>4, <1>5, SettlesKeeps DEF SettledInv
LEMMA SnapshotSettled ==
  ASSUME TypeInv, SettledInv, Snapshot
  PROVE  SettledInv'
<1>1. /\ at \in {"list", "delete", "snap"} /\ index \in Steps
      /\ Scenario[index] \in {"checkpoint", "nested"}
  BY DEF Snapshot, ListSnapshots, DeleteSnapshot, CreateSnapshot, CursorOK, TypeInv, SettledInv
<1>2. CountsOK
  BY DEF TypeInv
<1>3. UNCHANGED <<pending, verdict>>
  BY DEF Snapshot, ListSnapshots, DeleteSnapshot, CreateSnapshot, runner
<1>4. outcome[index] # "failed"
  BY <1>1 DEF SettledInv
<1>5. SettlesStep
  <2>1. CASE ListSnapshots \/ DeleteSnapshot
    BY <1>1, <1>3, <2>1, QueuedKept DEF ListSnapshots, DeleteSnapshot, Goto, SettlesStep
  <2>2. CASE CreateSnapshot
    <3>1. outcome' = outcome \/ Emit("ok")
      BY <2>2 DEF CreateSnapshot
    <3>2. outcome'[index] # "failed"
      BY <1>1, <1>2, <1>4, <3>1, EmitSays
    <3>3. \A i \in Steps : i = index => IsSettled(i)'
      BY <1>1, <3>2 DEF IsSettled
    <3>4. QED
      BY <1>1, <1>3, <2>2, <3>1, <3>2, <3>3, QueuedKept DEF CreateSnapshot, NextStep, SettlesStep, Outcomes
  <2>3. QED
    BY <2>1, <2>2 DEF Snapshot
<1>6. /\ at' # "attempt"
      /\ at' \in {"list", "delete", "snap"} => index' = index
  BY DEF Snapshot, ListSnapshots, DeleteSnapshot, CreateSnapshot, Goto, NextStep
<1>7. verdict' # "pass"
  BY <1>1, <1>3 DEF SettledInv
<1>8. QED
  BY <1>1, <1>5, <1>6, <1>7, SettlesKeeps DEF SettledInv

LEMMA AttemptSettled ==
  ASSUME TypeInv, SettledInv, Attempt
  PROVE  SettledInv'
<1>1. at = "attempt" /\ index \in Steps /\ Acts(index) /\ outcome[index] = "open"
  BY DEF Attempt, NoAttempt, Settled, Verified, ClickUnverified, OutOfBounds, Unverified, AppCrashed,
         AttemptRaises, AgentRaises, InLoop, CursorOK, TypeInv, SettledInv
<1>2. CountsOK /\ Scenario[index] \notin {"checkpoint", "nested", "recorded"}
  BY <1>1 DEF TypeInv, Acts
<1>3. UNCHANGED <<pending, verdict>>
  BY DEF Attempt, NoAttempt, Settled, Verified, ClickUnverified, OutOfBounds, Unverified, AppCrashed,
         AttemptRaises, AgentRaises, runner
<1>4. /\ outcome' = outcome \/ Emit("ok") \/ Emit("failed")
      /\ \/ index' = index
         \/ index' = index + 1 /\ at' = "run" /\ (Emit("failed") => index \in Agents)
      /\ at' = "attempt" => index' = index /\ outcome' = outcome
      /\ at' \notin {"list", "delete", "snap"}
  <2> USE <1>1 DEF NextStep, Goto, StepFailed, Escape, Again
  <2>1. CASE NoAttempt \/ Settled
    <3>1. outcome' = outcome /\ ~Emit("failed")
      BY <1>2, <2>1, EmitSays DEF NoAttempt, Settled
    <3>2. QED
      BY <2>1, <3>1 DEF NoAttempt, Settled
  <2>2. CASE Verified
    <3>1. Emit("ok") /\ ~Emit("failed")
      BY <1>2, <2>2, EmitSays DEF Verified
    <3>2. QED
      BY <2>2, <3>1 DEF Verified
  <2>3. CASE ClickUnverified \/ OutOfBounds \/ AppCrashed \/ AgentRaises
    BY <2>3 DEF ClickUnverified, OutOfBounds, AppCrashed, AgentRaises
  <2>4. CASE Unverified \/ AttemptRaises
    BY <2>4 DEF Unverified, AttemptRaises, GiveUp
  <2>5. QED
    BY <2>1, <2>2, <2>3, <2>4 DEF Attempt
<1>5. SettlesStep
  <2>1. ASSUME index' = index + 1, NEW i \in Steps, i = index PROVE IsSettled(i)'
    <3>1. i \notin Agents => outcome'[i] # "failed"
      BY <1>1, <1>2, <1>4, <2>1, EmitSays, TotalType DEF Steps
    <3>2. QED
      BY <1>2, <2>1, <3>1 DEF IsSettled
  <2>2. \A i \in Steps : Queued(i) => Queued(i)'
    BY <1>3, QueuedKept
  <2>3. QED
    BY <1>1, <1>2, <1>4, <2>1, <2>2 DEF SettlesStep, Outcomes
<1>6. verdict' # "pass"
  BY <1>1, <1>3 DEF SettledInv
<1>7. QED
  BY <1>1, <1>4, <1>5, <1>6, SettlesKeeps DEF SettledInv

LEMMA Shorter == \A m, n \in Nat : m <= n => 1..m - 1 \subseteq 1..n - 1
OBVIOUS

\* what neither emits nor queues, and does not let the cursor advance
LEMMA OtherSettled ==
  ASSUME TypeInv, SettledInv, UNCHANGED <<outcome, pending>>, index' \in Nat, index' <= index,
         at' \notin {"attempt", "list", "delete", "snap"},
         verdict' = "pass" => at' \in {"cleanup", "ended", "raised", "hung"} /\ index' = Total + 1
  PROVE  SettledInv'
<1>1. index \in Nat
  BY TotalType DEF TypeInv, CursorOK
<1>2. \A i \in 1..index' - 1 : i \in 1..index - 1
  BY <1>1, Shorter
<1>3. \A i \in 1..index' - 1 : IsSettled(i)'
  BY <1>2 DEF SettledInv, IsSettled, Queued
<1>4. QED
  BY <1>3 DEF SettledInv

LEMMA NextSettled == TypeInv /\ TypeInv' /\ BehindInv /\ SettledInv /\ [Next]_vars => SettledInv'
<1> SUFFICES ASSUME TypeInv, TypeInv', BehindInv, SettledInv, [Next]_vars PROVE SettledInv'
  OBVIOUS
<1>0. index \in Nat /\ index <= index
  BY TotalType DEF TypeInv, CursorOK
<1>1. CASE Passes
  <2>1. index = Total + 1
    BY <1>1, TotalType DEF Passes, TypeInv, CursorOK
  <2>2. QED
    BY <1>0, <1>1, <2>1, OtherSettled DEF Passes, Return, Goto
<1>2. CASE PopCheckpoint \/ Fails \/ Rollback \/ (WaitForIp /\ ~Resume)
  <2>1. /\ UNCHANGED <<outcome, pending, index>>
        /\ at \in {"failing", "rollback", "wait_ip"} /\ at' \in {"rollback", "cleanup", "wait_ip", "raised"}
        /\ verdict' \in {verdict, "fail"}
    BY <1>2 DEF PopCheckpoint, Fails, Rollback, WaitForIp, Return, Goto, Escape
  <2>2. verdict' # "pass"
    BY <2>1 DEF SettledInv
  <2>3. QED
    BY <1>0, <2>1, <2>2, OtherSettled
<1>3. CASE WaitForIp /\ Resume
  <2>1. index' \in Nat /\ index' <= index
    BY <1>3, ResumeBehind DEF WaitForIp
  <2>2. verdict \in {"none", "fail"} /\ verdict' \in {verdict, "fail"}
    BY <1>3 DEF WaitForIp, Return, SettledInv, TypeInv, RunnerOK
  <2>3. at' = "run" /\ UNCHANGED <<outcome, pending>>
    BY <1>3 DEF WaitForIp, Resume
  <2>4. QED
    BY <2>1, <2>2, <2>3, OtherSettled
<1>4. CASE WatchdogEscapes \/ Hang \/ Cleanup
  <2>1. UNCHANGED <<outcome, pending, index, verdict>> /\ at' \in {"raised", "ended", "hung"}
    BY <1>4 DEF WatchdogEscapes, Hang, Cleanup, Goto, Escape, runner
  <2>2. QED
    BY <1>0, <2>1, OtherSettled DEF SettledInv
<1>5. CASE UNCHANGED vars
  BY <1>5 DEF vars, runner, SettledInv, IsSettled, Queued
<1>6. QED
  BY <1>1, <1>2, <1>3, <1>4, <1>5, DispatchSettled, SnapshotSettled, AttemptSettled DEF Next, Failure

LEMMA SettledAlways == Spec => [](TypeInv /\ BehindInv /\ SettledInv)
<1>1. Init => TypeInv /\ BehindInv /\ SettledInv
  BY InitType, InitSettled
<1>2. TypeInv /\ BehindInv /\ SettledInv /\ [Next]_vars => (TypeInv /\ BehindInv /\ SettledInv)'
  BY NextType, NextBehind, NextSettled
<1>3. QED
  BY <1>1, <1>2, PTL DEF Spec

\* A scenario passes only if the last event of no step is a failure, the steps
\* an agent may rescue excepted: whatever failed before a rewind was run again
\* after it.
THEOREM PassesAreClean == Spec => []PassIsClean
<1>1. TypeInv /\ SettledInv => PassIsClean
  BY TotalType DEF SettledInv, IsSettled, PassIsClean, Steps
<1>2. QED
  BY <1>1, SettledAlways, PTL

\* A scenario that passes has every verify_recorded step in the queue that is
\* resolved after the run; no rewind, failure or early end of a step drops one.
THEOREM DeferredChecksStayQueued == Spec => []AllRecordedQueued
<1>1. TypeInv /\ SettledInv => AllRecordedQueued
  BY TotalType DEF SettledInv, IsSettled, AllRecordedQueued, Queued, Steps
<1>2. QED
  BY <1>1, SettledAlways, PTL

-----------------------------------------------------------------------------
(* How a run ends.                                                            *)

\* An exception leaves run_test only after a call failed, the watchdog fired
\* or a rewind met the checkpoint of an if_visible step.
THEOREM EscapesHaveACause == Spec => []OnlyFailuresEscape
<1>1. Init => OnlyFailuresEscape
  BY DEF Init, OnlyFailuresEscape
<1>2. TypeInv /\ OnlyFailuresEscape /\ [Next]_vars => OnlyFailuresEscape'
  <2> SUFFICES ASSUME TypeInv, OnlyFailuresEscape, [Next]_vars, at' = "raised"
               PROVE  faults' > 0 \/ fired' \/ target'.text
    BY DEF OnlyFailuresEscape
  <2>0. faults \in Nat
    BY FunctionalAssumption DEF TypeInv, CountsOK
  <2>1. Exception => faults' > 0 \/ fired'
    BY <2>0 DEF Exception
  <2> USE DEF Goto, NextStep, Again, StepFailed, Escape, Return
  <2>2. CASE Dispatch
    BY <2>1, <2>2 DEF Dispatch, Checkpoint, IfVisible, VerifyRecorded, WaitFor, PollShell, Waits, Shell,
                      Key, OneShot, Launch, Ui
  <2>3. CASE Snapshot
    BY <2>3 DEF Snapshot, ListSnapshots, DeleteSnapshot, CreateSnapshot
  <2>4. CASE Attempt
    <3>1. CASE AgentRaises
      BY <2>1, <3>1 DEF AgentRaises
    <3>2. CASE Unverified \/ AttemptRaises
      BY <3>2 DEF Unverified, AttemptRaises, GiveUp, InLoop
    <3>3. CASE NoAttempt \/ Settled \/ Verified \/ ClickUnverified \/ OutOfBounds \/ AppCrashed
      BY <3>3 DEF NoAttempt, Settled, Verified, ClickUnverified, OutOfBounds, AppCrashed, InLoop
    <3>4. QED
      BY <2>4, <3>1, <3>2, <3>3 DEF Attempt
  <2>5. CASE Failure
    BY <2>1, <2>5 DEF Failure, PopCheckpoint, Fails, Rollback, WaitForIp, Resume
  <2>6. CASE Passes \/ WatchdogEscapes \/ Hang \/ Cleanup
    BY <2>6 DEF Passes, WatchdogEscapes, Hang, Cleanup
  <2>7. CASE UNCHANGED vars
    BY <2>7 DEF vars, runner, OnlyFailuresEscape
  <2>8. QED
    BY <2>2, <2>3, <2>4, <2>5, <2>6, <2>7 DEF Next
<1>3. QED
  BY <1>1, <1>2, InitType, NextType, PTL DEF Spec

\* With retain = "delete" and nothing failing, a run that returned has deleted
\* every snapshot it made, those among them that a rewind took off the stack.
THEOREM NothingIsLeft == Spec => []NoLeftovers
<1>1. Init => NoLeftovers
  BY DEF Init, NoLeftovers
<1>2. TypeInv /\ NoLeftovers /\ [Next]_vars => NoLeftovers'
  <2> SUFFICES ASSUME TypeInv, NoLeftovers, [Next]_vars, (at = "ended" /\ opts.delete /\ faults = 0 /\ ~fired)'
               PROVE  \A k \in DOMAIN created' : ~snaps'[created'[k]].there
    BY DEF NoLeftovers
  <2>1. CASE Cleanup
    <3>1. opts.delete /\ created' = created /\ faults \in Nat
      BY <2>1, FunctionalAssumption DEF Cleanup, runner, TypeInv, CountsOK
    <3>2. ~Exception
      BY <3>1 DEF Exception
    <3>3. snaps' = [n \in Names |-> [snaps[n] EXCEPT !.there =
                      @ /\ (n \in {} \/ \A k \in DOMAIN created : created[k] # n)]]
      BY <2>1, <3>1, <3>2 DEF Cleanup
    <3>4. \A k \in DOMAIN created : created[k] \in Names
      BY ElementOfSeq, LenProperties DEF TypeInv, RunnerOK
    <3>5. \A n \in Names : snaps[n] \in [there : BOOLEAN, of : SUBSET (0..Total)]
      BY DEF TypeInv, ProxmoxOK
    <3>6. QED
      BY <3>1, <3>3, <3>4, <3>5
  <2>2. CASE UNCHANGED vars
    BY <2>2 DEF vars, runner, proxmox, NoLeftovers
  <2>3. CASE Next /\ ~Cleanup
    BY <2>3
       DEF Next, Goto, NextStep, Again, StepFailed, Escape, Return, Passes, WatchdogEscapes, Hang,
           Dispatch, Checkpoint, IfVisible, VerifyRecorded, WaitFor, PollShell, Waits, Shell,
           Key, OneShot, Launch, Ui, Snapshot, ListSnapshots, DeleteSnapshot, CreateSnapshot,
           Attempt, NoAttempt, Settled, Verified, ClickUnverified, OutOfBounds, Unverified,
           AppCrashed, AttemptRaises, AgentRaises, GiveUp, InLoop,
           Failure, PopCheckpoint, Fails, Rollback, WaitForIp, Resume
  <2>4. QED
    BY <2>1, <2>2, <2>3
<1>3. QED
  BY <1>1, <1>2, InitType, NextType, PTL DEF Spec

-----------------------------------------------------------------------------
(* Why a run ends: its steps go one way.                                      *)

\* The argument behind Ends, as far as it needs no fairness.  The positions a rewind
\* may still lead to are those on the stack and those ahead of the cursor;
\* during a rewind the cursor is where the run will go on.
Cursor  == IF at \in {"rollback", "wait_ip"} THEN Position(target) + 1 ELSE index
Chances == {Position(checkpoints[k]) : k \in DOMAIN checkpoints} \cup Cursor..Total

\* the first position in which the two sets differ is one of T
Fewer(S, T) == \E i \in T \ S : \A j \in S \ T : i < j

Rank == [rollback |-> 1, wait_ip |-> 2, run |-> 3, list |-> 4, delete |-> 5, snap |-> 6, attempt |-> 7,
         failing |-> 8, cleanup |-> 9, ended |-> 10, raised |-> 10, hung |-> 10]

GetsOn == \/ Fewer(Chances', Chances)
          \/ /\ Chances' = Chances
             /\ \/ Cursor' > Cursor
                \/ /\ Cursor' = Cursor
                   /\ Rank[at'] > Rank[at] \/ (at' = at /\ attempt' > attempt)

\* No run goes in a circle: a rewind that brings back the steps behind a
\* checkpoint has given up that checkpoint for good, and every other step
\* gets on in the scenario, in its step or in its retries.
NoCircles == [][GetsOn]_vars

\* Fewer is a strict order, so what it orders, the subsets of 0..Total, a run
\* can go down only so many times.
LEMMA FewerIsOrder ==
  ASSUME NEW S \in SUBSET Nat, NEW T \in SUBSET Nat, NEW U \in SUBSET Nat
  PROVE  ~Fewer(S, S) /\ (Fewer(S, T) /\ Fewer(T, U) => Fewer(S, U))
<1>1. ~Fewer(S, S)
  BY DEF Fewer
<1>2. ASSUME Fewer(S, T), Fewer(T, U) PROVE Fewer(S, U)
  <2>1. PICK i \in T \ S : \A j \in S \ T : i < j
    BY <1>2 DEF Fewer
  <2>2. PICK k \in U \ T : \A j \in T \ U : k < j
    BY <1>2 DEF Fewer
  <2>3. i \in Nat /\ k \in Nat /\ i # k
    BY <2>1, <2>2
  <2>4. CASE i < k
    <3>1. i \in U \ S
      BY <2>1, <2>2, <2>3, <2>4
    <3>2. \A j \in S \ U : i < j
      BY <2>1, <2>2, <2>3, <2>4
    <3>3. QED
      BY <3>1, <3>2 DEF Fewer
  <2>5. CASE k < i
    <3>1. k \in U \ S
      BY <2>1, <2>2, <2>3, <2>5
    <3>2. \A j \in S \ U : k < j
      BY <2>1, <2>2, <2>3, <2>5
    <3>3. QED
      BY <3>1, <3>2 DEF Fewer
  <2>6. QED
    BY <2>3, <2>4, <2>5
<1>3. QED
  BY <1>1, <1>2

LEMMA SubsetIsFewer ==
  ASSUME NEW S, NEW T, S \subseteq T, S # T
  PROVE  Fewer(S, T)
BY DEF Fewer

Rewinding == at \in {"rollback", "wait_ip"}
Stacked   == {Position(checkpoints[k]) : k \in DOMAIN checkpoints}

LEMMA StackedBehind ==
  ASSUME TypeInv, BehindInv
  PROVE  /\ index \in Nat /\ Total \in Nat
         /\ \A i \in Stacked : i \in Int /\ i < index
         /\ Rewinding => /\ Position(target) \in Int /\ Position(target) < index /\ Position(target) <= Total
                         /\ \A i \in Stacked : i < Position(target)
<1>1. /\ \A k \in DOMAIN checkpoints : checkpoints[k] \in Entries
      /\ target \in Entries /\ StartIndex \in Nat /\ index \in Nat /\ Total \in Nat
      /\ target.step \in StepNumbers
  BY FunctionalAssumption, TotalType, ElementOfSeq, LenProperties DEF TypeInv, RunnerOK, CursorOK, OnStack
<1>2. \A i \in Stacked : i \in Int /\ i < index
  BY <1>1 DEF Stacked, BehindInv, Position, Entries
<1>3. Rewinding => \A i \in Stacked : i < Position(target)
  BY <1>1 DEF Stacked, BehindInv, Position, Entries, Rewinding
<1>4. Rewinding => Position(target) \in Int /\ Position(target) < index /\ Position(target) <= Total
  BY <1>1 DEF BehindInv, Position, Entries, Rewinding, StepNumbers
<1>5. QED
  BY <1>1, <1>2, <1>3, <1>4

\* on to the next step, the one left behind is no checkpoint
LEMMA NextStepGetsOn ==
  ASSUME TypeInv, BehindInv, ~Rewinding, index \in Steps, NextStep, UNCHANGED <<checkpoints, target>>
  PROVE  GetsOn
<1>1. Cursor = index /\ Cursor' = index + 1
  BY DEF Rewinding, NextStep, Cursor
<1>2. Stacked' = Stacked /\ Chances = Stacked \cup index..Total /\ Chances' = Stacked \cup (index + 1)..Total
  BY <1>1 DEF Chances, Stacked, Position
<1>3. index \in Nat /\ Total \in Nat /\ index <= Total /\ index \notin Stacked
  BY StackedBehind DEF Steps
<1>4. index \in Chances /\ index \notin Chances' /\ Chances' \subseteq Chances
  BY <1>2, <1>3
<1>5. QED
  BY <1>4, SubsetIsFewer DEF GetsOn

\* on to the next step, the one left behind has become a checkpoint
LEMMA PushGetsOn ==
  ASSUME TypeInv, BehindInv, ~Rewinding, index \in Steps, NextStep, Pushed
  PROVE  GetsOn
<1>1. Cursor = index /\ Cursor' = index + 1 /\ index \in Nat /\ StartIndex \in Nat /\ Total \in Nat /\ index <= Total
  BY FunctionalAssumption, StackedBehind DEF Rewinding, NextStep, Cursor, Steps
<1> DEFINE e == [name |-> Name, step |-> Number, text |-> Kind = "nested"]
           n == Len(checkpoints)
<1>2. n \in Nat /\ DOMAIN checkpoints = 1..n
  BY LenProperties DEF TypeInv, RunnerOK
<1>3. e \in Entries
  BY <1>1, FunctionalAssumption DEF Entries, Name, Number, Steps
<1>4. /\ DOMAIN checkpoints' = 1..n + 1
      /\ checkpoints'[n + 1] = e
      /\ \A k \in 1..n : checkpoints'[k] = checkpoints[k]
  BY <1>3, AppendProperties, LenProperties DEF Pushed, TypeInv, RunnerOK
<1>5. Position(e) = index
  BY <1>1 DEF Position, Number
<1>6. \A k \in 1..n + 1 : k \in 1..n \/ k = n + 1
  BY <1>2
<1>7. n + 1 \in 1..n + 1 /\ \A k \in 1..n : k \in 1..n + 1
  BY <1>2
<1>8. Stacked' = Stacked \cup {index}
  BY <1>2, <1>4, <1>5, <1>6, <1>7 DEF Stacked, Position
<1>9. Chances' = Chances
  BY <1>1, <1>8 DEF Chances, Stacked
<1>10. QED
  BY <1>1, <1>9 DEF GetsOn

\* within a step or behind the last one
LEMMA GotoGetsOn ==
  ASSUME TypeInv, BehindInv, UNCHANGED <<checkpoints, target>>, at \in Places, at' \in Places, UNCHANGED index,
         Rewinding' => Rewinding,
         Rank[at'] > Rank[at] \/ (at' = at /\ attempt' > attempt)
  PROVE  GetsOn
<1>1. Stacked' = Stacked
  BY DEF Stacked, Position
<1>2. CASE Rewinding' <=> Rewinding
  <2>1. Cursor' = Cursor
    BY <1>2 DEF Cursor, Rewinding, Position
  <2>2. QED
    BY <1>1, <2>1 DEF GetsOn, Chances, Stacked
<1>3. CASE Rewinding /\ ~Rewinding'
  <2>1. Cursor = Position(target) + 1 /\ Cursor' = index
    BY <1>3 DEF Cursor, Rewinding
  <2>2. Cursor \in Int /\ Cursor' \in Int /\ Cursor' >= Cursor
    BY <1>3, <2>1, StackedBehind
  <2>3. Chances' \subseteq Chances
    BY <1>1, <2>2, StackedBehind DEF Chances, Stacked
  <2>4. at' # at
    BY <1>3 DEF Rewinding
  <2>5. QED
    BY <2>2, <2>3, <2>4, SubsetIsFewer DEF GetsOn
<1>4. QED
  BY <1>2, <1>3

\* the checkpoint taken off the stack outweighs the steps it brings back
LEMMA PopGetsOn ==
  ASSUME TypeInv, BehindInv, PopCheckpoint
  PROVE  GetsOn
<1> DEFINE n == Len(checkpoints)
           p == Position(checkpoints[n])
<1>1. checkpoints # <<>> /\ index' = index /\ at = "failing" /\ at' = "rollback"
  BY DEF PopCheckpoint, CanRewind, Goto
<1>2. /\ n \in Nat \ {0} /\ DOMAIN checkpoints = 1..n
      /\ target' = checkpoints[n]
      /\ DOMAIN checkpoints' = 1..n - 1
      /\ \A k \in 1..n - 1 : checkpoints'[k] = checkpoints[k]
  BY <1>1, PopType, LenProperties DEF PopCheckpoint, TypeInv, RunnerOK
<1>3. n \in 1..n /\ \A k \in 1..n : k \in 1..n - 1 \/ k = n
  BY <1>2
<1>4. \A k \in 1..n - 1 : k \in 1..n /\ k < n
  BY <1>2
<1>5. p \in Stacked /\ p \in Int /\ p < index
  BY <1>2, <1>3, StackedBehind DEF Stacked
<1>6. \A i \in Stacked' : i \in Stacked /\ i < p
  <2>1. ASSUME NEW k \in 1..n - 1 PROVE Position(checkpoints[k]) \in Stacked /\ Position(checkpoints[k]) < p
    <3>1. checkpoints[k].step < checkpoints[n].step
      BY <1>2, <1>3, <1>4 DEF BehindInv
    <3>2. checkpoints[k] \in Entries /\ checkpoints[n] \in Entries /\ StartIndex \in Nat
      BY <1>2, <1>3, <1>4, FunctionalAssumption, ElementOfSeq DEF TypeInv, RunnerOK
    <3>3. Position(checkpoints[k]) < p
      BY <3>1, <3>2 DEF Position, Entries
    <3>4. Position(checkpoints[k]) \in Stacked
      BY <1>2, <1>4 DEF Stacked
    <3>5. QED
      BY <3>3, <3>4
  <2>2. QED
    BY <1>2, <2>1 DEF Stacked, Position
<1>7. \A i \in Stacked : i \in Stacked' \/ i = p
  BY <1>2, <1>3 DEF Stacked, Position
<1>8. Chances = Stacked \cup index..Total /\ Chances' = Stacked' \cup (p + 1)..Total
  BY <1>1, <1>2 DEF Chances, Cursor, Stacked, Position
<1>9. p \in Chances \ Chances'
  BY <1>5, <1>6, <1>8
<1>10. \A j \in Chances' \ Chances : p < j
  BY <1>5, <1>6, <1>8
<1>11. QED
  BY <1>9, <1>10 DEF GetsOn, Fewer

\* the run goes on where the rewind was headed for
LEMMA ResumeGetsOn ==
  ASSUME TypeInv, BehindInv, at = "wait_ip", Resume, UNCHANGED <<checkpoints, target>>
  PROVE  GetsOn
<1>1. Cursor' = Position(target) + 1 /\ Cursor = Position(target) + 1
  BY DEF Cursor, Resume, Position
<1>2. Chances' = Chances
  BY <1>1 DEF Chances, Position
<1>3. Rank[at'] > Rank[at]
  BY DEF Rank, Resume
<1>4. QED
  BY <1>1, <1>2, <1>3 DEF GetsOn

\* No run goes in a circle, whatever fails and however often it is sent back:
\* every step of run_test gives up a checkpoint, or gets on without one.
THEOREM RunsGetOn == Spec => NoCircles
<1>1. TypeInv /\ TypeInv' /\ BehindInv /\ [Next]_vars => [GetsOn]_vars
  <2> SUFFICES ASSUME TypeInv, TypeInv', BehindInv, Next PROVE GetsOn
    BY DEF GetsOn
  <2>0. at \in Places /\ at' \in Places
    BY DEF TypeInv, CursorOK
  <2> USE DEF Rewinding
  <2>1. CASE Dispatch \/ Snapshot \/ Attempt
    <3>1. index \in Steps /\ ~Rewinding
      BY <2>1, TotalType
         DEF TypeInv, CursorOK, Steps, Dispatch, Checkpoint, IfVisible, VerifyRecorded, WaitFor, PollShell, Waits,
             Shell, Key, OneShot, Launch, Ui, AtStep, Attempt, NoAttempt, Settled, Verified, ClickUnverified,
             OutOfBounds, Unverified, AppCrashed, AttemptRaises, AgentRaises, InLoop, Snapshot, ListSnapshots,
             DeleteSnapshot, CreateSnapshot
    <3>2. \/ UNCHANGED <<checkpoints, target>> /\ (NextStep \/ Again)
          \/ NextStep /\ Pushed
          \/ /\ UNCHANGED <<checkpoints, target, index>>
             /\ ~Rewinding'
             /\ Rank[at'] > Rank[at]
      <4> USE DEF Goto, StepFailed, Escape, Rank, runner
      <4>1. CASE Dispatch
        BY <4>1 DEF Dispatch, Checkpoint, IfVisible, VerifyRecorded, WaitFor, PollShell, Waits, Shell, Key,
                    OneShot, Launch, Ui, AtStep
      <4>2. CASE Snapshot
        BY <4>2 DEF Snapshot, ListSnapshots, DeleteSnapshot, CreateSnapshot
      <4>3. CASE Attempt
        BY <4>3 DEF Attempt, NoAttempt, Settled, Verified, ClickUnverified, OutOfBounds, Unverified,
                    AppCrashed, AttemptRaises, AgentRaises, GiveUp, InLoop
      <4>4. QED
        BY <2>1, <4>1, <4>2, <4>3
    <3>3. CASE UNCHANGED <<checkpoints, target>> /\ Again
      <4>1. attempt' > attempt /\ at' = at /\ index' = index
        BY <3>3, FunctionalAssumption DEF Again, TypeInv, CursorOK
      <4>2. QED
        BY <2>0, <3>3, <4>1, GotoGetsOn
    <3>4. QED
      BY <2>0, <3>1, <3>2, <3>3, NextStepGetsOn, PushGetsOn, GotoGetsOn
  <2>2. CASE PopCheckpoint
    BY <2>2, PopGetsOn
  <2>3. CASE WaitForIp /\ Resume
    BY <2>3, ResumeGetsOn DEF WaitForIp
  <2>4. CASE Passes \/ Fails \/ Rollback \/ (WaitForIp /\ ~Resume) \/ Cleanup
    <3>1. /\ UNCHANGED <<checkpoints, target, index>> /\ (Rewinding' => Rewinding)
          /\ Rank[at'] > Rank[at]
      BY <2>4 DEF Passes, Fails, Rollback, WaitForIp, Cleanup, Return, Escape, Goto, Rank, runner
    <3>2. QED
      BY <2>0, <3>1, GotoGetsOn
  <2>5. CASE WatchdogEscapes \/ Hang
    <3>1. /\ UNCHANGED <<checkpoints, target, index>> /\ ~Rewinding' /\ at' \in {"raised", "hung"}
          /\ at \in Places \ {"ended", "raised", "hung"}
      BY <2>0, <2>5 DEF WatchdogEscapes, Hang, Waiting, Escape, Goto, runner, Places
    <3>2. Rank[at'] > Rank[at]
      BY <3>1 DEF Rank, Places
    <3>3. QED
      BY <2>0, <3>1, <3>2, GotoGetsOn
  <2>6. QED
    BY <2>1, <2>2, <2>3, <2>4, <2>5 DEF Next, Failure
<1>2. QED
  BY <1>1, SettledAlways, PTL DEF Spec, NoCircles
==============================================================================
