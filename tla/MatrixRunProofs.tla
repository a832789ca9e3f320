--------------------------- MODULE MatrixRunProofs ---------------------------
(* What holds of the matrix runner for every matrix, every bound on faults   *)
(* and every mixture of command lines.                                       *)
EXTENDS MatrixRun, TLAPS

LEMMA MarkType ==
  ASSUME NEW s \in State, NEW cs, NEW st \in TestStatus
  PROVE  Mark(s, cs, st) \in State
BY DEF Mark, State

LEMMA EnterPhaseType ==
  ASSUME NEW s \in State, NEW p \in Phase
  PROVE  EnterPhase(s, p) \in State
BY DEF EnterPhase, State

LEMMA FreshType == Fresh \in State
BY DEF Fresh, State, Phase, TestStatus

\* The invariant of TypeCorrect: the types, and where the loops stand.
TypeInv == TypeOK /\ LoopInv

LEMMA InitType == Init => TypeInv
<1> SUFFICES ASSUME Init PROVE TypeInv
  OBVIOUS
<1>1. mem \in State /\ disk \in [known : BOOLEAN, whole : BOOLEAN, state : State]
  BY FreshType DEF Init
<1>2. ran \in [Cells -> SUBSET Completed]
  BY DEF Init
<1>3. vm \in 1..NumVMs + 1 /\ pkg \in Nat \ {0} /\ faults \in 0..MaxFaults
  BY MatrixAssumption DEF Init
<1>4. QED
  BY <1>1, <1>2, <1>3 DEF Init, TypeInv, TypeOK, LoopInv

LEMMA SaveType ==
  ASSUME NEW s \in State, TypeOK, Save(s)
  PROVE  /\ mem' \in State
         /\ disk' \in [known : BOOLEAN, whole : BOOLEAN, state : State]
         /\ writing' \in BOOLEAN
BY DEF Save, TypeOK

LEMMA NextVMType ==
  ASSUME TypeOK, vm \in VMs
  PROVE  NextVM \in 1..NumVMs + 1
BY MatrixAssumption DEF NextVM, VMs, TypeOK

LEMMA NextType == TypeInv /\ [Next]_vars => TypeInv'
<1> SUFFICES ASSUME TypeInv, [Next]_vars PROVE TypeInv'
  OBVIOUS
<1> USE MatrixAssumption DEF ghosts
<1>0. \A v \in VMs : NumPkgs[v] \in Nat
  BY DEF VMs
<1>1. CASE Start
  BY <1>1, FreshType DEF Start, Standing, Options, Limits, Limit, TypeInv, TypeOK, LoopInv
<1>2. CASE EndSave
  BY <1>2 DEF EndSave, process, ghosts, TypeInv, TypeOK, LoopInv
<1>3. CASE Exit
  BY <1>3, SaveType DEF Exit, Standing, Goto, Calm, TypeInv, TypeOK, LoopInv
<1>4. CASE Close \/ Interrupt \/ Crash \/ Hang
  <2>1. faults' \in 0..MaxFaults
    BY <1>4 DEF Close, Interrupt, Crash, Hang, Calm, Fault, TypeInv, TypeOK
  <2>2. UNCHANGED <<mem, disk, ran, ever, opts, gpu, vm, pkg>> /\ writing' \in BOOLEAN
    BY <1>4 DEF Close, Interrupt, Crash, Hang, Goto, NoSave, TypeInv, TypeOK
  <2>3. at' \in {"idle", "exit", "hung"}
    BY <1>4 DEF Close, Interrupt, Crash, Hang, Goto
  <2>4. QED
    BY <2>1, <2>2, <2>3 DEF TypeInv, TypeOK, LoopInv
<1>5. CASE Build
  <2>1. EnterPhase(mem, "deploy") \in State
    BY EnterPhaseType DEF TypeInv, TypeOK, Phase
  <2>2. QED
    BY <1>5, <2>1, SaveType
       DEF Build, Goto, NoSave, Calm, Fault, TypeInv, TypeOK, LoopInv
<1>6. CASE run_all_no_gpu_tests \/ run_all_gpu_tests
  <2>1. EnterPhase(mem, "test_no_gpu") \in State /\ EnterPhase(mem, "test_gpu") \in State
    BY EnterPhaseType DEF TypeInv, TypeOK, Phase
  <2>2. FirstVM \in 1..NumVMs + 1
    <3>1. opts.only \in 0..NumVMs
      BY DEF Options, TypeInv, TypeOK
    <3>2. QED
      BY <3>1 DEF FirstVM
  <2>3. QED
    BY <1>6, <2>1, <2>2, SaveType
       DEF run_all_no_gpu_tests, run_all_gpu_tests, EnterPass, Calm, TypeInv, TypeOK, LoopInv
<1>7. CASE Detach
  BY <1>7, SaveType DEF Detach, Goto, NoSave, Calm, Fault, TypeInv, TypeOK, LoopInv
<1>8. CASE Report \/ Validate \/ QuickBegin \/ QuickEnd
  <2>1. \A p \in Phase : EnterPhase(mem, p) \in State
    BY EnterPhaseType DEF TypeInv, TypeOK
  <2>2. QED
    BY <1>8, <2>1, SaveType
       DEF Report, Validate, QuickBegin, QuickEnd, Goto, NoSave, Calm, Phase,
           TypeInv, TypeOK, LoopInv
<1>9. CASE Setup
  BY <1>9 DEF Setup, AtVM, BeginPkgs, Goto, NoSave, Calm, VMs, TypeInv, TypeOK, LoopInv
<1>10. CASE SetupFails
  <2>1. Mark(mem, CellsOf(vm, gpu), "failed") \in State
    BY MarkType DEF TypeInv, TypeOK, TestStatus, Completed
  <2>2. vm \in VMs
    BY <1>10 DEF SetupFails, AtVM, VMs, TypeInv, TypeOK
  <2>3. QED
    BY <1>10, <2>1, <2>2, SaveType, NextVMType
       DEF SetupFails, LeaveVM, Fault, TypeInv, TypeOK, LoopInv
<1>11. CASE Transfer
  BY <1>0, <1>11, NextVMType
     DEF Transfer, Standing, BeginPkgs, LeaveVM, NoSave, Calm, Fault, TypeInv, TypeOK, LoopInv
<1>12. CASE EndPkgs
  BY <1>0, <1>12, NextVMType DEF EndPkgs, Standing, LeaveVM, NoSave, Calm, TypeInv, TypeOK, LoopInv
<1>13. CASE SkipCompleted
  BY <1>0, <1>13 DEF SkipCompleted, Standing, NextPkg, NoSave, Calm, TypeInv, TypeOK, LoopInv
<1>14. CASE StartTest
  <2>1. Mark(mem, {Cell}, "running") \in State
    BY MarkType DEF TypeInv, TypeOK, TestStatus
  <2>2. QED
    BY <1>14, <2>1, SaveType
       DEF StartTest, Standing, Goto, Calm, Pkgs, TypeInv, TypeOK, LoopInv
<1>15. CASE FinishTest
  <2>1. PICK st \in Completed : /\ Save(Mark(mem, {Cell}, st))
                                /\ ran' = [ran EXCEPT ![Cell] = @ \cup {st}]
    BY <1>15 DEF FinishTest
  <2>2. Mark(mem, {Cell}, st) \in State
    BY MarkType DEF TypeInv, TypeOK, TestStatus
  <2>3. ran' \in [Cells -> SUBSET Completed]
    BY <2>1 DEF TypeInv, TypeOK
  <2>4. pkg' \in Nat \ {0} /\ pkg' <= NumPkgs[vm] + 1
    BY <1>0, <1>15 DEF FinishTest, Standing, NextPkg, Pkgs, TypeInv, TypeOK, LoopInv
  <2>5. QED
    BY <1>15, <2>1, <2>2, <2>3, <2>4, SaveType
       DEF FinishTest, Standing, NextPkg, Calm, TypeInv, TypeOK, LoopInv
<1>16. CASE UNCHANGED vars
  BY <1>16 DEF vars, process, ghosts, TypeInv, TypeOK, LoopInv
<1>17. QED
  BY <1>1, <1>2, <1>3, <1>4, <1>5, <1>6, <1>7, <1>8, <1>9, <1>10, <1>11, <1>12, <1>13,
     <1>14, <1>15, <1>16 DEF Next, Step

\* Every variable keeps its type: phases and statuses are those of the
\* enums, and the loop variables stop one past the last VM and package.
THEOREM TypeCorrect == Spec => []TypeOK
<1>1. TypeInv => TypeOK
  BY DEF TypeInv
<1>2. QED
  BY InitType, NextType, <1>1, PTL DEF Spec

-----------------------------------------------------------------------------
LEMMA MarkCompletes ==
  ASSUME NEW s \in State, NEW cs, NEW st, NEW c \in Cells
  PROVE  /\ c \in cs => (is_test_completed(Mark(s, cs, st), c) <=> st \in Completed)
         /\ c \notin cs => (is_test_completed(Mark(s, cs, st), c) <=> is_test_completed(s, c))
BY DEF Mark, is_test_completed, State

LEMMA MarkPhase ==
  ASSUME NEW s \in State, NEW cs, NEW st
  PROVE  Mark(s, cs, st).phase = s.phase
BY DEF Mark, State

LEMMA EnterPhaseKeeps ==
  ASSUME NEW s \in State, NEW p
  PROVE  /\ EnterPhase(s, p).phase = p
         /\ NoGpuDone(EnterPhase(s, p)) <=> NoGpuDone(s)
BY DEF EnterPhase, NoGpuDone, is_test_completed, State

LEMMA CellIn == \A v \in VMs : \A p \in Pkgs(v) : \A g \in BOOLEAN : <<v, p, g>> \in Cells
<1> SUFFICES ASSUME NEW v \in VMs, NEW p \in Pkgs(v), NEW g \in BOOLEAN
             PROVE  <<v, p, g>> \in Cells
  OBVIOUS
<1>1. <<v, p, g>> \in {v} \X Pkgs(v) \X BOOLEAN
  OBVIOUS
<1>2. QED
  BY <1>1 DEF Cells

\* marking cells of the GPU pass leaves the other pass as it was
LEMMA MarkGpuKeeps ==
  ASSUME NEW s \in State, NEW cs, NEW st,
         \A v \in VMs : \A p \in Pkgs(v) : <<v, p, FALSE>> \notin cs
  PROVE  NoGpuDone(Mark(s, cs, st)) <=> NoGpuDone(s)
<1>1. \A v \in VMs : \A p \in Pkgs(v) : <<v, p, FALSE>> \in Cells
  BY CellIn
<1>2. QED
  BY <1>1, MarkCompletes DEF NoGpuDone

LEMMA SaveLate ==
  ASSUME NEW s, Save(s), LateIsDone(s), LateIsDone(disk.state), TypeOK
  PROVE  LateIsDone(mem') /\ LateIsDone(disk'.state)
BY DEF Save, TypeOK

\* A process that starts has no limit as long as none had.
LEMMA StartIsFull ==
  ASSUME TypeOK, Start, FullRuns'
  PROVE  FullRuns /\ opts'.only = 0 /\ ~opts'.quick
BY DEF Start, FullRuns, Limits

LEMMA FullStart ==
  ASSUME TypeOK, FullInv, Start, opts'.only = 0, ~opts'.quick
  PROVE  FullInv'
<1>1. LateIsDone(mem')
  BY DEF Start, FullInv, LateIsDone, Fresh
<1>2. QED
  BY <1>1 DEF Start, FullInv, CursorInv

LEMMA FullStep ==
  ASSUME TypeOK, TypeOK', LoopInv, FullInv, Step \/ Interrupt \/ Crash \/ Hang
  PROVE  FullInv'
<1> USE MatrixAssumption
<1>0. mem \in State /\ disk.state \in State /\ (gpu = TRUE \/ gpu = FALSE)
  BY DEF TypeOK
<1>1. CASE EndSave
  <2>1. disk'.state = mem
    BY <1>1 DEF EndSave
  <2>2. UNCHANGED <<mem, at, opts, gpu, vm, pkg>>
    BY <1>1 DEF EndSave, process
  <2>3. QED
    BY <2>1, <2>2 DEF FullInv, CursorInv
<1>2. CASE Exit
  BY <1>2, SaveLate DEF Exit, Standing, Goto, FullInv, CursorInv, Save
<1>3. CASE Close \/ Interrupt \/ Crash \/ Hang
  BY <1>3 DEF Close, Interrupt, Crash, Hang, Goto, NoSave, FullInv, CursorInv
<1>4. CASE Build
  <2>1. LateIsDone(EnterPhase(mem, "deploy"))
    BY <1>0, EnterPhaseKeeps DEF LateIsDone
  <2>2. LateIsDone(mem') /\ LateIsDone(disk'.state)
    BY <1>4, <2>1, SaveLate DEF Build, NoSave, FullInv
  <2>3. CursorInv'
    BY <1>4 DEF Build, Goto, FullInv, CursorInv, Standing
  <2>4. QED
    BY <2>2, <2>3 DEF FullInv
<1>5. CASE run_all_no_gpu_tests
  <2> DEFINE s == EnterPhase(mem, "test_no_gpu")
  <2>1. LateIsDone(s) /\ s.phase = "test_no_gpu"
    BY <1>0, EnterPhaseKeeps DEF LateIsDone
  <2>2. Save(s) /\ at # "idle" /\ at' = "vm" /\ gpu' = FALSE /\ vm' = 1 /\ opts' = opts
    BY <1>5 DEF run_all_no_gpu_tests, EnterPass, FirstVM, FullInv, CursorInv, Standing
  <2>3. LateIsDone(mem') /\ LateIsDone(disk'.state)
    BY <2>1, <2>2, SaveLate DEF FullInv
  <2>4. mem' = s
    BY <2>2 DEF Save
  <2>5. CursorInv'
    <3>2. \A v \in VMs : ~(v < vm')
      BY <2>2 DEF VMs
    <3>3. opts'.only = 0 /\ ~opts'.quick
      BY <2>2 DEF FullInv, CursorInv
    <3>4. QED
      BY <2>1, <2>2, <2>4, <3>2, <3>3 DEF CursorInv
  <2>6. QED
    BY <2>3, <2>5 DEF FullInv
<1>6. CASE run_all_gpu_tests
  <2> DEFINE s == EnterPhase(mem, "test_gpu")
  <2>1. NoGpuDone(mem)
    <3>1. CASE Standing("vm") /\ ~gpu /\ vm > NumVMs
      <4>1. \A v \in VMs : v < vm
        BY <3>1 DEF VMs, TypeOK
      <4>2. QED
        BY <3>1, <4>1 DEF Standing, FullInv, CursorInv, NoGpuDone
    <3>2. CASE Standing("start") /\ mem.phase = "test_gpu"
      BY <3>2 DEF FullInv, LateIsDone
    <3>3. QED
      BY <1>6, <3>1, <3>2 DEF run_all_gpu_tests
  <2>2. NoGpuDone(s) /\ LateIsDone(s)
    BY <1>0, <2>1, EnterPhaseKeeps DEF LateIsDone
  <2>3. Save(s) /\ at # "idle" /\ at' = "vm" /\ gpu' = TRUE /\ opts' = opts
    BY <1>6 DEF run_all_gpu_tests, EnterPass, Standing
  <2>4. LateIsDone(mem') /\ LateIsDone(disk'.state)
    BY <2>2, <2>3, SaveLate DEF FullInv
  <2>5. CursorInv'
    BY <2>2, <2>3 DEF CursorInv, FullInv, Save
  <2>6. QED
    BY <2>4, <2>5 DEF FullInv
<1>7. CASE Detach
  <2>1. NoGpuDone(mem)
    BY <1>7 DEF Detach, Standing, FullInv, CursorInv
  <2>2. mem' = mem /\ LateIsDone(disk'.state)
    BY <1>7, SaveLate DEF Detach, Save, NoSave, FullInv
  <2>3. QED
    BY <1>7, <2>1, <2>2 DEF Detach, Goto, FullInv, CursorInv, Standing
<1>8. CASE Report
  <2> DEFINE s == EnterPhase(mem, "report")
  <2>1. NoGpuDone(mem)
    BY <1>8 DEF Report, Standing, FullInv, CursorInv, LateIsDone
  <2>2. NoGpuDone(s) /\ LateIsDone(s)
    BY <1>0, <2>1, EnterPhaseKeeps DEF LateIsDone
  <2>3. Save(s) /\ at # "idle" /\ at' = "validate" /\ opts' = opts
    BY <1>8 DEF Report, Goto, Standing
  <2>4. LateIsDone(mem') /\ LateIsDone(disk'.state) /\ NoGpuDone(mem')
    BY <2>2, <2>3, SaveLate DEF FullInv, Save
  <2>5. QED
    BY <2>3, <2>4 DEF FullInv, CursorInv
<1>9. CASE Validate
  <2> DEFINE s == EnterPhase(mem, "done")
  <2>1. NoGpuDone(mem)
    BY <1>9 DEF Validate, Standing, FullInv, CursorInv
  <2>2. LateIsDone(s)
    BY <1>0, <2>1, EnterPhaseKeeps DEF LateIsDone
  <2>3. LateIsDone(mem') /\ LateIsDone(disk'.state)
    BY <1>9, <2>2, SaveLate DEF Validate, NoSave, FullInv
  <2>4. QED
    BY <1>9, <2>3 DEF Validate, Goto, FullInv, CursorInv, Standing
<1>10. CASE QuickBegin \/ QuickEnd
  BY <1>10 DEF QuickBegin, QuickEnd, Standing, FullInv, CursorInv
<1>11. CASE Setup
  <2>1. UNCHANGED <<mem, disk, opts, gpu, vm>> /\ at = "vm" /\ vm \in VMs
    BY <1>11 DEF Setup, AtVM, Standing, Goto, BeginPkgs, NoSave, VMs, TypeOK
  <2>2. at' = IF gpu THEN "transfer" ELSE "pkg"
    BY <1>11 DEF Setup, Goto, BeginPkgs
  <2>3. ~gpu => pkg' = 1
    BY <1>11 DEF Setup, BeginPkgs
  <2>4. CursorInv'
    <3>1. CASE gpu = TRUE
      BY <2>1, <2>2, <3>1 DEF FullInv, CursorInv
    <3>2. CASE gpu = FALSE
      <4>1. \A p \in Pkgs(vm) : ~(p < pkg')
        BY <2>3, <3>2 DEF Pkgs
      <4>2. QED
        BY <2>1, <2>2, <3>2, <4>1 DEF FullInv, CursorInv
    <3>3. QED
      BY <1>0, <3>1, <3>2
  <2>5. QED
    BY <2>1, <2>4 DEF FullInv
<1>12. CASE SetupFails
  <2> DEFINE s == Mark(mem, CellsOf(vm, gpu), "failed")
  <2>1. /\ Save(s) /\ mem' = s /\ UNCHANGED <<opts, gpu>>
        /\ at = "vm" /\ at' = "vm" /\ vm \in VMs
    BY <1>12 DEF SetupFails, AtVM, Standing, LeaveVM, Save, VMs, TypeOK
  <2>2. vm' = vm + 1
    BY <1>12 DEF SetupFails, LeaveVM, NextVM, FullInv, CursorInv, AtVM, Standing
  <2>3. \A c \in Cells : is_test_completed(mem, c) => is_test_completed(s, c)
    BY <1>0, MarkCompletes DEF Completed
  <2>4. \A v \in VMs : \A p \in Pkgs(v) : <<v, p, FALSE>> \in Cells
    BY CellIn
  <2>5. NoGpuDone(mem) => NoGpuDone(s)
    BY <2>3, <2>4 DEF NoGpuDone
  <2>6. LateIsDone(mem') /\ LateIsDone(disk'.state)
    BY <1>0, <2>1, <2>5, MarkPhase, SaveLate DEF FullInv, LateIsDone
  <2>7. CASE gpu
    BY <2>1, <2>5, <2>6, <2>7 DEF FullInv, CursorInv
  <2>8. CASE ~gpu
    <3>1. \A p \in Pkgs(vm) : is_test_completed(s, <<vm, p, FALSE>>)
      <4>1. \A p \in Pkgs(vm) : <<vm, p, FALSE>> \in CellsOf(vm, gpu) /\ <<vm, p, FALSE>> \in Cells
        BY <1>0, <2>1, <2>8, CellIn DEF CellsOf
      <4>2. QED
        BY <1>0, <4>1, MarkCompletes DEF Completed
    <3>2. \A v \in VMs : v < vm' => v < vm \/ v = vm
      BY <2>2 DEF VMs, TypeOK
    <3>3. \A v \in VMs : \A p \in Pkgs(v) : v < vm' => is_test_completed(s, <<v, p, FALSE>>)
      BY <2>1, <2>3, <2>4, <2>8, <3>1, <3>2 DEF FullInv, CursorInv
    <3>4. s.phase = mem.phase
      BY <1>0, MarkPhase
    <3>5. QED
      BY <2>1, <2>6, <2>8, <3>3, <3>4 DEF FullInv, CursorInv
  <2>9. QED
    BY <2>7, <2>8
<1>13. CASE Transfer
  <2>1. UNCHANGED <<mem, disk, opts, gpu>> /\ at = "transfer" /\ at' \in {"pkg", "vm"}
    BY <1>13 DEF Transfer, Standing, BeginPkgs, LeaveVM, NoSave
  <2>2. gpu /\ NoGpuDone(mem)
    BY <2>1 DEF FullInv, CursorInv
  <2>3. CursorInv'
    BY <2>1, <2>2 DEF FullInv, CursorInv
  <2>4. QED
    BY <2>1, <2>3 DEF FullInv
<1>14. CASE EndPkgs
  <2>1. UNCHANGED <<mem, disk, opts, gpu>> /\ at = "pkg" /\ pkg > NumPkgs[vm] /\ vm \in VMs /\ at' = "vm"
    BY <1>14 DEF EndPkgs, Standing, LeaveVM, NoSave, LoopInv
  <2>2. vm' = vm + 1
    BY <1>14 DEF EndPkgs, LeaveVM, NextVM, FullInv, CursorInv, Standing
  <2>3. \A v \in VMs : \A p \in Pkgs(v) : v < vm' => v < vm \/ (v = vm /\ p < pkg)
    BY <2>1, <2>2 DEF VMs, Pkgs, TypeOK
  <2>4. CursorInv'
    BY <2>1, <2>3 DEF FullInv, CursorInv, NoGpuDone
  <2>5. QED
    BY <2>1, <2>4 DEF FullInv
<1>15. CASE SkipCompleted
  <2>1. /\ UNCHANGED <<mem, disk, opts, gpu, vm>> /\ at = "pkg" /\ at' = "pkg"
        /\ pkg' = pkg + 1 /\ is_test_completed(mem, Cell)
    BY <1>15 DEF SkipCompleted, Standing, NextPkg, NoSave
  <2>2. \A p \in Pkgs(vm) : p < pkg' => p < pkg \/ p = pkg
    BY <2>1 DEF Pkgs, TypeOK
  <2>3. CursorInv'
    BY <2>1, <2>2 DEF FullInv, CursorInv, NoGpuDone, Cell, TypeOK
  <2>4. QED
    BY <2>1, <2>3 DEF FullInv
<1>16. CASE StartTest
  <2> DEFINE s == Mark(mem, {Cell}, "running")
  <2>1. /\ Save(s) /\ mem' = s /\ UNCHANGED <<opts, gpu, vm, pkg>> /\ at = "pkg" /\ at' = "test"
        /\ pkg \in Pkgs(vm) /\ vm \in VMs
    BY <1>16 DEF StartTest, Standing, Goto, Save, Pkgs, TypeOK, FullInv, LoopInv
  <2>2. s.phase = mem.phase
    BY <1>0, MarkPhase
  <2>3. CASE gpu
    <3>1. NoGpuDone(s)
      <4>1. \A v \in VMs : \A p \in Pkgs(v) : <<v, p, FALSE>> \notin {Cell}
        BY <2>3 DEF Cell
      <4>2. NoGpuDone(mem)
        BY <2>1, <2>3 DEF FullInv, CursorInv
      <4>3. QED
        BY <1>0, <4>1, <4>2, MarkGpuKeeps
    <3>2. LateIsDone(mem') /\ LateIsDone(disk'.state)
      BY <2>1, <3>1, SaveLate DEF FullInv, LateIsDone
    <3>3. QED
      BY <2>1, <2>3, <3>1, <3>2 DEF FullInv, CursorInv
  <2>4. CASE ~gpu
    <3>1. s.phase = "test_no_gpu"
      BY <2>1, <2>2, <2>4 DEF FullInv, CursorInv
    <3>2. LateIsDone(mem') /\ LateIsDone(disk'.state)
      BY <2>1, <3>1, SaveLate DEF FullInv, LateIsDone
    <3>3. ASSUME NEW v \in VMs, NEW p \in Pkgs(v), v < vm \/ (v = vm /\ p < pkg)
          PROVE  is_test_completed(s, <<v, p, FALSE>>)
      <4>1. <<v, p, FALSE>> \in Cells /\ <<v, p, FALSE>> \notin {Cell}
        <5>1. v # vm \/ p # pkg
          BY <3>3 DEF VMs, Pkgs
        <5>2. QED
          BY <5>1, CellIn DEF Cell
      <4>2. is_test_completed(mem, <<v, p, FALSE>>)
        BY <2>1, <2>4, <3>3 DEF FullInv, CursorInv
      <4>3. QED
        BY <1>0, <4>1, <4>2, MarkCompletes
    <3>4. QED
      BY <2>1, <2>4, <3>1, <3>2, <3>3 DEF FullInv, CursorInv
  <2>5. QED
    BY <2>3, <2>4
<1>17. CASE FinishTest
  <2>1. PICK st \in Completed : Save(Mark(mem, {Cell}, st))
    BY <1>17 DEF FinishTest
  <2> DEFINE s == Mark(mem, {Cell}, st)
  <2>2. /\ mem' = s /\ UNCHANGED <<opts, gpu, vm>> /\ at = "test" /\ at' = "pkg" /\ pkg' = pkg + 1
        /\ pkg \in Pkgs(vm) /\ vm \in VMs
    BY <1>17, <2>1 DEF FinishTest, Standing, NextPkg, Save, FullInv, LoopInv
  <2>3. s.phase = mem.phase
    BY <1>0, MarkPhase
  <2>4. \A c \in Cells : is_test_completed(mem, c) \/ c = Cell => is_test_completed(s, c)
    BY <1>0, MarkCompletes
  <2>5. \A v \in VMs : \A p \in Pkgs(v) : <<v, p, FALSE>> \in Cells
    BY CellIn
  <2>6. NoGpuDone(mem) => NoGpuDone(s)
    BY <2>4, <2>5 DEF NoGpuDone
  <2>7. LateIsDone(mem') /\ LateIsDone(disk'.state)
    BY <2>1, <2>2, <2>3, <2>6, SaveLate DEF FullInv, LateIsDone
  <2>8. CASE gpu
    BY <2>2, <2>6, <2>7, <2>8 DEF FullInv, CursorInv
  <2>9. CASE ~gpu
    <3>1. ASSUME NEW v \in VMs, NEW p \in Pkgs(v), v < vm \/ (v = vm /\ p < pkg')
          PROVE  is_test_completed(s, <<v, p, FALSE>>)
      <4>1. v < vm \/ (v = vm /\ p < pkg) \/ (v = vm /\ p = pkg)
        BY <2>2, <3>1 DEF Pkgs
      <4>2. CASE v < vm \/ (v = vm /\ p < pkg)
        BY <2>2, <2>4, <2>5, <2>9, <4>2 DEF FullInv, CursorInv
      <4>3. CASE v = vm /\ p = pkg
        <5>1. <<v, p, FALSE>> = Cell
          BY <1>0, <2>9, <4>3 DEF Cell
        <5>2. QED
          BY <2>4, <2>5, <5>1
      <4>4. QED
        BY <4>1, <4>2, <4>3
    <3>2. QED
      BY <2>2, <2>3, <2>7, <2>9, <3>1 DEF FullInv, CursorInv
  <2>10. QED
    BY <2>8, <2>9
<1>18. QED
  BY <1>1, <1>2, <1>3, <1>4, <1>5, <1>6, <1>7, <1>8, <1>9, <1>10, <1>11, <1>12, <1>13,
     <1>14, <1>15, <1>16, <1>17 DEF Step

LEMMA NoGpuInit == Init => NoGpuInv
<1> SUFFICES ASSUME Init PROVE NoGpuInv
  OBVIOUS
<1>1. at = "idle" /\ mem.phase = "build" /\ disk.state.phase = "build"
  BY DEF Init, Fresh
<1>2. QED
  BY <1>1 DEF NoGpuInv, FullInv, LoopInv, LateIsDone, CursorInv

LEMMA NoGpuNext == TypeOK /\ TypeOK' /\ NoGpuInv /\ [Next]_vars => NoGpuInv'
<1> SUFFICES ASSUME TypeOK, TypeOK', NoGpuInv, [Next]_vars PROVE NoGpuInv'
  OBVIOUS
<1>1. LoopInv /\ LoopInv'
  BY NextType DEF TypeInv, NoGpuInv
<1>2. ASSUME FullRuns' PROVE FullInv'
  <2>1. CASE Start
    BY <1>2, <2>1, StartIsFull, FullStart DEF NoGpuInv
  <2>2. CASE Step \/ Interrupt \/ Crash \/ Hang
    <3>1. ever' = ever
      BY <2>2 DEF Step, EndSave, Exit, Close, Build, run_all_no_gpu_tests, run_all_gpu_tests,
                  EnterPass, Detach, Report, Validate, QuickBegin, QuickEnd, Setup, SetupFails,
                  Transfer, EndPkgs, SkipCompleted, StartTest, FinishTest, Interrupt, Crash, Hang, ghosts
    <3>2. QED
      BY <1>1, <1>2, <2>2, <3>1, FullStep DEF NoGpuInv, FullRuns
  <2>3. CASE UNCHANGED vars
    BY <1>2, <2>3 DEF vars, process, ghosts, NoGpuInv, FullInv, FullRuns, CursorInv, LateIsDone,
                      NoGpuDone, is_test_completed
  <2>4. QED
    BY <2>1, <2>2, <2>3 DEF Next
<1>3. QED
  BY <1>1, <1>2 DEF NoGpuInv

\* As long as only full `mosdat run` processes have used the state file, a
\* persisted phase of TEST_GPU or later never hides a cell the pass without the
\* GPU missed, in whatever way and how often the processes before were cut short.
THEOREM NoGpuFirst == Spec => []NoGpuPassFirst
<1>1. Init => NoGpuInv
  BY NoGpuInit
<1>2. TypeOK /\ TypeOK' /\ NoGpuInv /\ [Next]_vars => NoGpuInv'
  BY NoGpuNext
<1>3. NoGpuInv => NoGpuPassFirst
  BY DEF NoGpuInv, FullInv, LateIsDone, NoGpuDone, NoGpuPassFirst
<1>4. QED
  BY <1>1, <1>2, <1>3, TypeCorrect, PTL DEF Spec
-----------------------------------------------------------------------------
(* What a step does to the results, in the memory and in the file.           *)

OnlyPhase(p) == mem' = EnterPhase(mem, p)
OnlyCell(st) == /\ mem' = Mark(mem, {Cell}, st)
                /\ vm \in VMs /\ pkg \in Pkgs(vm) /\ UNCHANGED ever

Stays    == mem' = mem
Settles  == \E p \in Phase : OnlyPhase(p)
GivesUp  == mem' = Mark(mem, CellsOf(vm, gpu), "failed") /\ AtVM
Begins   == OnlyCell("running") /\ at = "pkg" /\ at' = "test" /\ ~is_test_completed(mem, Cell)
Records  == \E st \in Completed : OnlyCell(st) /\ ran' = [ran EXCEPT ![Cell] = @ \cup {st}]

\* Every step other than the start of a process is one of five kinds: it
\* leaves the memory, moves the phase, gives up a VM, begins a test or records
\* its outcome.  The memory reaches the file only at the end of a save.
LEMMA Kinds ==
  ASSUME TypeInv, Step \/ Interrupt \/ Crash \/ Hang
  PROVE  /\ Stays \/ Settles \/ GivesUp \/ Begins \/ Records
         /\ disk'.state = disk.state \/ (writing /\ disk'.state = mem /\ mem' = mem)
         /\ UNCHANGED ran \/ Records
         /\ UNCHANGED ever
         /\ at' = "test" => at = "test" \/ Begins
<1>0. disk \in [known : BOOLEAN, whole : BOOLEAN, state : State]
  BY DEF TypeInv, TypeOK
<1>1. \A s : Save(s) => disk'.state = disk.state /\ mem' = s
  BY <1>0 DEF Save
<1>2. CASE EndSave
  BY <1>2 DEF EndSave, process, ghosts, Stays
<1>3. CASE Exit
  BY <1>1, <1>3 DEF Exit, Goto, ghosts, Stays
<1>4. CASE Close \/ Interrupt \/ Crash \/ Hang
  BY <1>4 DEF Close, Interrupt, Crash, Hang, Goto, NoSave, ghosts, Stays
<1>5. CASE Build
  BY <1>1, <1>5 DEF Build, Goto, NoSave, ghosts, Stays, Settles, OnlyPhase, Phase
<1>6. CASE run_all_no_gpu_tests \/ run_all_gpu_tests
  BY <1>1, <1>6 DEF run_all_no_gpu_tests, run_all_gpu_tests, EnterPass, ghosts, Settles, OnlyPhase, Phase
<1>7. CASE Detach
  BY <1>1, <1>7 DEF Detach, Goto, NoSave, ghosts, Stays
<1>8. CASE Report \/ Validate \/ QuickBegin \/ QuickEnd
  BY <1>1, <1>8 DEF Report, Validate, QuickBegin, QuickEnd, Goto, NoSave, ghosts, Stays, Settles, OnlyPhase, Phase
<1>9. CASE Setup \/ Transfer \/ EndPkgs \/ SkipCompleted
  BY <1>9 DEF Setup, Transfer, EndPkgs, SkipCompleted, Goto, BeginPkgs, LeaveVM, NextPkg, NoSave, ghosts, Stays
<1>10. CASE SetupFails
  BY <1>1, <1>10 DEF SetupFails, LeaveVM, ghosts, GivesUp
<1>11. CASE StartTest
  <2>1. vm \in VMs /\ pkg \in Pkgs(vm) /\ at = "pkg"
    BY <1>11 DEF StartTest, Standing, Pkgs, TypeInv, TypeOK, LoopInv
  <2>2. QED
    BY <1>1, <1>11, <2>1 DEF StartTest, Goto, ghosts, Begins, OnlyCell
<1>12. CASE FinishTest
  BY <1>1, <1>12 DEF FinishTest, Standing, NextPkg, Records, OnlyCell, TypeInv, LoopInv
<1>13. QED
  BY <1>2, <1>3, <1>4, <1>5, <1>6, <1>7, <1>8, <1>9, <1>10, <1>11, <1>12 DEF Step

LEMMA EnterPhaseResults ==
  ASSUME NEW s \in State, NEW p
  PROVE  EnterPhase(s, p).results = s.results /\ EnterPhase(s, p).phase = p
BY DEF EnterPhase, State

LEMMA MarkResults ==
  ASSUME NEW s \in State, NEW cs, NEW st, NEW c \in Cells
  PROVE  Mark(s, cs, st).results[c] = IF c \in cs THEN st ELSE s.results[c]
BY DEF Mark, State

LEMMA OnlyCellIsCell == vm \in VMs /\ pkg \in Pkgs(vm) /\ gpu \in BOOLEAN => Cell \in Cells
BY CellIn DEF Cell

LEMMA UnchangedState == UNCHANGED vars => UNCHANGED <<mem, disk, writing, at, opts, gpu, vm, pkg, ran, ever>>
BY DEF vars, process, ghosts

-----------------------------------------------------------------------------
\* No PASSED is invented: a restart, a failed set-up, an overwritten result or a
\* file of an earlier process never makes a cell PASSED whose script no process
\* ran to the end with exit code 0.
THEOREM PassedAreTested == Spec => []PassedWasTested
<1>1. Init => PassedWasTested
  BY DEF Init, Fresh, PassedWasTested
<1>2. TypeInv /\ PassedWasTested /\ [Next]_vars => PassedWasTested'
  <2> SUFFICES ASSUME TypeInv, PassedWasTested, [Next]_vars PROVE PassedWasTested'
    OBVIOUS
  <2>0. mem \in State /\ gpu \in BOOLEAN /\ ran \in [Cells -> SUBSET Completed]
    BY DEF TypeInv, TypeOK
  <2>1. CASE Start
    BY <2>1 DEF Start, Fresh, PassedWasTested
  <2>2. CASE Step \/ Interrupt \/ Crash \/ Hang
    <3>1. disk'.state \in {disk.state, mem}
      BY <2>2, Kinds
    <3>2. CASE Records
      <4>1. PICK st \in Completed : OnlyCell(st) /\ ran' = [ran EXCEPT ![Cell] = @ \cup {st}]
        BY <3>2 DEF Records
      <4>2. Cell \in Cells
        BY <2>0, <4>1, OnlyCellIsCell DEF OnlyCell
      <4>3. \A c \in Cells : mem'.results[c] = "passed" => "passed" \in ran'[c]
        BY <2>0, <4>1, <4>2, MarkResults DEF OnlyCell, PassedWasTested
      <4>4. \A c \in Cells : ran[c] \subseteq ran'[c]
        BY <2>0, <4>1, <4>2
      <4>5. QED
        BY <3>1, <4>3, <4>4 DEF PassedWasTested
    <3>3. CASE ~Records
      <4>1. \A c \in Cells : mem'.results[c] = "passed" => mem.results[c] = "passed"
        BY <2>0, <2>2, <3>3, Kinds, MarkResults, EnterPhaseResults
           DEF Stays, Settles, GivesUp, Begins, OnlyPhase, OnlyCell
      <4>2. ran' = ran
        BY <2>2, <3>3, Kinds
      <4>3. QED
        BY <3>1, <4>1, <4>2 DEF PassedWasTested
    <3>4. QED
      BY <3>2, <3>3
  <2>3. CASE UNCHANGED vars
    BY <2>3, UnchangedState DEF PassedWasTested
  <2>4. QED
    BY <2>1, <2>2, <2>3 DEF Next
<1>3. QED
  BY <1>1, <1>2, InitType, NextType, PTL DEF Spec
-----------------------------------------------------------------------------
LEMMA KeepsTransitive ==
  ASSUME NEW r, NEW s, NEW t, KeepsCompleted(r, s), KeepsCompleted(s, t)
  PROVE  KeepsCompleted(r, t)
BY DEF KeepsCompleted

\* no step of a live process takes a completed result out of its memory
LEMMA MemoryKeeps ==
  ASSUME TypeInv, Step \/ Interrupt \/ Crash \/ Hang
  PROVE  KeepsCompleted(mem, mem')
<1>0. mem \in State /\ gpu \in BOOLEAN
  BY DEF TypeInv, TypeOK
<1>1. CASE Stays \/ Settles
  BY <1>0, <1>1, EnterPhaseResults DEF Stays, Settles, OnlyPhase, KeepsCompleted, is_test_completed
<1>2. CASE GivesUp \/ Records
  BY <1>0, <1>2, MarkCompletes DEF GivesUp, Records, OnlyCell, KeepsCompleted, Completed
<1>3. CASE Begins
  BY <1>0, <1>3, MarkCompletes DEF Begins, OnlyCell, KeepsCompleted
<1>4. QED
  BY <1>1, <1>2, <1>3, Kinds

LEMMA KeepInit == Init => KeepInv
BY DEF Init, KeepInv

LEMMA KeepNext == TypeInv /\ KeepInv /\ [Next]_vars => KeepInv' /\ KeepsCompleted(disk.state, disk'.state)
<1> SUFFICES ASSUME TypeInv, KeepInv, [Next]_vars
             PROVE  KeepInv' /\ KeepsCompleted(disk.state, disk'.state)
  OBVIOUS
<1>1. CASE Start
  BY <1>1 DEF Start, Standing, KeepInv, KeepsCompleted
<1>2. CASE Step \/ Interrupt \/ Crash \/ Hang
  <2>1. KeepsCompleted(mem, mem')
    BY <1>2, MemoryKeeps
  <2>2. /\ writing' => at' # "idle"
        /\ at' # "idle" => at # "idle"
        /\ ~disk'.known => ~disk.known /\ disk'.state = disk.state
    BY <1>2 DEF Step, EndSave, Exit, Close, Build, run_all_no_gpu_tests, run_all_gpu_tests,
                EnterPass, Detach, Report, Validate, QuickBegin, QuickEnd, Setup, SetupFails, AtVM,
                Transfer, EndPkgs, SkipCompleted, StartTest, FinishTest, Interrupt, Crash, Hang, process,
                Standing, Goto, BeginPkgs, LeaveVM, NextPkg, Save, NoSave, KeepInv, TypeInv, TypeOK
  <2>3. disk'.state = disk.state \/ (disk'.state = mem /\ mem' = mem /\ at # "idle")
    BY <1>2, Kinds DEF KeepInv
  <2>4. KeepsCompleted(disk.state, disk'.state)
    BY <2>3 DEF KeepInv, KeepsCompleted
  <2>5. at' # "idle" => KeepsCompleted(disk'.state, mem')
    BY <2>1, <2>2, <2>3 DEF KeepInv, KeepsCompleted
  <2>6. QED
    BY <2>2, <2>4, <2>5 DEF KeepInv
<1>3. CASE UNCHANGED vars
  BY <1>3, UnchangedState DEF KeepInv, KeepsCompleted, is_test_completed
<1>4. QED
  BY <1>1, <1>2, <1>3 DEF Next

\* No completed result is ever taken out of the file, by whatever processes
\* follow and however they end: a resumed run only adds to it.
THEOREM CompletedStays == Spec => CompletedStaysCompleted
<1> DEFINE Kept == \A c \in Cells : disk.state.results[c] \in Completed
                                   => disk'.state.results[c] \in Completed
<1>1. TypeInv /\ KeepInv /\ [Next]_vars => KeepInv'
  BY KeepNext
<1>2. TypeInv /\ KeepInv /\ [Next]_vars => Kept
  BY KeepNext DEF KeepsCompleted, is_test_completed
<1>3. QED
  BY <1>1, <1>2, InitType, NextType, KeepInit, PTL DEF Spec, CompletedStaysCompleted

\* A test script starts only on a cell that the file does not have as completed:
\* what an earlier process finished saving is never run again.
THEOREM ResumesWithoutRepeating == Spec => NeverRetested
<1> DEFINE Untested == at # "test" /\ at' = "test" => disk.state.results[Cell] \notin Completed
<1>1. TypeInv /\ KeepInv /\ [Next]_vars => KeepInv'
  BY KeepNext
<1>2. TypeInv /\ KeepInv /\ [Next]_vars => Untested
  <2> SUFFICES ASSUME TypeInv, KeepInv, [Next]_vars, at # "test", at' = "test"
               PROVE  disk.state.results[Cell] \notin Completed
    OBVIOUS
  <2>1. Begins
    BY Kinds, UnchangedState DEF Next, Start
  <2>2. Cell \in Cells
    BY <2>1, OnlyCellIsCell DEF Begins, OnlyCell, TypeInv, TypeOK
  <2>3. QED
    BY <2>1, <2>2 DEF Begins, KeepInv, KeepsCompleted, is_test_completed
<1>3. QED
  BY <1>1, <1>2, InitType, NextType, KeepInit, PTL DEF Spec, NeverRetested

-----------------------------------------------------------------------------
LEMMA DoneInit == Init => DoneInv
BY DEF Init, DoneInv, DoneIsComplete, Fresh

\* Only Validate and QuickEnd enter DONE, and Validate has looked at every cell.
LEMMA EntersDone ==
  ASSUME TypeInv, Step \/ Interrupt \/ Crash \/ Hang, mem'.phase = "done", mem.phase # "done"
  PROVE  QuickEnd \/ (Validate /\ validate_completion = {})
<1>0. mem \in State
  BY DEF TypeInv, TypeOK
<1>1. \A p \in Phase : EnterPhase(mem, p).phase = p
  BY <1>0, EnterPhaseResults
<1>2. \A cs, st : Mark(mem, cs, st).phase = mem.phase
  BY <1>0, MarkPhase
<1>3. QED
  BY <1>1, <1>2
     DEF Step, EndSave, Exit, Close, Build, run_all_no_gpu_tests, run_all_gpu_tests,
         EnterPass, Detach, Report, Validate, QuickBegin, Setup, SetupFails,
         Transfer, EndPkgs, SkipCompleted, StartTest, FinishTest, Interrupt, Crash, Hang,
         Save, NoSave, Phase

LEMMA DoneNext == TypeInv /\ DoneInv /\ [Next]_vars => DoneInv'
<1> SUFFICES ASSUME TypeInv, DoneInv, [Next]_vars, ever' = {} PROVE DoneInv'
  BY DEF DoneInv
<1>0. mem \in State /\ opts \in Options
  BY DEF TypeInv, TypeOK
<1>1. CASE Start
  <2>1. opts'.only = 0 /\ ~opts'.quick /\ ~opts'.incomplete /\ ever = {}
    BY <1>1 DEF Start, Limits
  <2>2. mem' \in {disk.state, Fresh} /\ disk' = disk /\ at' = "start"
    BY <1>1, <2>1 DEF Start
  <2>3. QED
    BY <2>1, <2>2 DEF DoneInv, DoneIsComplete, Fresh
<1>2. CASE Step \/ Interrupt \/ Crash \/ Hang
  <2>1. ever = {}
    BY <1>2, Kinds
  <2>2. /\ at' # "idle" => at # "idle" /\ at' \notin {"quick", "quick_tests"}
        /\ opts' = opts
    BY <1>2, <2>1
       DEF Step, EndSave, Exit, Close, Build, run_all_no_gpu_tests, run_all_gpu_tests,
           EnterPass, Detach, Report, Validate, QuickBegin, QuickEnd, Setup, SetupFails, AtVM,
           Transfer, EndPkgs, SkipCompleted, StartTest, FinishTest, Interrupt, Crash, Hang, process,
           Standing, Goto, BeginPkgs, LeaveVM, NextPkg, DoneInv
  <2>3. KeepsCompleted(mem, mem')
    BY <1>2, MemoryKeeps
  <2>4. ASSUME mem'.phase = "done" PROVE \A c \in Cells : is_test_completed(mem, c)
    <3>1. CASE mem.phase = "done"
      BY <2>1, <3>1 DEF DoneInv, DoneIsComplete
    <3>2. CASE mem.phase # "done"
      <4>1. Validate /\ validate_completion = {}
        BY <1>2, <2>1, <2>4, <3>2, EntersDone DEF QuickEnd, Standing, DoneInv
      <4>2. ~opts.incomplete /\ Selected = VMs
        BY <2>1, <4>1 DEF Validate, Standing, Selected, DoneInv
      <4>3. \A c \in Cells : c[1] \in VMs
        BY DEF Cells
      <4>4. QED
        BY <4>1, <4>2, <4>3 DEF validate_completion
    <3>3. QED
      BY <3>1, <3>2
  <2>5. DoneIsComplete(mem')
    BY <2>3, <2>4 DEF DoneIsComplete, KeepsCompleted
  <2>6. disk'.state \in {disk.state, mem}
    BY <1>2, Kinds
  <2>7. QED
    BY <2>1, <2>2, <2>5, <2>6 DEF DoneInv
<1>3. CASE UNCHANGED vars
  BY <1>3, UnchangedState DEF DoneInv, DoneIsComplete, is_test_completed
<1>4. QED
  BY <1>1, <1>2, <1>3 DEF Next

\* As long as no process was limited to some VMs, to the smoke pass or to an
\* incomplete matrix, a file in phase DONE holds a completed result for every
\* cell of the matrix.
THEOREM DoneIsTheWholeMatrix == Spec => []DoneMeansComplete
<1>1. DoneInv => DoneMeansComplete
  BY DEF DoneInv, DoneIsComplete, DoneMeansComplete
<1>2. QED
  BY <1>1, InitType, NextType, DoneInit, DoneNext, PTL DEF Spec
-----------------------------------------------------------------------------
LEMMA OrderInit == Init => OrderInv
BY DEF Init, OrderInv, RunningInOrder, Fresh

LEMMA CellsAre ==
  ASSUME NEW c \in Cells, ~c[3]
  PROVE  \E v \in VMs : \E p \in Pkgs(v) : c = <<v, p, FALSE>>
<1>1. PICK v \in VMs : c \in {v} \X Pkgs(v) \X BOOLEAN
  BY DEF Cells
<1>2. PICK p \in Pkgs(v), g \in BOOLEAN : c = <<v, p, g>>
  BY <1>1
<1>3. c[3] = g
  BY <1>2
<1>4. g = FALSE
  BY <1>3
<1>5. QED
  BY <1>2, <1>4

\* a result that completes cells keeps the order
LEMMA CompletingKeepsOrder ==
  ASSUME NEW s \in State, NEW cs, NEW st \in Completed, RunningInOrder(s)
  PROVE  RunningInOrder(Mark(s, cs, st))
<1>1. \A c \in Cells : Mark(s, cs, st).results[c] = "running" => s.results[c] = "running"
  BY MarkResults DEF Completed
<1>2. \A c \in Cells : is_test_completed(s, c) => is_test_completed(Mark(s, cs, st), c)
  BY MarkCompletes
<1>3. QED
  BY <1>1, <1>2 DEF RunningInOrder

\* In the pass without the GPU the loops have completed every cell before the
\* one they begin, and no RUNNING cell is behind it.
LEMMA BeginningKeepsOrder ==
  ASSUME TypeInv, FullInv, RunningInOrder(mem), Begins
  PROVE  RunningInOrder(mem')
<1>0. mem \in State /\ gpu \in BOOLEAN
  BY DEF TypeInv, TypeOK
<1>1. mem' = Mark(mem, {Cell}, "running") /\ vm \in VMs /\ pkg \in Pkgs(vm) /\ at = "pkg"
      /\ ~is_test_completed(mem, Cell)
  BY DEF Begins, OnlyCell
<1> SUFFICES ASSUME NEW c \in Cells, NEW d \in Cells, ~c[3], ~d[3],
                    mem'.results[c] = "running", Precedes(d, c)
             PROVE  is_test_completed(mem', d)
  BY DEF RunningInOrder
<1>2. \E v \in VMs : \E p \in Pkgs(v) : d = <<v, p, FALSE>>
  BY CellsAre
<1>3. CASE c = Cell
  <2>1. gpu = FALSE /\ c[1] = vm /\ c[2] = pkg
    BY <1>0, <1>3 DEF Cell
  <2>2. is_test_completed(mem, d)
    <3>1. PICK v \in VMs : \E p \in Pkgs(v) : d = <<v, p, FALSE>>
      BY <1>2
    <3>2. PICK p \in Pkgs(v) : d = <<v, p, FALSE>>
      BY <3>1
    <3>3. v < vm \/ (v = vm /\ p < pkg)
      BY <2>1, <3>2 DEF Precedes
    <3>4. QED
      BY <1>1, <2>1, <3>2, <3>3 DEF FullInv, CursorInv
  <2>3. d # Cell
    BY <1>1, <2>2
  <2>4. QED
    BY <1>0, <1>1, <2>2, <2>3, MarkCompletes
<1>4. CASE c # Cell
  <2>1. mem.results[c] = "running"
    BY <1>0, <1>1, <1>4, MarkResults
  <2>2. is_test_completed(mem, d)
    BY <2>1 DEF RunningInOrder
  <2>3. d # Cell
    BY <1>1, <2>2
  <2>4. QED
    BY <1>0, <1>1, <2>2, <2>3, MarkCompletes
<1>5. QED
  BY <1>3, <1>4

LEMMA OrderNext == TypeInv /\ NoGpuInv /\ OrderInv /\ [Next]_vars => OrderInv'
<1> SUFFICES ASSUME TypeInv, NoGpuInv, OrderInv, [Next]_vars, FullRuns'
             PROVE  RunningInOrder(mem') /\ RunningInOrder(disk'.state)
  BY DEF OrderInv
<1>0. mem \in State
  BY DEF TypeInv, TypeOK
<1>1. CASE Start
  <2>1. RunningInOrder(Fresh)
    BY DEF RunningInOrder, Fresh
  <2>2. FullRuns /\ disk' = disk /\ mem' \in {disk.state, Fresh}
    BY <1>1, StartIsFull DEF Start, TypeInv
  <2>3. QED
    BY <2>1, <2>2 DEF OrderInv
<1>2. CASE Step \/ Interrupt \/ Crash \/ Hang
  <2>1. FullRuns /\ disk'.state \in {disk.state, mem}
    BY <1>2, Kinds DEF FullRuns
  <2>2. RunningInOrder(mem) /\ RunningInOrder(disk.state)
    BY <2>1 DEF OrderInv
  <2>3. RunningInOrder(mem')
    <3>1. CASE Stays \/ Settles
      BY <1>0, <2>2, <3>1, EnterPhaseResults DEF Stays, Settles, OnlyPhase, RunningInOrder, is_test_completed
    <3>2. CASE GivesUp \/ Records
      BY <1>0, <2>2, <3>2, CompletingKeepsOrder DEF GivesUp, Records, OnlyCell, Completed
    <3>3. CASE Begins
      BY <2>1, <2>2, <3>3, BeginningKeepsOrder DEF NoGpuInv
    <3>4. QED
      BY <1>2, <3>1, <3>2, <3>3, Kinds
  <2>4. QED
    BY <2>1, <2>2, <2>3
<1>3. CASE UNCHANGED vars
  BY <1>3, UnchangedState DEF OrderInv, FullRuns, RunningInOrder, is_test_completed
<1>4. QED
  BY <1>1, <1>2, <1>3 DEF Next

\* two cells of one pass are the same or one precedes the other
LEMMA CellsOrdered ==
  ASSUME NEW c \in Cells, NEW d \in Cells, ~c[3], ~d[3]
  PROVE  c = d \/ Precedes(c, d) \/ Precedes(d, c)
<1>1. PICK v \in VMs : \E p \in Pkgs(v) : c = <<v, p, FALSE>>
  BY CellsAre
<1>2. PICK w \in VMs : \E q \in Pkgs(w) : d = <<w, q, FALSE>>
  BY CellsAre
<1>3. QED
  BY <1>1, <1>2, MatrixAssumption DEF Precedes, VMs, Pkgs

\* As long as only full runs have used the state file, at most one cell of the
\* pass without the GPU is RUNNING, however many processes were cut short in it.
THEOREM OneIsRunning == Spec => []OneRunningWithoutGpu
<1>1. TypeInv => TypeOK
  BY DEF TypeInv
<1>2. OrderInv => OneRunningWithoutGpu
  <2> SUFFICES ASSUME OrderInv, FullRuns, NEW c \in Cells, NEW d \in Cells, ~c[3], ~d[3],
                      mem.results[c] = "running", mem.results[d] = "running"
               PROVE  c = d
    BY DEF OneRunningWithoutGpu
  <2>1. ~Precedes(c, d) /\ ~Precedes(d, c)
    BY DEF OrderInv, RunningInOrder, is_test_completed, Completed
  <2>2. QED
    BY <2>1, CellsOrdered
<1>3. QED
  BY <1>1, <1>2, InitType, NextType, NoGpuInit, NoGpuNext, OrderInit, OrderNext, PTL DEF Spec

-----------------------------------------------------------------------------
(* Why a process ends: its steps go one way.                                 *)

\* The argument behind Terminates, as far as it needs no fairness: where a process
\* stands, from the coarsest to the finest.
InPass == at \in {"vm", "transfer", "pkg", "test"}
Stage  == IF InPass THEN (IF gpu THEN 4 ELSE 3)
          ELSE [start |-> 1, quick |-> 1, built |-> 2, quick_tests |-> 2, passed |-> 5, validate |-> 6,
                hung |-> 7, exit |-> 8, closing |-> 9, idle |-> 10][at]
OnVM   == IF at = "vm" THEN 1 ELSE IF at = "transfer" THEN 2 ELSE 3
Test   == IF at = "test" THEN 2 ELSE 1

GetsOn ==
  \/ Stage' > Stage
  \/ /\ Stage' = Stage /\ InPass
     /\ \/ vm' > vm
        \/ /\ vm' = vm
           /\ \/ OnVM' > OnVM
              \/ OnVM' = OnVM /\ (pkg' > pkg \/ (pkg' = pkg /\ Test' > Test))
  \/ UNCHANGED process /\ writing /\ ~writing'

\* No process does anything again: whatever fails, and wherever the phase in
\* the file made it begin, each step leaves a stage, a VM, a package, a test or
\* a save for good.  (Terminates would not notice a failure that is retried for
\* ever, as MaxFaults ends that.)
NoCircles == [][Start \/ GetsOn]_vars

\* No process does anything again, for every matrix and without a bound on
\* failures: each of its steps leaves a stage, a VM, a package, a test or a
\* save behind for good, so there are no more steps than these.
THEOREM ProcessesGetOn == Spec => NoCircles
<1>1. TypeInv /\ [Next]_vars => [Start \/ GetsOn]_vars
  <2> SUFFICES ASSUME TypeInv, Next, ~Start PROVE GetsOn
    OBVIOUS
  <2> USE MatrixAssumption
  <2>0. /\ at \in {"idle", "start", "built", "vm", "transfer", "pkg", "test", "passed",
                   "validate", "exit", "closing", "quick", "quick_tests", "hung"}
        /\ gpu \in BOOLEAN /\ vm \in Nat /\ pkg \in Nat \ {0} /\ NumVMs \in Nat
    BY DEF TypeInv, TypeOK
  <2>1. vm <= NumVMs => NextVM > vm
    BY <2>0 DEF NextVM
  <2>2. CASE EndSave
    BY <2>2 DEF EndSave, GetsOn
  <2>3. CASE Exit \/ Close \/ Interrupt \/ Crash \/ Hang
    <3>1. at' \in {"exit", "closing", "idle", "hung"} /\ Stage' > Stage
      BY <2>0, <2>3 DEF Exit, Close, Interrupt, Crash, Hang, Standing, Goto, Stage, InPass
    <3>2. QED
      BY <3>1 DEF GetsOn
  <2>4. CASE Build \/ run_all_no_gpu_tests \/ run_all_gpu_tests \/ Detach \/ Report \/ Validate
             \/ QuickBegin \/ QuickEnd
    <3>1. Stage' > Stage
      BY <2>4, <2>0 DEF Build, run_all_no_gpu_tests, run_all_gpu_tests, EnterPass, Detach, Report, Validate,
         QuickBegin, QuickEnd, Standing, Goto, Stage, InPass
    <3>2. QED
      BY <3>1 DEF GetsOn
  <2>5. CASE Setup
    <3>1. at = "vm" /\ at' \in {"transfer", "pkg"} /\ UNCHANGED <<vm, gpu>>
      BY <2>5 DEF Setup, AtVM, Standing, BeginPkgs, Goto
    <3>2. QED
      BY <3>1 DEF GetsOn, Stage, InPass, OnVM
  <2>6. CASE (Transfer /\ BeginPkgs) \/ EndPkgs \/ SetupFails \/ (Transfer /\ LeaveVM)
    <3>1. CASE Transfer /\ BeginPkgs
      <4>1. at = "transfer" /\ at' = "pkg" /\ UNCHANGED <<vm, gpu>>
        BY <3>1 DEF Transfer, Standing, BeginPkgs
      <4>2. QED
        BY <4>1 DEF GetsOn, Stage, InPass, OnVM
    <3>2. CASE EndPkgs \/ SetupFails \/ (Transfer /\ LeaveVM)
      <4>1. InPass /\ vm <= NumVMs /\ at' = "vm" /\ vm' = NextVM /\ UNCHANGED gpu
        BY <2>0, <3>2 DEF EndPkgs, SetupFails, Transfer, AtVM, Standing, LeaveVM, InPass, TypeInv, LoopInv, VMs
      <4>2. QED
        BY <2>1, <4>1 DEF GetsOn, Stage, InPass
    <3>3. QED
      BY <2>6, <3>1, <3>2
  <2>7. CASE SkipCompleted \/ StartTest \/ FinishTest
    <3>1. /\ at \in {"pkg", "test"} /\ at' \in {"pkg", "test"} /\ UNCHANGED <<vm, gpu>>
          /\ pkg' = pkg + 1 \/ (pkg' = pkg /\ at = "pkg" /\ at' = "test")
      BY <2>7 DEF SkipCompleted, StartTest, FinishTest, Standing, NextPkg, Goto
    <3>2. pkg' > pkg \/ (pkg' = pkg /\ Test' > Test)
      BY <2>0, <3>1 DEF Test
    <3>3. Stage' = Stage /\ InPass /\ OnVM' = OnVM
      BY <3>1 DEF Stage, InPass, OnVM
    <3>4. QED
      BY <3>1, <3>2, <3>3 DEF GetsOn
  <2>8. QED
    BY <2>2, <2>3, <2>4, <2>5, <2>6, <2>7 DEF Next, Step, Transfer
<1>2. QED
  BY <1>1, InitType, NextType, PTL DEF Spec, NoCircles
=============================================================================
