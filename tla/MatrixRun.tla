------------------------------ MODULE MatrixRun ------------------------------
(***************************************************************************)
(* The smoke-matrix runner (src/automation/runners/smoke.py) with the      *)
(* state file it resumes from (src/automation/state.py).                   *)
(*                                                                         *)
(* One `mosdat run` or `mosdat test` process at a time works on a results  *)
(* directory.  It loads state.json, walks the phases BUILD .. DONE, marks  *)
(* one result per cell (VM, package, GPU or not) and saves the file after  *)
(* every change.  The process may be interrupted (an exception, which      *)
(* still runs StateManager.__exit__) or killed between any two steps,      *)
(* including while the file is being rewritten.                            *)
(***************************************************************************)
EXTENDS Naturals

CONSTANTS NumVMs,      \* the VMs of the config, in order, are 1 .. NumVMs
          NumPkgs,     \* the packages of VM v, in order, are 1 .. NumPkgs[v]
          Only,        \* values --only may take; 0 stands for its absence
          Quick,       \* may the process be `mosdat test` (run_quick)?
          Incomplete,  \* may --allow-incomplete be given?
          MaxFaults    \* bound on failures of the environment and on crashes

ASSUME MatrixAssumption ==
  /\ NumVMs \in Nat \ {0}
  /\ NumPkgs \in [1..NumVMs -> Nat]
  /\ Only \subseteq 0..NumVMs
  /\ Quick \subseteq BOOLEAN
  /\ Incomplete \subseteq BOOLEAN
  /\ MaxFaults \in Nat

VMs     == 1..NumVMs
Pkgs(v) == 1..NumPkgs[v]
Cells   == UNION {{v} \X Pkgs(v) \X BOOLEAN : v \in VMs}

Phase      == {"build", "deploy", "test_no_gpu", "test_gpu", "report", "done"}
Completed  == {"passed", "failed"}
TestStatus == {"missing", "running"} \cup Completed
State      == [phase : Phase, results : [Cells -> TestStatus]]

\* State(version=...) as load() makes it when no file matches
Fresh == [phase |-> "build", results |-> [c \in Cells |-> "missing"]]

\* what keeps a process from covering the whole matrix: part of the VMs or no
\* cell at all, or leave to end with cells missing
Limit     == {"partial", "incomplete"}
Limits(o) == (IF o.only # 0 \/ o.quick THEN {"partial"} ELSE {})
             \cup (IF o.incomplete THEN {"incomplete"} ELSE {})

Options == [only : Only, quick : Quick, incomplete : Incomplete]

VARIABLES
  mem,      \* StateManager._state of the live process
  disk,     \* state.json: what the last whole file says, and is it whole now?
  writing,  \* the process is inside save(), the file truncated
  at,       \* where the process stands
  opts,     \* its command line
  gpu,      \* FALSE in the pass without the GPU, TRUE in the pass with it
  vm, pkg,  \* loop variables of run_all_* and run_vm_tests_*
  faults,   \* failures so far (a bound, not state of the code)
  ran,      \* outcomes every cell's test script ever returned (a ghost)
  ever      \* limits of any process so far (a ghost)

process == <<at, opts, gpu, vm, pkg>>
ghosts  == <<ran, ever>>
vars    == <<mem, disk, writing, process, faults, ghosts>>

-----------------------------------------------------------------------------
\* mutant: only a PASSED cell counts
is_test_completed_passed(s, c) == s.results[c] = "passed"

is_test_completed(s, c) == s.results[c] \in Completed

CellsOf(v, g) == {v} \X Pkgs(v) \X {g}

\* get_vms_to_test and the order its result is walked in
Selected == IF opts.only = 0 THEN VMs ELSE {opts.only}
\* mutant: an off-by-one in the loop's first index
FirstVM_zero == IF opts.only = 0 THEN 0 ELSE opts.only

FirstVM  == IF opts.only = 0 THEN 1 ELSE opts.only
NextVM   == IF opts.only = 0 THEN vm + 1 ELSE NumVMs + 1

\* mutant: a cell with any result counts as covered
validate_completion_any ==
  IF opts.incomplete THEN {}
  ELSE {c \in Cells : c[1] \in Selected /\ mem.results[c] = "missing"}

validate_completion ==
  IF opts.incomplete THEN {}
  ELSE {c \in Cells : c[1] \in Selected /\ ~is_test_completed(mem, c)}

\* mutant: a result key without the gpu suffix
Mark_without_suffix(s, cs, st) ==
  [s EXCEPT !.results = [c \in Cells |-> IF \E d \in cs : d[1] = c[1] /\ d[2] = c[2]
                                        THEN st ELSE s.results[c]]]

\* mark_test_finished on each cell of cs, mark_test_started on one
Mark(s, cs, st) == [s EXCEPT !.results = [c \in Cells |-> IF c \in cs THEN st ELSE s.results[c]]]

EnterPhase(s, p) == [s EXCEPT !.phase = p]

\* save(): open(..., "w") truncates the file; EndSave is the end of json.dump
Save(s) == /\ mem' = s
           /\ disk' = [disk EXCEPT !.whole = FALSE]
           /\ writing' = TRUE

NoSave == UNCHANGED <<mem, disk, writing>>

EndSave == /\ writing
           /\ disk' = [known |-> TRUE, whole |-> TRUE, state |-> mem]
           /\ writing' = FALSE
           /\ UNCHANGED <<mem, process, faults, ghosts>>

Standing(p) == at = p /\ ~writing
Goto(p)     == at' = p /\ UNCHANGED <<opts, gpu, vm, pkg>>
Calm        == UNCHANGED faults
Fault       == faults < MaxFaults /\ faults' = faults + 1

-----------------------------------------------------------------------------
(* Starting and leaving the process.                                       *)

\* with self.state_manager: a file that json.load rejects raises at once
Start ==
  /\ Standing("idle")
  /\ disk.whole
  /\ opts' \in Options
  /\ mem' = IF disk.known THEN disk.state ELSE Fresh
  /\ at' = IF opts'.quick THEN "quick" ELSE "start"
  /\ ever' = ever \cup Limits(opts')
  /\ UNCHANGED <<disk, writing, gpu, vm, pkg, faults, ran>>

\* __exit__ saves whatever the state is, then the process ends
Exit ==
  /\ Standing("exit")
  /\ Save(mem)
  /\ Goto("closing")
  /\ UNCHANGED ghosts /\ Calm

Close ==
  /\ Standing("closing")
  /\ Goto("idle")
  /\ NoSave /\ UNCHANGED ghosts /\ Calm

\* an exception nobody catches, KeyboardInterrupt included, in run's body
Interrupt ==
  /\ at \notin {"idle", "exit", "closing"}
  /\ writing' = FALSE
  /\ Goto("exit")
  /\ UNCHANGED <<mem, disk, ghosts>> /\ Fault

\* the process is killed; the memory of a dead process is never read again
Crash ==
  /\ at # "idle"
  /\ writing' = FALSE
  /\ Goto("idle")
  /\ UNCHANGED <<mem, disk, ghosts>> /\ Fault

\* a request to Proxmox, a build command or the streamed output of a test script
\* has no timeout: one that never ends leaves the process where it is until
\* somebody interrupts or kills it
Hang ==
  /\ \/ at \in {"vm", "transfer", "test", "quick_tests"}
     \/ at = "start" /\ mem.phase = "build"
  /\ ~writing
  /\ Goto("hung")
  /\ NoSave /\ UNCHANGED ghosts /\ Fault

-----------------------------------------------------------------------------
(* run(): the phases.                                                      *)

Build ==
  /\ Standing("start")
  /\ mem.phase = "build"
  /\ \/ NoSave /\ Goto("built") /\ Calm                       \* --skip-build
     \/ Save(EnterPhase(mem, "deploy")) /\ Goto("built") /\ Calm
     \/ NoSave /\ Goto("exit") /\ Fault                        \* a build step fails
  /\ UNCHANGED ghosts

EnterPass(p, g) ==
  /\ Save(EnterPhase(mem, p))
  /\ at' = "vm"
  /\ gpu' = g
  /\ vm' = FirstVM
  /\ UNCHANGED <<opts, pkg, ghosts>> /\ Calm

run_all_no_gpu_tests ==
  /\ Standing("built") \/ (Standing("start") /\ mem.phase \in {"deploy", "test_no_gpu"})
  /\ EnterPass("test_no_gpu", FALSE)

\* mutant: the pass without the GPU ends one VM early
run_all_gpu_tests_early ==
  /\ \/ Standing("vm") /\ ~gpu /\ vm >= NumVMs
     \/ Standing("start") /\ mem.phase = "test_gpu"
  /\ EnterPass("test_gpu", TRUE)

run_all_gpu_tests ==
  /\ \/ Standing("vm") /\ ~gpu /\ vm > NumVMs
     \/ Standing("start") /\ mem.phase = "test_gpu"
  /\ EnterPass("test_gpu", TRUE)

\* the GPU is given back at the end; a failure to do so is only logged
Detach ==
  /\ Standing("vm") /\ gpu /\ vm > NumVMs
  /\ \/ Save(mem) /\ Calm
     \/ NoSave /\ Fault
  /\ Goto("passed") /\ UNCHANGED ghosts

Report ==
  /\ Standing("passed") \/ (Standing("start") /\ mem.phase \in {"report", "done"})
  /\ Save(EnterPhase(mem, "report"))
  /\ Goto("validate")
  /\ UNCHANGED ghosts /\ Calm

\* CompletionError leaves the phase REPORT in the file
Validate ==
  /\ Standing("validate")
  /\ IF validate_completion = {} THEN Save(EnterPhase(mem, "done")) ELSE NoSave
  /\ Goto("exit")
  /\ UNCHANGED ghosts /\ Calm

\* run_quick records no result; it only moves the phase
QuickBegin ==
  /\ Standing("quick")
  /\ Save(EnterPhase(mem, "test_no_gpu"))
  /\ Goto("quick_tests")
  /\ UNCHANGED ghosts /\ Calm

QuickEnd ==
  /\ Standing("quick_tests")
  /\ Save(EnterPhase(mem, "done"))
  /\ Goto("exit")
  /\ UNCHANGED ghosts /\ Calm

-----------------------------------------------------------------------------
(* run_vm_tests_no_gpu and run_vm_tests_gpu on the VM `vm`.                *)

AtVM == Standing("vm") /\ vm <= NumVMs

BeginPkgs == at' = "pkg" /\ pkg' = 1 /\ UNCHANGED <<opts, gpu, vm>>
LeaveVM   == at' = "vm" /\ vm' = NextVM /\ UNCHANGED <<opts, gpu, pkg>>

\* ensure_running and transfer_tests, or attach_to_vm and verify_gpu_visible
Setup ==
  /\ AtVM
  /\ IF gpu THEN Goto("transfer") ELSE BeginPkgs
  /\ NoSave /\ UNCHANGED ghosts /\ Calm

\* mutant: a failed setup marks nothing
SetupFails_unmarked ==
  /\ AtVM
  /\ NoSave
  /\ LeaveVM
  /\ UNCHANGED ghosts /\ Fault

\* every package of the VM becomes FAILED, whatever its result was
SetupFails ==
  /\ AtVM
  /\ Save(Mark(mem, CellsOf(vm, gpu), "failed"))
  /\ LeaveVM
  /\ UNCHANGED ghosts /\ Fault

\* transfer_tests in the GPU pass; its failure marks nothing
Transfer ==
  /\ Standing("transfer")
  /\ \/ BeginPkgs /\ Calm
     \/ LeaveVM /\ Fault
  /\ NoSave /\ UNCHANGED ghosts

Cell == <<vm, pkg, gpu>>

\* mutant: the package index is not advanced
NextPkg_stuck == at' = "pkg" /\ UNCHANGED <<opts, gpu, vm, pkg>>

NextPkg == at' = "pkg" /\ pkg' = pkg + 1 /\ UNCHANGED <<opts, gpu, vm>>

EndPkgs ==
  /\ Standing("pkg") /\ pkg > NumPkgs[vm]
  /\ LeaveVM
  /\ NoSave /\ UNCHANGED ghosts /\ Calm

SkipCompleted ==
  /\ Standing("pkg") /\ pkg <= NumPkgs[vm]
  /\ is_test_completed(mem, Cell)
  /\ NextPkg
  /\ NoSave /\ UNCHANGED ghosts /\ Calm

StartTest ==
  /\ Standing("pkg") /\ pkg <= NumPkgs[vm]
  /\ ~is_test_completed(mem, Cell)
  /\ Save(Mark(mem, {Cell}, "running"))
  /\ Goto("test")
  /\ UNCHANGED ghosts /\ Calm

\* exit code 0, another exit code, or an exception (recorded as FAILED)
FinishTest ==
  /\ Standing("test")
  /\ \E st \in Completed :
        /\ Save(Mark(mem, {Cell}, st))
        /\ ran' = [ran EXCEPT ![Cell] = @ \cup {st}]
  /\ UNCHANGED ever
  /\ NextPkg
  /\ Calm

-----------------------------------------------------------------------------
Init ==
  /\ mem = Fresh
  /\ disk = [known |-> FALSE, whole |-> TRUE, state |-> Fresh]
  /\ writing = FALSE
  /\ at = "idle"
  /\ opts \in Options
  /\ gpu = FALSE /\ vm = 1 /\ pkg = 1
  /\ faults = 0
  /\ ran = [c \in Cells |-> {}]
  /\ ever = {}

Step == \/ EndSave \/ Exit \/ Close
        \/ Build \/ run_all_no_gpu_tests \/ run_all_gpu_tests \/ Detach
        \/ Report \/ Validate \/ QuickBegin \/ QuickEnd
        \/ Setup \/ SetupFails \/ Transfer
        \/ EndPkgs \/ SkipCompleted \/ StartTest \/ FinishTest

Next == Start \/ Step \/ Interrupt \/ Crash \/ Hang

Spec == Init /\ [][Next]_vars

\* A live process keeps executing: Python runs the next statement, unless the
\* call it is in never returns (Hang).
FairSpec == Spec /\ WF_vars(Step)

\* Somebody also keeps re-running the command.
RerunSpec == FairSpec /\ WF_vars(Start)

-----------------------------------------------------------------------------
(* Properties.                                                             *)

TypeOK ==
  /\ mem \in State
  /\ disk \in [known : BOOLEAN, whole : BOOLEAN, state : State]
  /\ writing \in BOOLEAN
  /\ at \in {"idle", "start", "built", "vm", "transfer", "pkg", "test", "passed",
            "validate", "exit", "closing", "quick", "quick_tests", "hung"}
  /\ opts \in Options
  /\ gpu \in BOOLEAN
  /\ vm \in 1..NumVMs + 1
  /\ pkg \in Nat \ {0}
  /\ faults \in 0..MaxFaults
  /\ ran \in [Cells -> SUBSET Completed]
  /\ ever \subseteq Limit

\* A cell the file records as completed stays completed, through every crash,
\* interruption, --only run, quick run and failed setup that follows.
CompletedStaysCompleted ==
  [][\A c \in Cells : disk.state.results[c] \in Completed
                     => disk'.state.results[c] \in Completed]_vars

\* Resuming repeats no work: a test script starts only on a cell that no
\* finished save of this or an earlier process recorded as completed.
NeverRetested ==
  [][at # "test" /\ at' = "test" => disk.state.results[Cell] \notin Completed]_vars

\* Every PASSED in memory or in the file was returned by a real run of that
\* cell's script; restarts, setup failures and overwrites invent none.
PassedWasTested ==
  \A c \in Cells :
    "passed" \in {mem.results[c], disk.state.results[c]} => "passed" \in ran[c]

\* As long as only full matrix runs have used the results directory ...
FullRuns == "partial" \notin ever

\* ... the persisted phase, by which a resumed process skips, tells the truth:
\* TEST_GPU or later means that every cell without the GPU is completed, in
\* whatever way earlier processes ended.
NoGpuPassFirst ==
  FullRuns /\ disk.state.phase \in {"test_gpu", "report", "done"}
    => \A v \in VMs : \A p \in Pkgs(v) : is_test_completed(disk.state, <<v, p, FALSE>>)

\* Without --allow-incomplete as well, DONE means that the whole matrix is
\* completed.
DoneMeansComplete ==
  ever = {} /\ disk.state.phase = "done" => \A c \in Cells : is_test_completed(disk.state, c)

\* NoGpuPassFirst made inductive: where the process stands tells which cells
\* its memory holds as completed, and which phase it is in.
NoGpuDone(s) == \A v \in VMs : \A p \in Pkgs(v) : is_test_completed(s, <<v, p, FALSE>>)

LateIsDone(s) == s.phase \in {"test_gpu", "report", "done"} => NoGpuDone(s)

CursorInv ==
  /\ at # "idle" => at \notin {"quick", "quick_tests"} /\ opts.only = 0 /\ ~opts.quick
  /\ at \in {"vm", "pkg", "test"} /\ ~gpu =>
       /\ mem.phase = "test_no_gpu"
       /\ \A v \in VMs : \A p \in Pkgs(v) :
            v < vm \/ (v = vm /\ p < pkg /\ at # "vm") => is_test_completed(mem, <<v, p, FALSE>>)
  /\ at = "transfer" => gpu
  /\ at \in {"vm", "pkg", "test", "transfer"} /\ gpu => NoGpuDone(mem)
  /\ at \in {"passed", "validate"} => NoGpuDone(mem)

\* the loop variables stand on a VM and a package while one is worked on
LoopInv ==
  /\ at \in {"transfer", "pkg", "test"} => vm \in VMs
  /\ at = "pkg" => pkg <= NumPkgs[vm] + 1
  /\ at = "test" => pkg \in Pkgs(vm)

FullInv  == LateIsDone(mem) /\ LateIsDone(disk.state) /\ CursorInv
NoGpuInv == LoopInv /\ (FullRuns => FullInv)

\* CompletedStaysCompleted and NeverRetested made inductive: what the file has
\* as completed a live process has so in memory as well, and nobody writes the
\* file after the process ended.
KeepsCompleted(s, t) == \A c \in Cells : is_test_completed(s, c) => is_test_completed(t, c)

KeepInv ==
  /\ writing => at # "idle"
  /\ ~disk.known => disk.state = Fresh
  /\ at # "idle" => KeepsCompleted(disk.state, mem)

\* DoneMeansComplete made inductive: it holds of the memory as well, and a
\* process that is live has none of the limits.
DoneIsComplete(s) == s.phase = "done" => \A c \in Cells : is_test_completed(s, c)

DoneInv ==
  ever = {} =>
    /\ DoneIsComplete(mem) /\ DoneIsComplete(disk.state)
    /\ at # "idle" => /\ at \notin {"quick", "quick_tests"}
                     /\ opts.only = 0 /\ ~opts.incomplete

\* An interrupted test leaves its cell RUNNING; a resumed full run settles it
\* before it starts another, so two such cells never stand side by side.
OneRunningWithoutGpu ==
  FullRuns => \A c, d \in Cells :
    ~c[3] /\ ~d[3] /\ mem.results[c] = "running" /\ mem.results[d] = "running" => c = d

\* OneRunningWithoutGpu made inductive: a RUNNING cell of the pass without the
\* GPU has only completed ones before it, in the memory and in the file.
Precedes(c, d) == c[1] < d[1] \/ (c[1] = d[1] /\ c[2] < d[2])

RunningInOrder(s) ==
  \A c, d \in Cells :
    ~c[3] /\ ~d[3] /\ s.results[c] = "running" /\ Precedes(d, c) => is_test_completed(s, d)

OrderInv == FullRuns => RunningInOrder(mem) /\ RunningInOrder(disk.state)

\* Every process ends, whatever fails and whatever it finds in the file, or it
\* is in a call that never returns.
Terminates == []<>(at \in {"idle", "hung"})

AllCompleted == \A c \in Cells : is_test_completed(disk.state, c)

\* "Resume after interruption" (docs/runbooks/matrix-run.md:36): re-running an
\* ended full run until nothing fails any more completes the matrix.
ResumeCompletes ==
  []<>(at = "idle" /\ disk.known /\ disk.whole) => <>AllCompleted
=============================================================================
