# TLA+ models of mOSdat

mOSdat drives desktop applications on virtual machines: it moves VMs (and one
GPU) around on Proxmox, runs smoke matrices and scripted scenarios on them, and
records what happened.  Most of it is sequential Python, but the state it works
on is not its own: Proxmox runs its tasks later, other mosdat processes work on
the same node, a process can die anywhere, and almost every call can fail with or
without having taken effect.  These modules model that.

All paths below are relative to `src/automation/` unless they start with another
directory of the repository.

## 1. Inventory

| Component | State it keeps | Operations | Talks to | What is hard | What makes it correct |
|---|---|---|---|---|---|
| Matrix runner (`runners/smoke.py`) | loop position, package file names | `run`, `run_quick`, two passes over VMs and packages | state file, GPU manager, VM operations | resumes anywhere, skips by a persisted phase, setup failures | results are neither lost, invented nor repeated; the phase is honest; a resume completes the matrix |
| Run state (`state.py`) | `state.json`: phase, results | load, mark started/finished, save, `validate_completion` | matrix runner | truncate-and-write, saved on exceptions too | the next process can load it |
| GPU manager (`proxmox/gpu.py`) | two flock files | `attach_to_vm`, `detach_from_current` | Proxmox API | several processes, asynchronous starts and stops, calls that fail half way or are never answered, deaths inside | one VM per node has the GPU; the one that was asked for; no call waits for another one for ever |
| Proxmox API (`proxmox/api.py`) | ticket | GET with retries, POST/PUT/DELETE without | Proxmox | a call that raised may have worked; none has a timeout | no write is repeated, every call that is answered ends |
| VM operations (`proxmox/vm.py`) | flock per VMID | snapshot, rollback, delete, reset, deploy, run | API, SSH | lock timeout, tasks that end after the client gave up | operations on one VM exclude each other |
| Functional runner (`runners/functional*.py`) | step cursor, checkpoint stack, created snapshots, deferred checks | `run_test`, `run_step` per kind, rewind, clean-up | VLM, VNC, SSH, VM operations, `events.jsonl` | retries and rewinds with steps that act late, exceptions of other classes, watchdog | a step starts on the disk it expects; a pass means everything ran; the run ends and cleans up |
| Functional command (`main.py`) | watchdog, per-VM resources | `cmd_functional` | runner, recorder, drivers, deferred checks | early exits through `finally`, SIGALRM | one verdict per VM, resources released |
| Recorder and frame bus (`recording/`, `vlm/screenshot.py`) | capture thread, latest frame, index | start, capture, stop, filter | VNC, runner | two threads, join with a timeout, fresh-frame wait | one writer, a frame handed out is fresh, index and files agree |
| Deferred checks (`runners/deferred_verify.py`) | none | `resolve_pending_verifies` | events, frames, VLM | windows after a rewind | each check sees frames of its own window |
| Live events (`live_events.py`, `live_dashboard*.py`) | offsets, queues | poll, broadcast, subscribe | `events.jsonl` | a reader behind a writer that truncates | every event once, in order |
| UIA and AT-SPI drivers (`uia/`, `atspi/`) | daemon socket, files | batches over TCP, SSH or a scheduled task | VM | timeouts with work still running, reconnects | no batch twice unless it is idempotent |
| VLM client, cache, agent (`vlm/`, `transport/vlm_cache.py`) | endpoint health, SQLite cache | verify, localize, agent turns | HTTP | failover, TTL | the budget is kept; a stale answer is not served |
| Scenario loader (`runners/scenario_loader.py`, `runners/var_subst.py`, `scenario.py`) | none | load, import, substitute, slice | files | nested imports and calls, in two passes | every import and call in its place, cycles refused |
| Routines (`routines/`) | run results | run, coverage, harness | runner | fixtures that fail | set-up and tear-down pair up |
| MCP server, authoring (`mcp_*.py`, `authoring.py`, `author_cli.py`, `draft.py`) | sessions, drafts | tool calls | everything above | two tools on one VM | a busy VM is refused |
| Build, test server (`commands/build.py`, `commands/rc_server.py`) | artifacts, containers | build, fetch, provision | SSH, GitHub | half-built artifacts | what is deployed is what was asked for |
| VM lifecycle, preflight, doctor (`commands/`, `runners/vm_state.py`) | none | start, wait, probe | API, SSH | races with other starters | a VM reported ready is ready |
| Configuration, reports, lint, replay, trace, issue tools | none | parse, render | files | none | text |

The components meet in four places: `state.json` (successive matrix processes),
the flock files and the VM configurations in Proxmox (concurrent processes),
`events.jsonl` (runner, dashboard, deferred checks, MCP) and the frame bus
(recorder thread and runner).  The hazards of `PROJECT.json` name where each of
these bites.

## 2. Plan

The modules, in the order in which they were written:

1. `MatrixRun` (matrix runner with its state file), proofs in `MatrixRunProofs`.
2. `GpuPassthrough` (GPU manager, the API calls it makes, Proxmox's tasks, any
   number of processes), proofs in `GpuPassthroughProofs`.
3. `FunctionalRun` (one scenario on one VM), proofs in `FunctionalRunProofs`.
4. `VmOperations` (several processes on one VM: the lock, Proxmox tasks,
   deployments), which implements the abstract `VmPromise`; both stand on `VmDisk`;
   proofs in `VmOperationsProofs`.
5. The commands of one process: `Process` is what they share, and every handler is
   a module that extends it - `SessionRecorder` and `DeferredVerify` under
   `FunctionalCommand`; `LiveEvents`; `UiWorker` under `UiDriver`; `VlmClient`;
   `ApiClient`; `BuildCommand`; `RcServer`; `VmReadiness`; `ScenarioLoader`.
   `MosdatCommand` composes them into `main`: a process runs one of them.

   `Enumeration` is the order of what several of them walk.

Proofs in `BuildCommandProofs`, `FunctionalCommandProofs` (with the recorder and the
scenario loader) and `ClientProofs` (API, click, vision model, dashboard): what the steps of
a handler keep.  `MosdatCommandProofs` has the theorems, about a process that runs any of
them.

Every safety property that a passing run checks is a theorem (section 5).  What is left
to prove is the run inside `FunctionalCommand` as an abstraction of `FunctionalRun`.

Every component module is plain TLA+ without RECURSIVE operators, takes its
parameters as CONSTANTS under one named ASSUME, and has one action per operation;
an `MC` module beside it holds the values the `.cfg` files choose from.

## 3. Modules

### MatrixRun

`mem` is `StateManager._state`, `disk` is `state.json` (what the last whole file says, and
whether it is whole), `at` is the place in `run`, `run_quick` or one of the loops, `vm`,
`pkg` and `gpu` are the loop variables.  `Save` is the first half of `StateManager.save`
(the file is truncated and the memory already changed), `EndSave` the second, so that
`Crash` may come between them.  `Interrupt` is any exception: it goes through `__exit__`,
which saves once more.  `Crash` loses the memory.  `Hang` is a build command, a request or a
test script that never returns.  The phases are the `if` chain of `run`; `Setup`,
`SetupFails`, `Transfer`, `SkipCompleted`, `StartTest`, `FinishTest` are the parts of
`run_vm_tests_*`. Outcomes of builds, set-ups and tests are nondeterministic, and `Start`
picks any of the command lines an instance allows.  VMs may have different numbers of
packages (`NumPkgs`).  Two ghosts: `ran` is what each cell's script ever returned, `ever`
which limits (`partial` for `--only` and `mosdat test`, `incomplete` for
`--allow-incomplete`) any process on this directory had; the properties that the limits void
say so by `ever`.

Abstracted: package files, logs, timestamps, the report; `state.json` of another
version (it counts as none).

### GpuPassthrough

`pc` is where every process stands in `attach_to_vm` or `detach_from_current`;
`hostLock` and `pciLock` are the flocks; `hostpci` is the set of VMs whose
configuration names the GPU, `running` and `passed` the QEMU processes and those
that hold the GPU; `starting` and `stopping` the tasks Proxmox has queued.  A
`Request` takes effect and is answered, takes effect and raises, or raises
without effect; one that nobody answers leaves the process in `hung` with its locks,
until `Crash`.  A timeout of `wait_for_status` or `wait_for_ip` may come at any
time and is not counted as a failure.  `ForeignStart` is `ensure_running` of any
other command.  `Crash` closes the file descriptors of a process and leaves its
requests behind.  `StartTask`, `StopTask` and `Busy` model Proxmox and QEMU, which
are not in the repository, from what the code expects of them.

Abstracted: times (a timeout is a choice), the mtime warning of `gpu_lock`,
`verify_gpu_visible`.

### FunctionalRun

`at`, `index` and `attempt` are the position in `run_test` and in the retry loop
of `run_step`; `checkpoints`, `created` and `pending` are the lists of the runner;
`snaps` are the snapshots Proxmox has.  What a step does to the VM is two sets of
steps: `disk`, whose effect is on the disk, and `live`, whose effect is in memory (a
running application, its windows, the session).  `snapshot` asks for `vmstate=0`
(`proxmox/vm.py:250`), so a snapshot holds a copy of `disk` only, and a rollback puts
that back and leaves `live` empty.  A scenario is the sequence of the kinds of its steps, each
with its `retries` and perhaps an agent; `opts` is the `checkpoints:` section.
`Exception` is any call that raises, or the SIGALRM of the watchdog raising in
the midst of it; whether it escapes, is swallowed or becomes `StepFailed` is the
`try` of the code around that call.  `outcome` is the last event of every step.

Abstracted: what is clicked, typed and seen; a verification is a choice.  Of what
an `if_visible` step may run, only a checkpoint is modelled.  Late completions of
Proxmox tasks belong to `VmOperations`.

### VmDisk, VmPromise, VmOperations

`VmDisk` is what the operations are about: `disk` (whose build is installed), `snaps`
(what every snapshot holds), and for each operation when Proxmox can do it
(`Possible`) and what it does (`Effect`).

`VmPromise` says what callers may expect, without locks, tasks or polling: one
operation at a time, which takes effect at most once, as a whole, between its call
and its answer; "ok" only if it did; one that failed may still take effect
`Late`, and so may a deployment from the command line.

`VmOperations` is the code: `lock` is the flock of the VMID, `pc` where a process
stands in `with _vm_lock(...)`, `task` the Proxmox task (or the installation) it
waits for, `left` those that nobody waits for any more, after a deadline, a
failed request, an SSH timeout or a kill.  `run` are the processes in a
functional run; they take the lock for each checkpoint operation only.  `Hang` is a
request that is never answered: the lock stays taken until the process is killed.
`Probe`/`EndProbe` is `_vm_busy`, which takes the lock to see whether it is free.
`BareDeploy` is a deployment by `mosdat build` or the matrix, which take no lock.
`disturbed` is a ghost: something left behind, or without the lock, took effect
while the lock was held.

The refinement (`Promise` in `VmOperations`): the caller is the holder of the lock
once it is inside (a probe is not an operation); its operation is done when its
task is "ok"; what may still come are the operations in `left`.  `Lock` is `Enter`,
a task that ends well and `Install` are `Act`, every way back is `Succeed` or `Fail`, a
lock timeout is `Refuse`, and the ends of tasks left behind are `Late`.

Abstracted: a single VMID, as the locks of two share nothing; Proxmox answers
every snapshot request with a UPID; `mosdat_build` and the ssh bootstrap are
deployments as far as the lock goes; the time of an installation (it takes
effect at one moment).

### Process and MosdatCommand

`pc` is where the main thread of a mosdat process stands, `code` its exit code,
`faults` the calls out of the process that failed so far.  The labels of `pc` begin
with a letter of their own for each handler (`f.` `cmd_functional`, `s.` the
capture inside it, `l.` the dashboard, `u.` a click, `v.` the model, `p.` the API,
`b.` build, `r.` the servers, `h.` readiness, `c.` the loader).  `MosdatCommand` is
the dispatch of `main` and leaves the variables of all other handlers alone.
A handler that raises exits with 1, as `main` does.

### FunctionalCommand, SessionRecorder, DeferredVerify

`FunctionalCommand` is `cmd_functional`: `vm` is the loop variable, `leave` how the
`try` block of a VM is left (`continue`, `return 4`, an exception, the watchdog),
`driver` and `runner` whether the names the `finally` clause uses are bound, `passed` and
`overall` the verdicts.  `EnterVM` to `Probe` are the set-up, `StepStart` to
`RunPasses` the run as far as the command depends on it, `CloseDriver` to `Verdict`
the `finally` clause.  `WatchdogFires` is the SIGALRM at any place, with its
effect there: the clause runs, is abandoned, or swallows it.  `Unanswered` is a call
without a timeout: the VNC ticket, the reset of a VM, the checkpoints of a run, `ffmpeg`.

`SessionRecorder` is the second thread: `thread` is where `_capture_loop` stands,
`slot` the frame bus, `wire` the VNC connection (the requests not answered yet),
`lock` `_capture_lock`.  `Look`, `BusDelivers`, `BusTimesOut` and the `Direct` actions
are `Screenshotter.capture` on the main thread.  A frame is two times: since when
its picture can be, and `capture_time`, which the thread reads in a step of its own
(`FrameStamped`) after the lock is free.  `stalled` is a ghost: a whole capture of the main
thread passed between these two statements.  The files are `raw`, `index` and
`filtered`; `NewRecording` may find those of an earlier session.

`DeferredVerify` is functions only: the windows of `resolve_pending_verifies` over
events and frames.  Ghosts: `ran`, `owed` and `foreign` count what the verdict claims.

### LiveEvents

`file` is `events.jsonl` in parts (a long line may be flushed in two), `position` and
`seen_mtime` are the tables of `EventWatcher`, `tick` and `mtime` the clock of the file
system, in which two writes may have one time.  `queues` is the list of the
broadcaster, by whose queue it is; `queue_of` what the handler holds.  `shown`, `due` and
`emitted` are ghosts.

### UiWorker, UiDriver

`UiWorker` is the worker on the VM, one operation at a time, on a `tree` that the
application changes between any two.  A node has a path, whether it matches, whether
its title or process has the name of the application in it, whether it is off screen, its
size class and centre; `shown` is what the screen has at a point; the screen has the same
points whatever the tree.  `_walk_path_to_app` tells the path of a node from the nearest
such node above it, as the worker on Windows does, and cannot tell it when the children of
a node are other objects each time.
`UiDriver` is `run_batch` of the two clients over three ways, with what each repeats
(`EnsureSetup`, `Refused`, `Status255`) and the click in its modes: candidates, check of
the point, press.  A batch whose answer nobody waits for stays in `jobs` and is
executed.  `hits`, `begun`, `twice` and `cut` are ghosts; a hit is
`alike` if the texts of the two paths matched though neither widget is inside the other.

### VlmClient

`mode` is the method of the client (or the agent loop), `primary` the endpoint that
answered last, `cache` the database that other processes write too, `hour` the
clock.  What a model says is a choice, of which a coordinate may lie off the screen.

### ApiClient

`request`, `attempts` and `answer` are those of `_request`; `sent` is how often the
server executed it (ghost), `guest` a process in the VM.  A request may be lost before
or after its effect, or never be answered; a ticket grows old.  `polls` bounds the polls
of `agent_exec` (its deadline).

### BuildCommand

Revisions of the pull request are numbers, in which symbol, version and file name
are functions, so that two revisions may share a file name.  `cached`, `sidecar` and
`clone` are the files on the host, `artifact` the package chosen, `app` what each VM
has, `seen` the copy that was verified.  `posted` is the comment as it was read together
with the head, before the CI is asked; the URL is taken from it.  The ghost `behind` says
that it was for an older head.  `Push`, `Uploads` and `CiEnds` are GitHub, at any
point of the choice.  The steps on a Windows VM are one action with an index.

### RcServer

`stacks` are the Compose projects of the daemon, `listed` what this process was
shown of them.  `Interferes` is another process (or a dying container), `Boots` a server
that begins to answer.  A failed pull is taken for a missing image when its text says "not
found", whatever was not found; the ghost `misread` says that this happened.

### VmReadiness

Five commands: `wait_ready`, `ssh-bootstrap` (`console` is what the screen shows, `shot`
what the model was shown, `typed` where keys went), `vm-hygiene` (`settings`,
`written`), `preflight` and `doctor` (`checks`, `broken`; a check is a name, and the ones
whose failing command shows nothing are told apart).  The last check of `preflight` runs the
first shell steps of the scenario, which may start the application; then `started`, a
ghost, is set.

### ScenarioLoader

`work` is what is still to be expanded and within which names (the set against
cycles), `done` the result of a pass; there is one pass for imports, one for calls,
one for variables.  `aside` are the `on_failure` steps of routines, which are expanded
(and may so end the process) but not kept.  A call gives a routine its inputs, declared or
not.  `LoadedIsExpansion` compares the result with `Meaning`, which knows of no passes:
`Stands` is what an import or a call stands for, and `Levels` replaces both at once, level
by level, as often as the loader replaced something (`replaced`, a ghost).  The two differ
where an import is in a routine or in a `then:` block: the loader leaves it there, and the
property excuses just the results that it is still seen in (`ImportLeft`).  `Shaped` gives
every kind of item its fields.

## 4. Runs

| Run | Bounds | Question and answer |
|---|---|---|
| `matrix_full` | 2 VMs with 2 packages and 1, 2 failures or crashes, every command line | no result is lost, invented or repeated, the phase is honest, DONE means complete, every process ends or is in a call that never returns |
| `matrix_resume` | the same VMs, full runs only, 1 failure | **violated**: a failed transfer in the GPU pass is never made good by a resume |
| `gpu_all` | 3 processes on 2 nodes with one PCI address, 2 VMs, other commands starting one VM, 1 failure, kill or request without an answer | one owner, `attach_to_vm` delivers, mutual exclusion, and every call ends or waits for an answer that never comes |
| `gpu_online` | no failure at all | **violated**: a queued start without the GPU passes for the start with it |
| `functional_rewind` | 10 steps, one of every kind, 3 checkpoints, up to 2 attempts, an agent, `retries: 0`, 2 failures, watchdog, `--from-step` | the disk of the VM is aligned with the cursor at every step, its memory with what was done since the last rewind, a pass is clean, deferred checks are queued, no snapshot is left, only failures escape, the run ends or waits for an answer |
| `functional_same` | 4 steps, no failure | **violated**: two checkpoints of one name misalign a rewind |
| `functional_watchdog` | 3 steps, no failure | **violated**: the watchdog is swallowed |
| `vm_operations` | 2 processes, 1 snapshot name, 1 failure or crash, calls while at most 1 task is left behind | the operations implement `VmPromise`, what returned was delivered, every call returns or waits for an answer |
| `vm_race` | the same | **violated**: a tool deploys in the middle of a functional run |
| `mosdat_commands` | 1 fault per process; 2 VMs with 2 steps, the second a deferred check, and 2 frames; 1 browser, 2 runs of 2 lines; 6 trees (one with a row of 13 entries), 1 change, 2 tries; 2 endpoints, 2 screenshots, 1 hour, 1 turn; 3 revisions, 2 VMs; 3 references, 3 ports; 2 probes; 2 polls of a process in the guest | a command's exit code and answers are honest, frames are fresh and of their session, lines are shown once and in order, batches and writes happen once, clicks reach their widget or one whose path reads alike, servers, builds and VMs are as reported, scenarios are what their files say, and every command ends or waits for an answer |
| `no_stranger` | the same, with the wide tree only | **violated**: a click goes to `/0/12`, the widget over `/0/1`, though they are told apart by their paths |
| `live_fanout` | 2 browsers, 1 run of 1 line, no fault | **violated**: a browser that leaves takes another one off the list |

Why the bounds are enough: the matrix walks VMs and packages in order and treats all alike,
so two VMs, one with two packages and one with a single one, show every first/next/last
case, and two failures give a crash during the repair of a crash.  Two processes are enough
for exclusion and for one process finding what a dead one left, which needs the single
failure; a third of the same node would only wait, so the third of `gpu_all` is on the other
node, whose GPU has the same PCI address, and meets the others at the second lock.  The GPU
actions look at one owner and one target; a third VM only adds another bystander. The
scenario has a checkpoint before, between and (nested) behind steps of each class, so a
failure rewinds to each of them, passes checkpoints again whose snapshots exist already, and
runs out of them.  Two failures are one while recovering from another.  On one VM two
processes show every exclusion and every interference, with one task left over from before;
deadlines are not counted as failures, so tasks are left behind again and again.  The proofs
of section 5 remove the bounds where they apply.

In `mosdat_commands` a process runs one command, so the handlers do not multiply.  One fault
is enough for every error path, and with repetition in the code itself (three requests, two
tries, two endpoints, two VMs) also for what follows it.  Two VMs let the second one meet
the variables of the first; of the two steps one looks, so that a rewind repeats it, and one
is checked later; two frames are the first and the last of a recording; two runs of two
lines give a truncated file that is shorter or longer than the offset; a change of the tree
is all that can come between find, check and click; the trees have a covered entry, a menu
that has closed, a row of more than ten entries (with `/0/1` and `/0/12`), a window with the
name of the application inside another one, one whose nodes are other objects each time, and
one that cannot be asked; with a lifetime of no hours a verdict is fresh or expired; three
revisions are one without the symbol, and two of one version.  Three references are a pull
request and two that share a project.

Counters are bounded by the constant `MaxFaults` of every module (calls that fail,
interruptions and crashes); `MaxLeft` bounds the tasks left behind when an operation of
`VmOperations` is called, `MaxFrames` the frames of a recording, `LiveRuns` and `LiveLines`
what is written, `MaxChanges` the changes of a tree, `Hours` the clock, `Revs` the pushes,
`Waits` the probes of `wait_ready` and `Polls` those of a process in the guest.  Everything
else is finite by itself.

`CHECK_DEADLOCK FALSE` is set where the programs stop: no process can be started over a torn
`state.json`, a scenario run ends, and so does a mosdat process.  The GPU and VM runs check
deadlock: a process may always call again.

Fairness.  `FairSpec` of each module says that a live process executes its next
statement; it is on the whole step of a process, never on one outcome of it, and no crash
or interruption is fair.  That takes calls that return or raise, and not all do:

- no request of `proxmox/api.py` has a timeout (80, 129, 370), nor have `ffmpeg`
  (`recording/session_recorder.py:600`), the build commands and the streamed test scripts
  of the matrix (`runners/smoke.py:70`, `transport/ssh.py:118`).  Any of these may leave the
  process in the place "hung", with the locks it has, and the only step out of it is a kill, where
  kills are modelled (in `MatrixRun` an interruption as well; in a functional run the
  SIGALRM, if it is still to come, ends the wait);
- the other SSH commands are called with a timeout or end when `ServerAlive` finds no peer,
  and VNC, VLM, HTTP probes and the wait for a frame have timeouts; waiting loops have
  deadlines.  Where such a call may never be answered its deadline is a step of the process.

So liveness says that a call ends *or hangs*: `Terminates`, `CallEnds`, `CallReturns`, `Ends` and
`CommandEnds` all have "hung" beside the end.  What they exclude is that a process waits for
another one, retries or polls for ever.  Nothing is assumed of Proxmox: queued tasks may
never run, as a poll ends at its deadline.  `RerunSpec` of `MatrixRun`, used for `ResumeCompletes`
only, adds that somebody re-runs the command.  `MosdatCommand` has one condition, on the main
thread and what it waits for (the capture thread, the worker) taken together, as the operating
system runs them all; it demands nothing of the other processes, GitHub, the browsers or the
process in the guest.  `CommandEnds` leaves out `mosdat live`, which runs until it is
interrupted.

## 5. Theorems

Each holds for every value of the constants that satisfies the module's ASSUME.

- `MatrixRunProofs!TypeCorrect`: `TypeOK`, under the inductive `TypeInv`, which adds
  that a loop variable stands on a VM or a package while one is worked on.
- `MatrixRunProofs!NoGpuFirst`: `NoGpuPassFirst`, for any mixture of command lines
  (once a partial one was used the property promises nothing).  The property
  speaks of the file; it is inductive only together with what the memory holds
  and how far the loops are, which is `NoGpuInv`: behind the cursor every cell is
  completed.
- `GpuPassthroughProofs!TypeCorrect`, `Excludes` (`MutualExclusion`) and `GpuOwned`
  (`OneOwner` and `AttachDelivers`, when every process knows all VMs of its node).
  `GpuInv` is the invariant: `LockInv` ties the locks to the places inside,
  `OwnerAt` says for every place which VM of the node has the GPU configured.
  Exclusion makes it stable under the steps of the others.
- `FunctionalRunProofs!TypeCorrect`: `TypeOK`, under `TypeInv`, which adds where the
  cursor may be on a step.
- `FunctionalRunProofs!RewindAligned`: `Aligned`, that is, at every step the disk shows the
  effects of exactly the steps before it, and the memory those of them that were done since
  the last rewind (the snapshots leave it out, so a step that needs a running application
  may not find it).  It is for every `WellFormed` scenario: its checkpoint steps have
  different snapshot names (otherwise `functional_same` refutes it), and no `ui` step has
  `retries: 0` (it would pass without acting). Both are needed and neither is checked by the
  code.  A rewind makes `Aligned` a statement about the past of the VM, so the invariant
  `RewindInv` has to say of every checkpoint on the stack that its snapshot still shows the
  steps before it (`StackInv`): that is what a later checkpoint of the same name would
  break.  The stack is ordered, which keeps those left after a rewind behind the cursor, and
  `CursorInv` says for every place what the VM may show, an attempt that half succeeded
  included.  `LiveInv` adds what is in memory.

- `VmOperationsProofs!TypeCorrect`: `TypeOK`, under `OpInv`, which ties lock, task and
  operation of a process to the place where it stands.
- `VmOperationsProofs!Implements`: `KeepsPromise`, that is `Spec => Promise!Spec`.
  `OpInv` says that whoever is inside holds the lock, hence that there is at most
  one caller (`CallerIs`) and that the others change nothing `VmPromise` sees
  (`Unseen`).  `Steps` restates the actions of `VmPromise` in terms of what is seen;
  one lemma per group of actions then maps each to one of them or to a stutter.

- `MosdatCommandProofs`: the theorems about a process that runs any command, with any
  number of faults.  `CWithin` to `HWithin` say that each handler keeps to its own
  labels, and `Apart` that a step is one of a given handler or leaves its variables and
  labels alone; so each theorem needs the invariant of one handler only.

The action properties and the remaining invariants of the first four modules:

- `MatrixRunProofs!PassedAreTested` (`PassedWasTested`) is inductive with `TypeInv`.
  `CompletedStays` (`CompletedStaysCompleted`) and `ResumesWithoutRepeating` (`NeverRetested`)
  are about single steps, but true of them only because the memory of a live process has
  every completed result of the file (`KeepInv`).
- `MatrixRunProofs!DoneIsTheWholeMatrix` (`DoneMeansComplete`): `DoneInv` says it of the
  memory too, and that while `ever` is empty the live process has none of the limits, so
  that only `validate_completion`, which has looked at every cell, lets it enter DONE.
- `MatrixRunProofs!OneIsRunning` (`OneRunningWithoutGpu`): two runs may each be killed in a
  test, and each leaves its cell RUNNING.  It holds as cells are tested in their order:
  `OrderInv` says of file and memory that all cells that precede a RUNNING one are
  completed, which takes `NoGpuInv` where a test begins.
- `GpuPassthroughProofs!AttachesToTarget` (`AttachDelivers`), from the invariant of `GpuOwned`.
- `FunctionalRunProofs!PassesAreClean` (`PassIsClean`) and `DeferredChecksStayQueued`
  (`AllRecordedQueued`).  A rewind puts steps that failed in front of the cursor again:
  `SettledInv` says that every step behind the cursor is settled (`IsSettled`), and
  `BehindInv` that the checkpoints of the stack, in their order, are behind it, so that a
  rewind never jumps over a step.
- `FunctionalRunProofs!EscapesHaveACause` (`OnlyFailuresEscape`) and `NothingIsLeft`
  (`NoLeftovers`) need no more than `TypeInv`: the clean-up goes through `created`, of which
  a rewind takes nothing.
- `FunctionalRunProofs!RunsGetOn` and `MatrixRunProofs!ProcessesGetOn` (the `NoCircles` of
  each, which no run checks) are the part of `Ends` and `Terminates` that needs neither fairness nor
  ENABLED: every step descends in a strict order.  A rewind moves the cursor of
  `FunctionalRun` back, over checkpoint steps that will be made again; `Chances`, the
  positions on the stack and those ahead, then loses the position popped and regains only
  later ones, so it is `Fewer`.  `FewerIsOrder` proves that this is a strict order; it is
  one on the subsets of `0..Total`, which are finitely many, and below it are the cursor,
  the place within a step and the attempt.  `BehindInv` is the invariant it takes.  No
  bound on failures enters: in the code a run ends after however many of them.
- `VmOperationsProofs!SuccessIsDelivered` (`Delivers`): `DeliverInv` says that what the
  holder of the lock has seen done is what the VM shows, until something disturbs it.

The commands, each in `MosdatCommandProofs`:

- `WritesHappenOnce` (`WritesOnce`): `OnceInv` bounds executions by attempts.
- `DryOrRefusedTouchesNothing` (`NothingTouched`): `TouchedInv` says where a build may stand
  once a VM was touched.  `BuildsAreHonest` (`BuildHonest`): `BuildInv` follows the revision
  from the choice of the package through cache, clone and VM to the copy that was
  verified, for every VM the loop has behind it.  The package is of the head that was read or
  of a later revision; what excuses an older one are the ghosts `kept` (`aria2c` stored the new
  one under another name) and `behind` (the comments were read before the one for the head
  was posted, by this run or the one that filled the cache).
- `ExitsAreHonest` (`HonestExit`): `HonestInv` says of every place what the names the
  `finally` clause uses are bound to, as those of the VM before may still be, and what is
  owed; the watchdog may fire at any of them.
- `OwnFramesOnly` (`OwnFramesAnswer`): `OwnInv` says which events and frames can be of an
  earlier session, and that windows begin and end in this one.  `SecondFrameIsFresh`
  (`SecondFrameFresh`): as long as nothing failed, one request at most is on the wire, of
  whoever has the lock, and `FreshInv` dates it, the frame in the slot and the one in the
  hands of the thread against the requests of the runner.  A frame can be stamped later
  than it was taken, as the thread reads the clock after it has freed the lock; if the main
  thread makes a whole capture of its own between the two (`stalled`), that frame passes
  for a new one, and the theorem does not speak of it.
- `BatchesAreBegunOnce` (`OncePerCall`): `BegunInv` says that nothing of a call that is
  about to be sent is on its way or begun, and that two jobs of one call are there only
  after ssh repeated the command.
- `ClicksReachTheTarget` (`StrangersAlike`): a checked click that hits another widget than
  the target, what is inside or around it, or an overlay, is stale or one whose path, as a
  text, goes with that of the target.  The second does happen: `no_stranger` is the run that
  violates the property without it.  `StrangerInv` says of every answer on its way,
  candidate and batch that it was read from the tree as it was after a number of changes; a
  click is stale as soon as there were more.
- `AnswersAreSound` (`SoundAnswers`): `SoundInv` has a part for each clause: the rows of the
  cache (`Rows`), the point and the samples (`Pointing`, `Sampling`, with the mean of three
  on the screen), the majority (`Voting`), and the count of the tries (`Trying`): the
  endpoints are walked in a circle that may begin anywhere, so that `tries` failures mean
  one for each endpoint in each whole round needs division by their number (`Division`,
  `Unique`, `Multiple`, `Circle`).
- `LinesAreShownInOrder` (`ShownInOrder`): lines are ordered by run and number.  `Past` is
  what was written before all that the watcher has still to read, which an offset behind
  the end of a new file does not break; `LiveInv` says that all that was read, queued,
  copied and shown is from there, in this order, and rising.
- `TypesWhereItShould` (`TypedToElevated`): `ConsoleInv` says what the console shows at every
  step of the chain.  `ReadyMeansReady` (`ReadyIsReady`): `ReadyInv` what each check has seen;
  that `preflight` leaves no application running holds unless it could not count them or one
  of its shell steps, which come after the count, started it.
- `ServersAreAsTold` (`ServerTruth`): `ServerInv` relates what was listed to the daemon.  The
  property names three exceptions, which are all of the code: a listing that failed, another
  process that starts the same project, and a failed pull that was taken for a missing image.
- `PhasesAreSliced` (`PhaseSlice`): `PhaseInv`, and a count of the phases up to a step.
- `ScenariosAreExpanded` (`LoadedIsExpansion`): the code walks a list of work depth first,
  and does so twice, first for the imports and then for the calls; the meaning replaces
  imports and calls alike, level by level.  That the two agree, over a scenario of any
  length and files of any nesting, where the result has no import left, is what is proved.
  `LoadInv` says at each step of the walk that whatever comes of the items that are done,
  followed by those that are left, comes of the whole scenario with as many more passes as
  were items replaced (`Leads`).  That replacing one item anywhere costs one pass at most is
  `OneReplaced`: the items it stands for are at one level less than those beside it, and a
  pass more leaves what is final as it is.  `Pass` and `Levels` are recursive functions
  (`FlattenSeq` is one as well); that they distribute over concatenation, that a first pass
  may be split off as well as a last one, and that the recursions have one solution is
  proved by induction over a set of numbers (`Inductive`, from `LeastOf`), which needs no
  operator as a parameter.  `RenderedPlain` then has that no template is left, from the
  fields of an item.

Several of these are about the first, last or n-th of a set of numbers (`InOrder`,
`LastOf`, `Max` in the code).  That a finite set has a least element, and can be written
in order, is proved by least counterexamples (`LeastOf`, `GreatestOf` and `Enumerable` in
`FunctionalCommandProofs`): inclusion of finite sets is well-founded, and the library has
this fact without an operator as a parameter.

Assumptions are those of the `ASSUME` of each module (`MatrixAssumption` and so on: types of
the constants).  TLC evaluates them in every run.  Some say more than a type: that phases
are at ascending steps of the scenario (`ScenarioAssumption`, as `validate_scenario`
demands), that the centre of a widget is a point of the screen and a path a sequence of
child indexes (`UiWorkerAssumption`), that files are lists of items which have the fields of
their kind and that a variable that is set has a value (`FilesAssumption`: what YAML and the
schema leave), that a step is tried once at least (`UiDriverAssumption`), that coordinates
are integers (`VlmAssumption`).

Hypotheses of theorems, which the code does not check:

- `WellFormed` of `RewindAligned`, see above; without it `functional_same` violates it;
- `KnowsNode` of `GpuOwned` and `AttachesToTarget`: every process has all VMs of its node
  in its configuration, as `detach_from_current` looks at no others.

Model-checked only:

- liveness (`Terminates`, `CallEnds`, `Ends`, `CallReturns`, `CommandEnds`, `ResumeCompletes`),
  which needs fairness and ENABLED.  Of the first and the third the safety part is
  proved (`NoCircles`).

## 6. Disagreements between code and documentation

The violation runs above; `PROJECT.json` ("findings") quotes the line that is
contradicted in each case.  Met while modelling, and modelled as the code has it,
without a run of their own:

- a kill inside `save` leaves a `state.json` that no later process can load
  (`state.py:151`), though `commands/parser.py:90` promises a resume;
- after a finished `--only` run, a full run reads DONE and tests nothing
  (`runners/smoke.py:257`; `docs/runbooks/matrix-run.md:32`);
- the run goes on from a checkpoint after `AppCrashedError`
  (`runners/functional_lifecycle.py:437`; `runners/functional_steps.py:25`);
- a shell step that raises is not recorded as failed (`runners/functional_steps.py:626`;
  the comment two lines above);
- a step found settled between two attempts has no `step_end`
  (`runners/functional_steps.py:664`; `specs/001-agent-desktop-testing/data-model.md:76`);
- a rewind to a checkpoint inside `if_visible` raises a `TypeError`
  (`runners/functional_lifecycle.py:485`; `skills/mosdat-testing/SKILL.md:144`);
- `retries: 0` passes without acting (`runners/functional_steps.py:654`, where
  `runners/functional_lifecycle.py:502` reports "passed");
- the docstring of `gpu_lock` (`proxmox/gpu.py:88`) says that a stale lock is
  force-acquired; the code only logs a warning and times out;
- a readiness probe holds the lock of the VM for a moment (`mcp_tools.py:282`), so a
  tool may answer "vm busy" though nobody builds, deploys or runs, which is what
  `skills/mosdat-testing/SKILL.md:100` says it means; and a functional run, which it
  names too, does not make the VM busy (`vm_race`).

Of the commands:

- the bounds and the need for a recording are checked for the platform of the first VM
  only (`main.py:356`); an exception before the drivers of the first VM exist makes the
  `finally` clause raise another one (`main.py:600`);
- frames of an earlier session stay in `raw/` when `--screenshots` names its directory;
- `EventWatcher` keeps an offset behind the end of a file that was begun anew
  (`live_events.py:99`), so lines of the second run are not shown until it is as long;
- the worker on Windows tells a path from the nearest window with the name of the
  application (`uia/worker.py:540`), so two widgets of nested windows can have one path;
- `SSHClient.run` repeats a command after status 255, also when it had begun;
- a point is accepted at x = width (`vlm/client.py`), and an agent that says "done" is
  believed without the success check;
- a ticket is never renewed (`proxmox/api.py:75`), so a client older than its lifetime
  gets an error for every call; the end of a process in the guest is told once, so a lost
  answer to it becomes an error;
- `aria2c` stores a download under another name when the old file is there, and the
  old one gets the new revision in its sidecar (`commands/build.py:657`; ghost `kept`); a
  dry run removes an unusable file from the cache;
- two provisions of one reference may both start it (`commands/rc_server.py:460`), though
  the docstring of the module (line 20) says that the race is avoided, and two references
  may have one project;
- a failed command counts as "no stale processes" in `preflight` and `doctor`; the shell
  steps that `preflight` runs come after it has looked for stale processes
  (`commands/preflight.py:645`), and the first ones of a scenario start the application;
- no request of `proxmox/api.py` has a timeout, so one that is not answered keeps the
  locks of its process for ever;
- a snapshot leaves out the memory (`vmstate=0`, `proxmox/vm.py:250`) and nothing starts the
  application again after a rewind: the steps that follow find it closed;
- the capture thread stamps a frame after it has freed the lock
  (`recording/session_recorder.py:238`), so an old picture may pass for a new one;
- the comments of a pull request are read before the CI is asked
  (`commands/build.py:587`, 612), so a CI that ends in between makes the package of an older
  revision count as that of the head;
- `_is_no_image_error` (`commands/rc_server.py:208`) takes every "not found" for a missing
  image, where the docstring at 233 says that a failure of authentication or of the network
  is never reported so;
- an import inside `then:` of an `if_visible` step, or inside a routine, is never
  expanded, although a comment in `_expand_routines` (`runners/scenario_loader.py:533`) says
  that `_expand_imports` does it later; `--var` is not visible to the inputs of
  routines, although the docstring of `load_test_yaml` says that it wins; the steps of
  `on_failure` are loaded and dropped.

## 7. Not modelled

The components marked `not_modelled` in `PROJECT.json`: reports, the confirmation of issues
and notifications, and the single-user tools (record, replay, lint, trace) are text, HTTP
and sequential editing of files, with nothing that a test could not reach.  Of the
components marked `partly` the notes there name what is left out: mostly operations that are
one remote command (text entry, menus, lifecycle commands), pixels and the wording of what
is shown.  In the modules that are there some cases are left out: a widget without a role,
templates inside the values a call gives to a routine, and pixels next to the edge
(`SoundAnswers` takes x = width for a point of the screen, as the code does).  Not composed
are `VmOperations` and `GpuPassthrough` (a rollback under the GPU manager's feet), as
snapshots of a VM configuration would multiply the two largest state spaces; and the run
inside `FunctionalCommand` is an abstraction of `FunctionalRun` that is not proved to be
one.
