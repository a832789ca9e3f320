--------------------------- MODULE FunctionalRun ---------------------------
(***************************************************************************)
(* One functional scenario on one VM: FunctionalRunner.run_test            *)
(* (src/automation/runners/functional_lifecycle.py), the step dispatch and *)
(* retries it calls (functional_steps.py), and its checkpoints             *)
(* (functional.py), which are Proxmox snapshots (proxmox/vm.py).           *)
(*                                                                         *)
(* A step that fails for good makes the runner roll the VM back to the     *)
(* last checkpoint and go on behind it, for as long as checkpoints are     *)
(* left.  What a step does to the VM is abstracted to two sets of steps:   *)
(* those whose effect is on the disk, and those whose effect also lives in *)
(* memory (a running application, its windows, the session).  A snapshot   *)
(* is a copy of the first set only, and a rollback empties the second.     *)
(***************************************************************************)
EXTENDS Naturals, Sequences, FiniteSets

CONSTANTS Scenario,     \* the kinds of the (sliced) steps, in order
          Snap,         \* the snapshot name of every checkpoint step
          Names,        \* snapshot names
          StartIndex,   \* start_index: steps that --from-step cut off
          Retries,      \* step.retries of every step
          Agents,       \* the steps with an on_failure_agent
          Enabled, RewindOn, RetainDelete,  \* values the checkpoints: section may have
          Watchdog,     \* is --timeout set?
          MaxFaults     \* bound on calls to the VM and to Proxmox that fail

Total == Len(Scenario)
Steps == 1..Total
Kinds == {"checkpoint", "nested", "recorded", "wait_for", "poll", "shell", "key", "launch", "ui"}

ASSUME FunctionalAssumption ==
  /\ Scenario \in Seq(Kinds)
  /\ Snap \in [Steps -> Names]
  /\ Names # {}
  /\ StartIndex \in Nat
  /\ Retries \in [Steps -> Nat]
  /\ Agents \subseteq Steps
  /\ Enabled \subseteq BOOLEAN /\ RewindOn \subseteq BOOLEAN /\ RetainDelete \subseteq BOOLEAN
  /\ Watchdog \in BOOLEAN
  /\ MaxFaults \in Nat

Options == [enabled : Enabled, rewind : RewindOn, delete : RetainDelete]

\* an entry of _checkpoints; the step number of a nested step is the text "3.1"
Entries == [name : Names, step : Nat, text : BOOLEAN]

VARIABLES
  opts,         \* checkpoint_config
  at,           \* where run_test stands
  index,        \* step_index + 1
  attempt,      \* of the retry loop
  checkpoints,  \* _checkpoints: the stack of names and step numbers
  target,       \* the checkpoint popped for the rewind
  created,      \* _created_snapshots
  pending,      \* _pending_recorded_verifies, as steps
  outcome,      \* what events.jsonl last said of every step
  verdict,      \* the first result of run_test
  disk,         \* the steps whose effect is on the VM's disk
  live,         \* the steps whose effect is in its memory
  snaps,        \* the snapshots Proxmox has
  fired,        \* the SIGALRM of the watchdog has come
  faults        \* failures so far (a bound, not state of the code)

runner  == <<opts, checkpoints, target, created, pending, verdict>>
proxmox == <<disk, live, snaps>>
vars    == <<at, index, attempt, runner, outcome, proxmox, fired, faults>>

Kind   == Scenario[index]
Number == StartIndex + index

\* the steps that act on the VM
Acts(i) == Scenario[i] \in {"shell", "key", "launch", "ui"}

Goto(l)     == at' = l /\ UNCHANGED <<index, attempt>>
Calm        == UNCHANGED <<fired, faults>>
\* a call raises: it failed, or the SIGALRM handler raised in the midst of it
Exception   == \/ faults < MaxFaults /\ faults' = faults + 1 /\ UNCHANGED fired
               \/ Watchdog /\ ~fired /\ fired' = TRUE /\ UNCHANGED faults
Emit(o)     == outcome' = [outcome EXCEPT ![index] = o]
Touch       == disk' = disk \cup {index} /\ live' = live \cup {index} /\ UNCHANGED snaps
MayTouch    == Touch \/ UNCHANGED proxmox

-----------------------------------------------------------------------------
(* Leaving a step, and leaving run_test.                                    *)

\* run_step returned: step_index += 1
NextStep == at' = "run" /\ index' = index + 1 /\ attempt' = 1

\* run_step raised StepFailed
StepFailed == Goto("failing")

\* an exception that run_test does not catch
Escape == Goto("raised")

\* mutant: the pass path does not clean up
Return_uncleaned(v) ==
  /\ verdict' = v
  /\ Goto(IF v = "pass" THEN "ended" ELSE "cleanup")

Return(v) == verdict' = v /\ Goto("cleanup")

\* every step is done
Passes ==
  /\ at = "run" /\ index > Total
  /\ Return("pass")
  /\ UNCHANGED <<opts, checkpoints, target, created, pending, outcome, proxmox>> /\ Calm

-----------------------------------------------------------------------------
(* _do_checkpoint: best effort, one Proxmox call after another.             *)

AtStep(k) == at = "run" /\ index <= Total /\ Kind = k
Name      == Snap[index]

Checkpoint ==
  /\ AtStep("checkpoint")
  /\ IF opts.enabled THEN Goto("list") ELSE NextStep
  /\ UNCHANGED <<runner, outcome, proxmox>> /\ Calm

\* an if_visible step whose `then` holds a checkpoint
IfVisible ==
  /\ AtStep("nested")
  /\ \/ opts.enabled /\ Goto("list") /\ Emit("open")      \* visible
                /\ Calm
     \/ NextStep /\ Emit("ok") /\ (Calm \/ Exception)    \* not, or the probe raised
  /\ UNCHANGED <<runner, proxmox>>

ListSnapshots ==
  /\ at = "list"
  /\ \/ Goto(IF snaps[Name].there THEN "delete" ELSE "snap") /\ Calm
     \/ Goto("snap") /\ Exception
  /\ UNCHANGED <<runner, outcome, proxmox>>

Gone(n) == snaps' = [snaps EXCEPT ![n].there = FALSE] /\ UNCHANGED <<disk, live>>

DeleteSnapshot ==
  /\ at = "delete"
  /\ Goto("snap")
  /\ \/ Gone(Name) /\ (Calm \/ Exception)
     \/ UNCHANGED proxmox /\ Exception
  /\ UNCHANGED <<runner, outcome>>

\* vmstate=0: the disk alone
Taken(n) == /\ snaps' = [snaps EXCEPT ![n] = [there |-> TRUE, of |-> disk]]
            /\ UNCHANGED <<disk, live>>

Pushed == /\ checkpoints' = Append(checkpoints, [name |-> Name, step |-> Number,
                                                text |-> Kind = "nested"])
          /\ created' = Append(created, Name)

\* Proxmox refuses a name that exists
CreateSnapshot ==
  /\ at = "snap"
  /\ NextStep
  /\ \/ ~snaps[Name].there /\ Taken(Name) /\ Pushed /\ Calm
     \/ /\ \/ ~snaps[Name].there /\ Taken(Name) /\ Exception
           \/ UNCHANGED proxmox /\ (Exception \/ (snaps[Name].there /\ Calm))
        /\ UNCHANGED <<opts, checkpoints, created>>
  /\ IF Kind = "nested" THEN Emit("ok") ELSE UNCHANGED outcome
  /\ UNCHANGED <<opts, target, pending, verdict>>

-----------------------------------------------------------------------------
(* run_step on the other kinds.                                             *)

\* verify_recorded is only queued
VerifyRecorded ==
  /\ AtStep("recorded")
  /\ pending' = Append(pending, index)
  /\ NextStep /\ Emit("deferred")
  /\ UNCHANGED <<opts, checkpoints, target, created, verdict, proxmox>> /\ Calm

\* mutant: the deadline raises what run_test does not catch
Waits_uncaught(k) ==
  /\ AtStep(k)
  /\ \/ NextStep /\ Emit("ok") /\ Calm
     \/ Escape /\ Emit("failed") /\ Calm
     \/ Escape /\ Emit("open") /\ Exception
  /\ UNCHANGED <<runner, proxmox>>

\* wait_for and poll_shell: one try with a deadline; what the driver or the
\* shell raises besides its own timeout escapes
Waits(k) ==
  /\ AtStep(k)
  /\ \/ NextStep /\ Emit("ok") /\ Calm
     \/ StepFailed /\ Emit("failed") /\ Calm
     \/ Escape /\ Emit("open") /\ Exception
  /\ UNCHANGED <<runner, proxmox>>

WaitFor   == Waits("wait_for")
PollShell == Waits("poll")

\* a shell, a key or a type step that raises escapes from run_test
OneShot(k) ==
  /\ AtStep(k)
  /\ Emit("open")
  /\ \/ Goto("attempt") /\ Touch /\ Calm
     \/ Escape /\ MayTouch /\ Exception
  /\ UNCHANGED <<runner>>

Shell == OneShot("shell")
Key   == OneShot("key")

\* injector.launch, then the wait for process and window
Launch ==
  /\ AtStep("launch")
  /\ Emit("open")
  /\ \/ Goto("attempt") /\ Touch /\ Calm
     \/ StepFailed /\ Touch /\ Calm
     \/ Escape /\ MayTouch /\ Exception
  /\ UNCHANGED <<runner>>

\* localize, atspi and click_at steps; focus_app comes before the retry loop
Ui ==
  /\ AtStep("ui")
  /\ Emit("open")
  /\ (Goto("attempt") /\ Calm) \/ (Escape /\ Exception)
  /\ UNCHANGED <<runner, proxmox>>

-----------------------------------------------------------------------------
(* The retry loop of run_step.                                              *)

InLoop == at = "attempt" /\ attempt <= Retries[index]

\* mutant: one attempt too many
Again_more == attempt <= Retries[index] /\ at' = at /\ attempt' = attempt + 1 /\ UNCHANGED index

Again == attempt < Retries[index] /\ at' = at /\ attempt' = attempt + 1 /\ UNCHANGED index
Last  == attempt = Retries[index]

\* after the last attempt, whose step_end is "failed", the agent may rescue
\* the step (_invoke_agent_fallback)
GiveUp ==
  /\ Last
  /\ Emit("failed")
  /\ StepFailed \/ (index \in Agents /\ NextStep /\ Touch)

\* range(1, 0 + 1) is empty: run_step returns
NoAttempt ==
  /\ at = "attempt" /\ attempt > Retries[index]
  /\ NextStep
  /\ UNCHANGED <<runner, outcome, proxmox>> /\ Calm

\* the state asked for settled between two attempts: no step_end
Settled ==
  /\ InLoop /\ attempt > 1
  /\ NextStep /\ Touch
  /\ UNCHANGED <<runner, outcome>> /\ Calm

Verified ==
  /\ InLoop
  /\ NextStep /\ Touch /\ Emit("ok")
  /\ UNCHANGED <<runner>> /\ Calm

\* the click, canary or input check says no
ClickUnverified ==
  /\ InLoop /\ Kind = "ui"
  /\ MayTouch
  /\ Again \/ (Last /\ StepFailed)
  /\ UNCHANGED <<runner, outcome>> /\ Calm

\* click_at lies outside the captured screen: no other attempt is made
OutOfBounds ==
  /\ InLoop /\ Kind = "ui"
  /\ StepFailed
  /\ UNCHANGED <<runner, outcome, proxmox>> /\ Calm

\* verify, verify_atspi or accept_any says no and the application lives
Unverified ==
  /\ InLoop
  /\ MayTouch
  /\ (Again /\ UNCHANGED outcome) \/ GiveUp
  /\ UNCHANGED <<runner>> /\ Calm

\* verify says no and the apport dialog or the process probe says why: an
\* AppCrashedError, which is a StepFailed
AppCrashed ==
  /\ InLoop
  /\ MayTouch
  /\ StepFailed
  /\ UNCHANGED <<runner, outcome>> /\ Calm

\* `except Exception` takes everything, the watchdog's exception included
AttemptRaises ==
  /\ InLoop
  /\ MayTouch
  /\ (Again /\ UNCHANGED outcome) \/ GiveUp
  /\ UNCHANGED <<runner>> /\ Exception

\* within the agent nothing around run_step catches
AgentRaises ==
  /\ InLoop /\ Last /\ index \in Agents
  /\ Emit("failed")
  /\ Escape
  /\ MayTouch
  /\ UNCHANGED <<runner>> /\ Exception

-----------------------------------------------------------------------------
(* except StepFailed in run_test.                                           *)

CanRewind == opts.enabled /\ opts.rewind /\ checkpoints # <<>>

\* mutant: the checkpoint rewound to stays on the stack
PopCheckpoint_peek ==
  /\ at = "failing" /\ CanRewind
  /\ target' = checkpoints[Len(checkpoints)]
  /\ Goto("rollback")
  /\ UNCHANGED <<opts, checkpoints, created, pending, verdict, outcome, proxmox>>
  /\ (Calm \/ Exception)

\* mutant: a rewind drops the whole queue of deferred checks
PopCheckpoint_requeued ==
  /\ at = "failing" /\ CanRewind
  /\ target' = checkpoints[Len(checkpoints)]
  /\ checkpoints' = SubSeq(checkpoints, 1, Len(checkpoints) - 1)
  /\ pending' = <<>>
  /\ Goto("rollback")
  /\ UNCHANGED <<opts, created, verdict, outcome, proxmox>> /\ (Calm \/ Exception)

\* the screenshot of the failure may raise and is dropped
PopCheckpoint ==
  /\ at = "failing" /\ CanRewind
  /\ target' = checkpoints[Len(checkpoints)]
  /\ checkpoints' = SubSeq(checkpoints, 1, Len(checkpoints) - 1)
  /\ Goto("rollback")
  /\ UNCHANGED <<opts, created, pending, verdict, outcome, proxmox>> /\ (Calm \/ Exception)

Fails ==
  /\ at = "failing" /\ ~CanRewind
  /\ Return("fail")
  /\ UNCHANGED <<opts, checkpoints, target, created, pending, outcome, proxmox>>
  /\ (Calm \/ Exception)

\* the disk of the snapshot, and a machine that is off: nothing runs in it
Restored == disk' = snaps[target.name].of /\ live' = {} /\ UNCHANGED snaps

\* a rollback that raises ends the run, whether it took place or not
Rollback ==
  /\ at = "rollback"
  /\ \/ snaps[target.name].there /\ Restored /\ Goto("wait_ip") /\ UNCHANGED verdict /\ Calm
     \/ snaps[target.name].there /\ Restored /\ Return("fail") /\ Exception
     \/ UNCHANGED proxmox /\ Return("fail") /\ (Exception \/ (~snaps[target.name].there /\ Calm))
  /\ UNCHANGED <<opts, checkpoints, target, created, pending, outcome>>

\* mutant: --from-step is not taken off
Resume_unsliced == at' = "run" /\ index' = target.step + 1 /\ attempt' = 1

\* mutant: the run goes on behind the step that failed
Resume_onward == at' = "run" /\ index' = index + 1 /\ attempt' = 1

\* step_index = ckpt_step_num - start_index
Resume == at' = "run" /\ index' = target.step - StartIndex + 1 /\ attempt' = 1

\* An address comes only if the VM is up again, which nothing in run_test sees
\* to: without one the run fails, with no fault of any call.  Either way
\* to_step=ckpt_step_num + 1 is computed, which raises TypeError on "3.1".
WaitForIp ==
  /\ at = "wait_ip"
  /\ \/ ~target.text /\ Resume /\ UNCHANGED verdict /\ Calm
     \/ ~target.text /\ Return("fail") /\ (Calm \/ Exception)
     \/ target.text /\ Escape /\ UNCHANGED verdict /\ Calm
     \/ Escape /\ UNCHANGED verdict /\ Exception
  /\ UNCHANGED <<opts, checkpoints, target, created, pending, outcome, proxmox>>

\* the handler raises between two calls, where no `except Exception` is around
WatchdogEscapes ==
  /\ at \notin {"ended", "raised", "hung"}
  /\ Watchdog /\ ~fired /\ fired' = TRUE
  /\ Escape
  /\ UNCHANGED <<runner, outcome, proxmox, faults>>

\* where run_test waits for an answer of Proxmox (SSH, the VNC connection and
\* the vision model are asked with timeouts)
Waiting == at \in {"list", "delete", "snap", "rollback", "wait_ip", "cleanup"}

\* ProxmoxAPI makes its requests without a timeout, so one that is never
\* answered blocks the run for good, unless a SIGALRM is still to come, which
\* makes it raise (Exception)
Hang ==
  /\ Waiting
  /\ ~(Watchdog /\ ~fired)
  /\ faults < MaxFaults /\ faults' = faults + 1
  /\ Goto("hung")
  /\ UNCHANGED <<runner, outcome, proxmox, fired>>

\* _cleanup_snapshots: each delete on its own, its failure only logged
Cleanup ==
  /\ at = "cleanup"
  /\ Goto("ended")
  /\ \/ /\ opts.delete
        /\ \E kept \in SUBSET {n \in Names : \E k \in DOMAIN created : created[k] = n} :
             /\ snaps' = [n \in Names |-> [snaps[n] EXCEPT !.there =
                            @ /\ (n \in kept \/ \A k \in DOMAIN created : created[k] # n)]]
             /\ (kept = {} /\ Calm) \/ Exception
        /\ UNCHANGED <<disk, live>>
     \/ ~opts.delete /\ UNCHANGED proxmox /\ Calm
  /\ UNCHANGED <<runner, outcome>>

-----------------------------------------------------------------------------
\* earlier runs may have left snapshots, of some other state of the VM ({0})
Init ==
  /\ opts \in Options
  /\ at = "run" /\ index = 1 /\ attempt = 1
  /\ checkpoints = <<>> /\ created = <<>> /\ pending = <<>>
  /\ target = [name |-> CHOOSE n \in Names : TRUE, step |-> StartIndex, text |-> FALSE]
  /\ outcome = [i \in Steps |-> "none"]
  /\ verdict = "none"
  /\ disk = {} /\ live = {}
  /\ snaps \in [Names -> {[there |-> FALSE, of |-> {}], [there |-> TRUE, of |-> {0}]}]
  /\ fired = FALSE /\ faults = 0

Dispatch == \/ Checkpoint \/ IfVisible \/ VerifyRecorded \/ WaitFor \/ PollShell
            \/ Shell \/ Key \/ Launch \/ Ui
Snapshot == ListSnapshots \/ DeleteSnapshot \/ CreateSnapshot
Attempt  == \/ NoAttempt \/ Settled \/ Verified \/ ClickUnverified \/ OutOfBounds
            \/ Unverified \/ AppCrashed \/ AttemptRaises \/ AgentRaises
Failure  == PopCheckpoint \/ Fails \/ Rollback \/ WaitForIp

Next == Passes \/ Dispatch \/ Snapshot \/ Attempt \/ Failure \/ WatchdogEscapes \/ Hang \/ Cleanup

Spec == Init /\ [][Next]_vars

\* Python executes the next statement; a call to the VM, to Proxmox or to the
\* vision model returns, raises, or leaves the run in "hung".
FairSpec == Spec /\ WF_vars(Next)

-----------------------------------------------------------------------------
(* Properties.                                                             *)

Outcomes == {"none", "open", "ok", "failed", "deferred"}
Places   == {"run", "attempt", "list", "delete", "snap", "failing", "rollback", "wait_ip",
             "cleanup", "ended", "raised", "hung"}

TypeOK ==
  /\ opts \in Options
  /\ at \in Places
  /\ index \in 1..Total + 1
  /\ attempt = 1 \/ (index \in Steps /\ attempt \in 1..Retries[index])
  /\ checkpoints \in Seq(Entries)
  /\ target \in Entries
  /\ created \in Seq(Names)
  /\ pending \in Seq(Steps)
  /\ outcome \in [Steps -> Outcomes]
  /\ verdict \in {"none", "pass", "fail"}
  /\ disk \in SUBSET (0..Total) /\ live \in SUBSET (0..Total)
  /\ snaps \in [Names -> [there : BOOLEAN, of : SUBSET (0..Total)]]
  /\ fired \in BOOLEAN
  /\ faults \in 0..MaxFaults

Before(i) == {j \in 1..i - 1 : Acts(j)}

\* the place of a checkpoint in the scenario; 0 for the start of the run
Position(c) == c.step - StartIndex

\* Whenever the next step is about to run, after any number of rewinds, the
\* disk shows the effects of exactly the steps before it, nothing of an
\* abandoned attempt among them; and what lives in memory is exactly what was
\* done since the checkpoint last rewound to, as the snapshots leave it out.
Aligned ==
  at = "run" =>
    /\ disk = Before(index)
    /\ live = {j \in Before(index) : j > Position(target)}

\* A scenario that passes has no step whose last event is a failure, unless
\* an agent rescued it: every step that failed was run again.
PassIsClean == verdict = "pass" => \A i \in Steps \ Agents : outcome[i] # "failed"

\* A scenario that passes has queued each of its verify_recorded checks.
AllRecordedQueued ==
  verdict = "pass" =>
    \A i \in Steps : Scenario[i] = "recorded" => \E k \in DOMAIN pending : pending[k] = i

\* With retain = "delete" and nothing failing, a run that returns leaves none
\* of its snapshots on the VM, the ones it rewound to included.
NoLeftovers ==
  at = "ended" /\ opts.delete /\ faults = 0 /\ ~fired =>
    \A k \in DOMAIN created : ~snaps[created[k]].there

\* Aligned made inductive: the stack is in the order of the scenario and lies
\* behind the cursor, and each of its snapshots, while it is there, holds the
\* effects of the steps before it.
IsCheckpoint(c) ==
  /\ c.step > StartIndex
  /\ Position(c) < index
  /\ Scenario[Position(c)] = IF c.text THEN "nested" ELSE "checkpoint"
  /\ Snap[Position(c)] = c.name

StackInv ==
  /\ \A k \in DOMAIN checkpoints :
       /\ IsCheckpoint(checkpoints[k])
       /\ snaps[checkpoints[k].name].of = Before(Position(checkpoints[k]))
  /\ \A k, l \in DOMAIN checkpoints : k < l => checkpoints[k].step < checkpoints[l].step

CursorInv ==
  /\ at \in {"run", "list", "delete", "snap"} => disk = Before(index)
  /\ at \in {"list", "delete", "snap"} =>
       index \in Steps /\ Scenario[index] \in {"checkpoint", "nested"}
  /\ at = "attempt" =>
       /\ index \in Steps /\ Acts(index)
       /\ disk \in {Before(index), Before(index + 1)}
       /\ Scenario[index] # "ui" => disk = Before(index + 1)
  /\ at \in {"rollback", "wait_ip"} =>
       /\ IsCheckpoint(target)
       /\ \A k \in DOMAIN checkpoints : checkpoints[k].step < target.step
  /\ at = "rollback" => snaps[target.name].of = Before(Position(target))
  /\ at = "wait_ip" => disk = Before(Position(target))

LiveInv ==
  /\ at \in {"run", "attempt", "list", "delete", "snap"} =>
       /\ Position(target) < index
       /\ live = {j \in disk : j > Position(target)}
  /\ at = "wait_ip" => live = {}

RewindInv == StackInv /\ CursorInv

\* PassIsClean and AllRecordedQueued made inductive: every step behind the
\* cursor is settled, and a rewind only moves the cursor back.
Queued(i) == \E k \in DOMAIN pending : pending[k] = i

IsSettled(i) == /\ i \notin Agents => outcome[i] # "failed"
                /\ Scenario[i] = "recorded" => Queued(i)

BehindInv ==
  /\ \A k \in DOMAIN checkpoints : Position(checkpoints[k]) < index
  /\ \A k, l \in DOMAIN checkpoints : k < l => checkpoints[k].step < checkpoints[l].step
  /\ at \in {"rollback", "wait_ip"} =>
       /\ Position(target) < index
       /\ \A k \in DOMAIN checkpoints : checkpoints[k].step < target.step

SettledInv ==
  /\ \A i \in 1..index - 1 : IsSettled(i)
  /\ \A i \in Steps : outcome[i] = "failed" => Scenario[i] \notin {"checkpoint", "nested", "recorded"}
  /\ at = "attempt" => Acts(index) /\ outcome[index] = "open"
  /\ at \in {"list", "delete", "snap"} => Scenario[index] \in {"checkpoint", "nested"}
  /\ verdict = "pass" => at \in {"cleanup", "ended", "raised", "hung"} /\ index = Total + 1

\* A run ends, though every failure may send it back: each rewind uses up a
\* checkpoint, and only later ones can be made again.  What may keep it from
\* its end is a request that Proxmox never answers.
Ends == <>(at \in {"ended", "raised", "hung"})

\* run_test returns a verdict unless a call failed, the watchdog came, or a
\* rewind met a checkpoint of an if_visible step (its `text + 1` raises).
OnlyFailuresEscape == at = "raised" => faults > 0 \/ fired \/ target.text

\* "wall-clock watchdog - abort with exit 5 if scenario exceeds N seconds"
\* (commands/parser.py:138): once it fired, no further step starts.
WatchdogAborts == [][fired => index' = index]_vars
=============================================================================
