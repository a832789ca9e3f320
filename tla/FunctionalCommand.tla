------------------------- MODULE FunctionalCommand -------------------------
(***************************************************************************)
(* The command mosdat functional: cmd_functional (src/automation/main.py), *)
(* from its checks over the loop over the VMs, with the recording, the     *)
(* drivers, the watchdog and the finally clause of each VM, to the exit    *)
(* code.  The scenario run itself is abstracted to what its end depends    *)
(* on here (FunctionalRun has it in full): steps that start, act, look at  *)
(* the screen, perhaps rewind once, and pass, fail or raise.               *)
(***************************************************************************)
EXTENDS SessionRecorder, DeferredVerify

CONSTANTS FVMs,        \* number of VMs given with --vms
          FSteps,      \* number of steps of the scenario
          Label,       \* step -> its label
          Deferred     \* verify_recorded steps -> their windows

ASSUME FunctionalCommandAssumption ==
  /\ FVMs \in Nat \ {0} /\ FSteps \in Nat \ {0}
  /\ DOMAIN Deferred \subseteq 1..FSteps /\ DOMAIN Label = 1..FSteps

VARIABLES
  record,   \* --record-session
  from,     \* --from-step
  alarm,    \* the watchdog: "off", "armed", or "fired"
  vm,       \* the VM of the loop, by its position
  step,     \* the step of the run
  rewound,  \* has the run gone back to its checkpoint?
  events,   \* events.jsonl of the VM
  driver,   \* is _ssh_atspi bound (perhaps to the one of an earlier VM)?
  runner,   \* is runner bound for this VM?
  queue,    \* _pending_recorded_verifies, as steps
  passed,   \* for this VM
  overall,  \* for all
  leave,    \* how the try block of the VM is left
  ran,      \* VMs whose run passed (ghost)
  owed,     \* deferred checks queued that no frame has answered with yes (ghost)
  foreign   \* a frame of an earlier session has answered one (ghost)

loop    == <<record, from, alarm, vm>>
run     == <<step, rewound, events, queue>>
setup   == <<driver, runner>>
verdict == <<passed, overall, leave>>
ghosts  == <<ran, owed, foreign>>
commandVars == <<loop, run, setup, verdict, ghosts>>
fVars   == <<commandVars, recorder, screen>>

FInit ==
  /\ record = FALSE /\ from = 1 /\ alarm = "off" /\ vm = 1 /\ step = 1 /\ rewound = FALSE
  /\ events = <<>> /\ driver = FALSE /\ runner = FALSE /\ queue = <<>>
  /\ passed = TRUE /\ overall = TRUE /\ leave = "no" /\ ran = {} /\ owed = 0 /\ foreign = FALSE
  /\ thread = "none" /\ mine = NoFrame /\ frame_id = 0 /\ stopping = FALSE /\ attached = FALSE
  /\ slot = NoFrame /\ filtered = <<>> /\ raw = NoFiles /\ index = NoFiles
  /\ clock = 1 /\ wire = <<>> /\ lock = "free" /\ asked = 0 /\ got = NoFrame /\ before = 0 /\ stalled = FALSE

\* the calls of the main thread that leave the recording alone
Alone == UNCHANGED <<recorder, screen>>

-----------------------------------------------------------------------------
(* before the loop *)

StartFunctional ==
  /\ At("main") /\ Goto("f.check")
  /\ record' \in BOOLEAN /\ from' \in 1..FSteps
  /\ UNCHANGED <<faults, alarm, vm, run, setup, verdict, ghosts>> /\ Alone

\* unknown VM or test, --var, phases, bounds, password: 1; workspace: 2; model: 3
Refusals == {1, 2, 3}
NeedsRecording == ~record /\ DOMAIN Deferred # {}
Refuse == /\ At("f.check")
          /\ \/ \E c \in Refusals : Exit(c)
             \/ NeedsRecording /\ Exit(1)
          /\ UNCHANGED <<faults, commandVars>> /\ Alone
\* signal.alarm(args.timeout)
Accept == /\ At("f.check") /\ ~NeedsRecording /\ Goto("f.vm")
          /\ alarm' = "armed"
          /\ UNCHANGED <<faults, record, from, vm, run, setup, verdict, ghosts>> /\ Alone

-----------------------------------------------------------------------------
(* one VM, up to its run *)

\* the steps are loaded again for its platform, VncClient opens, every local
\* name but _ssh_atspi is set anew
EnterVM == /\ At("f.vm") /\ vm <= FVMs /\ Fine
           /\ Goto(IF record THEN "f.record" ELSE "f.drivers")
           /\ \E old \in BOOLEAN :
                /\ NewRecording(old)
                /\ events' = IF old THEN [i \in 1..FSteps |->
                                            [event |-> "step_start", step |-> i, label |-> Label[i], ts |-> 0]]
                                    ELSE <<>>
           /\ passed' = TRUE /\ runner' = FALSE /\ leave' = "no"
           /\ step' = from /\ rewound' = FALSE /\ queue' = <<>>
           /\ UNCHANGED <<clock, loop, driver, overall, ghosts>>
EnterFails == At("f.vm") /\ vm <= FVMs /\ Fault /\ Raise /\ UNCHANGED commandVars /\ Alone

StartRecorder == /\ At("f.record") /\ Fine /\ start /\ Goto("f.drivers") /\ UNCHANGED commandVars
\* the disk is full, for instance
StartFails    == /\ At("f.record") /\ Fault /\ Goto("f.finally") /\ leave' = "raise"
                 /\ UNCHANGED <<loop, run, setup, passed, overall, ghosts>> /\ Alone

\* mutant: the events of an earlier run stay
Drivers_keeping == /\ At("f.drivers") /\ Goto("f.inject")
                   /\ driver' = TRUE /\ runner' = TRUE
                   /\ UNCHANGED <<faults, loop, step, rewound, events, queue, verdict, ghosts>> /\ Alone

\* SSHClient, AtspiClient or UiaClient, and a FunctionalRunner, which deletes
\* the events of an earlier run in the same directory
Drivers == /\ At("f.drivers") /\ Goto("f.inject")
           /\ driver' = TRUE /\ runner' = TRUE /\ events' = <<>>
           /\ UNCHANGED <<faults, loop, step, rewound, queue, verdict, ghosts>> /\ Alone

\* --inject-config, --inject-servers
Inject == /\ At("f.inject")
          /\ \/ Fine /\ Goto("f.probe") /\ UNCHANGED leave
             \/ Fault /\ Goto("f.finally") /\ leave' = "return 4"
          /\ UNCHANGED <<loop, run, setup, passed, overall, ghosts>> /\ Alone

\* mutant: a VM that stays unhealthy is passed over
Probe_passed_over == /\ At("f.probe")
                     /\ \/ Fine /\ Goto("f.step") /\ UNCHANGED leave
                        \/ Fault /\ Goto("f.finally") /\ leave' = "continue"
                     /\ UNCHANGED <<loop, run, setup, passed, overall, ghosts>> /\ Alone

\* _probe_vm_health, reset_vm and the second probe
Probe == /\ At("f.probe")
         /\ \/ Fine /\ Goto("f.step") /\ UNCHANGED <<overall, leave>>
            \/ Fault /\ Goto("f.finally") /\ overall' = FALSE /\ leave' = "continue"
            \/ Fault /\ Goto("f.finally") /\ leave' = "raise" /\ UNCHANGED overall
         /\ UNCHANGED <<loop, run, setup, passed, ghosts>> /\ Alone

-----------------------------------------------------------------------------
(* run_test, abstracted *)

StepStart ==
  /\ At("f.step") /\ step <= FSteps
  /\ clock' = clock + 1
  /\ events' = Append(events, [event |-> "step_start", step |-> step, label |-> Label[step], ts |-> clock'])
  /\ IF step \in DOMAIN Deferred
     THEN /\ queue' = Append(queue, step) /\ owed' = owed + 1
          /\ step' = step + 1 /\ Goto("f.step")
     ELSE Goto("f.look") /\ UNCHANGED <<queue, owed, step>>
  /\ UNCHANGED <<faults, wire, lock, attached, slot, asked, got, before, stalled, recorder,
                 loop, rewound, setup, verdict, ran, foreign>>

StepLooks == At("f.look") /\ Look /\ UNCHANGED commandVars
Capture   == /\ \/ BusDelivers("f.seen") \/ BusTimesOut \/ DirectAsks
                \/ DirectDone("f.seen") \/ DirectLost("f.seen")
             /\ UNCHANGED commandVars

\* run_test is left: its local variables are gone
LeaveRun == Goto("f.finally") /\ step' = 1 /\ rewound' = FALSE /\ Seen(FALSE)

StepEnds == /\ At("f.seen") /\ UNCHANGED <<faults, loop, events, queue, setup, overall, owed, foreign>>
            /\ \/ step' = step + 1 /\ Goto("f.step") /\ Seen(TRUE) /\ UNCHANGED <<rewound, passed, leave, ran>>
               \* to the first step of the slice, where the checkpoint is
               \/ /\ ~rewound /\ rewound' = TRUE /\ step' = from /\ Goto("f.step") /\ Seen(TRUE)
                  /\ UNCHANGED <<passed, leave, ran>>
               \/ LeaveRun /\ passed' = FALSE /\ UNCHANGED <<leave, ran>>
               \/ LeaveRun /\ leave' = "raise" /\ UNCHANGED <<passed, ran>>

\* run_test returns; the report that follows catches everything
RunPasses == /\ At("f.step") /\ step > FSteps /\ LeaveRun /\ ran' = ran \cup {vm}
             /\ UNCHANGED <<faults, loop, events, queue, setup, verdict, owed, foreign>>

-----------------------------------------------------------------------------
(* the finally clause *)

\* _ssh_atspi is not bound if the first recording could not start: UnboundLocalError
CloseDriver == /\ At("f.finally") /\ UNCHANGED <<faults, commandVars>>
               /\ \/ ~driver /\ Raise /\ Alone
                  \/ driver /\ ~record /\ Goto("f.verdict") /\ Alone
                  \* start raised for a later VM: the recorder is there, not _running
                  \/ driver /\ record /\ thread = "none" /\ Goto("f.filter") /\ Alone
                  \/ driver /\ record /\ thread # "none" /\ Goto("f.join") /\ SetStop
JoinThread == At("f.join") /\ _stop_capture /\ Goto("f.filter") /\ UNCHANGED <<faults, commandVars>>

\* a frame that the thread is still writing cannot be read: that escapes.  Then the
\* deferred checks, if there is a runner
Export == /\ At("f.filter") /\ UNCHANGED <<faults, commandVars>>
          /\ \/ /\ ~Unreadable /\ _filter_and_copy
                /\ Goto(IF runner /\ queue # <<>> THEN "f.deferred" ELSE "f.verdict")
             \/ Unreadable /\ Alone /\ Raise

\* resolve_pending_verifies: the first frame of the window for which the VLM says
\* yes; an endpoint that cannot be resolved ends it for all that are left
Check    == [from |-> Deferred[Head(queue)][1], to |-> Deferred[Head(queue)][2]]
Answer   == /\ At("f.deferred") /\ queue # <<>>
            /\ IF Resolved(Check, events)
               THEN /\ queue' = Tail(queue)
                    /\ \/ /\ passed' = FALSE /\ UNCHANGED <<owed, foreign>>
                       \/ \E i \in Candidates(Check, events, filtered) :
                            owed' = owed - 1 /\ foreign' = (foreign \/ ~filtered[i].own) /\ UNCHANGED passed
               ELSE queue' = <<>> /\ passed' = FALSE /\ UNCHANGED <<owed, foreign>>
            /\ Goto(IF queue' = <<>> THEN "f.verdict" ELSE "f.deferred")
            /\ UNCHANGED <<faults, loop, step, rewound, events, setup, overall, leave, ran>> /\ Alone

-----------------------------------------------------------------------------

Verdict ==
  /\ At("f.verdict")
  /\ CASE leave = "no"       -> overall' = (overall /\ passed) /\ vm' = vm + 1 /\ Goto("f.vm")
       [] leave = "continue" -> UNCHANGED overall /\ vm' = vm + 1 /\ Goto("f.vm")
       [] leave = "return 4" -> UNCHANGED <<overall, vm>> /\ Exit(4)
       [] leave = "raise"    -> UNCHANGED <<overall, vm>> /\ Raise
       [] OTHER              -> UNCHANGED <<overall, vm>> /\ Exit(5)   \* the watchdog
  \* the connection is closed and the recorder dropped; a thread that was not
  \* joined goes on with objects that nobody else has
  /\ NewRecording(FALSE) /\ clock' = 1 /\ events' = <<>> /\ queue' = <<>>
  /\ step' = 1 /\ rewound' = FALSE /\ runner' = FALSE /\ passed' = TRUE /\ leave' = "no"
  /\ UNCHANGED <<faults, record, from, alarm, driver, ghosts>>

Finish == /\ At("f.vm") /\ vm > FVMs /\ Exit(IF overall THEN 0 ELSE 1)
          /\ UNCHANGED <<faults, commandVars>> /\ Alone

\* RuntimeWatchdogTimeout: inside the try block the finally clause runs first; in
\* the clause itself the rest of it is abandoned; and any "except Exception" of the
\* run, of the clean-up or of the checks swallows it
InTry      == {"f.record", "f.drivers", "f.inject", "f.probe", "f.step", "f.look", "f.seen", "s.wait", "s.direct"}
InFinally  == {"f.vm", "f.join", "f.filter", "f.verdict"}
Swallowing == {"f.probe", "f.look", "f.seen", "s.wait", "s.direct"}
WatchdogFires ==
  /\ alarm = "armed" /\ alarm' = "fired" /\ Fault
  /\ \/ pc \in InTry /\ LeaveRun /\ leave' = "watchdog" /\ UNCHANGED passed
     \/ /\ UNCHANGED <<step, rewound>> /\ Alone
        /\ \/ pc \in InFinally /\ Exit(5) /\ UNCHANGED <<leave, passed>>
           \/ pc \in Swallowing /\ UNCHANGED <<pc, code, leave, passed>>
           \/ At("f.deferred") /\ Goto("f.verdict") /\ passed' = FALSE /\ UNCHANGED leave
  /\ UNCHANGED <<record, from, vm, events, queue, setup, overall, ghosts>>

\* vncproxy, reset_vm and ffmpeg are waited for without a timeout; so is Proxmox by
\* the checkpoints of the run
Unanswered == /\ pc \in {"f.vm", "f.probe", "f.seen", "f.filter"} /\ (At("f.vm") => vm <= FVMs)
              /\ Hangs /\ UNCHANGED commandVars /\ Alone

FMain == \/ Refuse \/ Accept \/ EnterVM \/ EnterFails \/ StartRecorder \/ StartFails \/ Drivers
         \/ Inject \/ Probe \/ StepStart \/ StepLooks \/ Capture \/ StepEnds \/ RunPasses
         \/ CloseDriver \/ JoinThread \/ Export \/ Answer
         \/ Verdict \/ Finish \/ Unanswered
\* daemon threads end with the process; of a command that hangs nothing more is said
FThread == pc \notin {"exited", "hung"} /\ _capture_loop /\ UNCHANGED commandVars
FNext   == FMain \/ WatchdogFires \/ FThread

-----------------------------------------------------------------------------
(* Properties *)

\* Exit code 0 says that the scenario passed on every VM, and that every
\* verify_recorded check that the run queued found its frame.
HonestExit == At("exited") /\ code = 0 /\ alarm # "off" =>
                ran = 1..FVMs /\ owed = 0

\* A frame that answers a deferred check is one of this session's, also when an
\* earlier session left frames and events in the same directory.
OwnFramesAnswer == ~foreign

\* Of two frames that the runner takes one after the other, the second shows the
\* screen as it was when the first was asked for, or later: a comparison of the
\* two (wait_for_stable) never rests on two old pictures.  Two things are excused: a
\* reply that came after its capture had given up may be taken for a later one; and a
\* capture thread that is held up, after it released the lock and before it reads the
\* time, for as long as the runner takes for a whole capture of its own, gives its old
\* picture the new time.
SecondFrameFresh == At("f.seen") /\ faults = 0 /\ ~stalled => got.since >= before
=============================================================================
