---------------------- MODULE FunctionalCommandProofs ----------------------
(***************************************************************************)
(* mosdat functional on its own, from the scenario it loads to its exit    *)
(* code: the invariants behind its properties, that its steps keep them,   *)
(* and what the loader's operators on lists of items do.                   *)
(***************************************************************************)
EXTENDS ScenarioLoader, FunctionalCommand, FiniteSetTheorems, SequenceTheorems, WellFoundedInduction, TLAPS

FLabels == {"f.check", "f.vm", "f.record", "f.drivers", "f.inject", "f.probe", "f.step", "f.look", "f.seen",
            "s.wait", "s.direct", "s.read", "f.finally", "f.join", "f.filter", "f.deferred", "f.verdict"}

-----------------------------------------------------------------------------
(* The exit code *)

RunLabels   == {"f.step", "f.look", "f.seen", "s.wait", "s.direct", "s.read"}
AfterLabels == {"f.finally", "f.join", "f.filter", "f.deferred", "f.verdict"}

\* while nothing went wrong, the VMs so far have passed and what is owed is in the queue
SoFarGood ==
  /\ 1..(vm - 1) \subseteq ran
  /\ passed /\ leave = "no" =>
       /\ owed = Len(queue)
       /\ pc \in AfterLabels => vm \in ran
       /\ pc = "f.verdict" => queue = <<>>
Known ==
  /\ vm \in Nat \ {0} /\ owed \in Int /\ queue \in Seq(Nat) /\ ran \subseteq 1..FVMs
  /\ passed \in BOOLEAN /\ overall \in BOOLEAN
  /\ leave = "continue" => ~overall
  /\ queue # <<>> => runner /\ DOMAIN Deferred # {}
Outside == /\ pc \notin FLabels \ {"f.check"}
           /\ vm = 1 /\ ran = {} /\ owed = 0 /\ queue = <<>> /\ passed /\ leave = "no"
Inside  == /\ pc \in FLabels \ {"f.check"} /\ ~NeedsRecording /\ (overall => SoFarGood)
           /\ IF pc = "f.vm" THEN vm <= FVMs + 1 /\ passed /\ leave = "no" /\ queue = <<>> ELSE vm <= FVMs
           /\ pc \in RunLabels \cup {"f.inject", "f.probe"} => runner
HonestInv == /\ Known /\ HonestExit
             /\ \/ alarm = "off" /\ Outside
                \/ alarm # "off" /\ (Inside \/ pc \in {"exited", "hung"})

LEMMA HonestAside ==
  ASSUME HonestInv, UNCHANGED fVars,
         \/ UNCHANGED <<pc, code>>
         \/ pc \notin FLabels \cup {"exited", "hung"} /\ pc' \notin FLabels \cup {"main"}
  PROVE  HonestInv'
<1>1. UNCHANGED <<record, alarm, vm, queue, runner, passed, overall, leave, ran, owed>>
  BY DEF fVars, commandVars, loop, run, setup, verdict, ghosts
<1>2. CASE UNCHANGED <<pc, code>>
  BY <1>1, <1>2 DEF HonestInv, Known, Outside, Inside, SoFarGood, HonestExit, NeedsRecording, At
<1>3. CASE pc \notin FLabels \cup {"exited", "hung"} /\ pc' \notin FLabels
  BY <1>1, <1>3 DEF HonestInv, HonestExit, Known, Outside, Inside
<1> QED
  BY <1>2, <1>3

\* inside the loop over the VMs
LEMMA HonestInside ==
  ASSUME Known, Inside, alarm # "off", FNext
  PROVE  HonestInv'
<1> USE FunctionalCommandAssumption
<1> USE DEF loop, run, setup, verdict, ghosts, commandVars, At, Goto, Exit, Raise
<1> DEFINE Honest == <<record, alarm, vm, queue, runner, passed, overall, leave, ran, owed>>
<1>0. "exited" \notin FLabels /\ "hung" \notin FLabels
  BY DEF FLabels
<1>1. ASSUME UNCHANGED alarm, pc' = "exited", code' # 0, UNCHANGED Honest
      PROVE  HonestInv'
  BY <1>1 DEF HonestInv, HonestExit, Known
<1>2. ASSUME UNCHANGED Honest, pc' \in FLabels \ {"f.check", "f.vm", "f.verdict"}, pc # "f.vm",
             pc' \in AfterLabels => pc \in AfterLabels,
             pc' \in RunLabels \cup {"f.inject", "f.probe"} => pc \in RunLabels \cup {"f.inject", "f.probe"}
      PROVE  HonestInv'
  BY <1>0, <1>2 DEF HonestInv, HonestExit, Known, Inside, NeedsRecording, SoFarGood
<1>3. ASSUME UNCHANGED <<Honest, pc, code>>
      PROVE  HonestInv'
  BY <1>0, <1>3 DEF HonestInv, HonestExit, Known, Inside, NeedsRecording, SoFarGood
<1>4. ASSUME UNCHANGED <<record, alarm>>, Known', pc' \in FLabels \ {"f.check"}, overall' => SoFarGood',
             IF pc' = "f.vm" THEN vm' <= FVMs + 1 /\ passed' /\ leave' = "no" /\ queue' = <<>> ELSE vm' <= FVMs,
             pc' \in RunLabels \cup {"f.inject", "f.probe"} => runner'
      PROVE  HonestInv'
  BY <1>0, <1>4 DEF HonestInv, HonestExit, Inside, NeedsRecording
<1> HIDE DEF Honest
<1>5. CASE FThread
  <2>1. UNCHANGED <<pc, code>>
    BY <1>5 DEF FThread, _capture_loop, CaptureTick, CaptureLost, CaptureDone, FrameStamped, FrameKept, CaptureEnds, ThreadFrame
  <2> QED
    BY <1>3, <1>5, <2>1 DEF FThread, Honest
<1>6. CASE StepLooks \/ Capture
  <2>1. UNCHANGED Honest /\ pc \in RunLabels /\ pc' \in RunLabels
    BY <1>6 DEF StepLooks, Look, Capture, BusDelivers, BusTimesOut, DirectAsks, DirectDone, DirectLost, RunLabels, Honest
  <2> QED
    BY <1>2, <2>1 DEF RunLabels, FLabels, AfterLabels
<1>7. CASE EnterVM
  <2>1. /\ vm <= FVMs /\ pc = "f.vm" /\ pc' \in {"f.record", "f.drivers"} /\ passed' = TRUE /\ leave' = "no" /\ queue' = <<>>
        /\ UNCHANGED <<record, alarm, vm, overall, ran, owed>>
    BY <1>7 DEF EnterVM
  <2>2. Known'
    BY <2>1 DEF Known
  <2>3. overall' => SoFarGood'
    BY <2>1 DEF Inside, SoFarGood, AfterLabels
  <2>4. pc' \in FLabels \ {"f.check"} /\ pc' # "f.vm" /\ pc' \notin RunLabels \cup {"f.inject", "f.probe"}
    BY <2>1 DEF FLabels, RunLabels
  <2> QED
    BY <1>4, <2>1, <2>2, <2>3, <2>4
<1>8. CASE EnterFails \/ Finish
  <2>1. pc = "f.vm" /\ pc' = "exited" /\ UNCHANGED Honest /\ (code' = 0 => overall /\ vm > FVMs)
    BY <1>8 DEF EnterFails, Finish, Honest
  <2>2. ASSUME overall, vm > FVMs PROVE ran = 1..FVMs /\ owed = 0
    <3>1. SoFarGood /\ vm <= FVMs + 1 /\ vm \in Nat /\ passed /\ leave = "no" /\ queue = <<>> /\ ran \subseteq 1..FVMs
      BY <2>1, <2>2 DEF Inside, Known
    <3>2. vm - 1 = FVMs
      BY <2>2, <3>1
    <3> QED
      BY <3>1, <3>2 DEF SoFarGood
  <2> QED
    BY <2>1, <2>2 DEF HonestInv, HonestExit, Known, Honest
<1>9. CASE StartRecorder \/ Drivers
  <2>1. /\ pc \in {"f.record", "f.drivers"} /\ pc' \in {"f.drivers", "f.inject"} /\ (pc' = "f.inject" => runner')
        /\ UNCHANGED <<record, alarm, vm, queue, passed, overall, leave, ran, owed>> /\ (runner => runner')
    BY <1>9 DEF StartRecorder, Drivers
  <2>2. Known' /\ (overall' => SoFarGood')
    BY <2>1 DEF Known, Inside, SoFarGood, AfterLabels
  <2>3. pc' \in FLabels \ {"f.check"} /\ pc' # "f.vm" /\ pc' \notin RunLabels \cup {"f.probe"} /\ vm' <= FVMs
    BY <2>1 DEF FLabels, RunLabels, Inside
  <2> QED
    BY <1>4, <2>1, <2>2, <2>3
<1>10. CASE Inject \/ Probe \/ StartFails
  <2>1. /\ pc \in {"f.record", "f.inject", "f.probe"} /\ pc' \in {"f.probe", "f.step", "f.finally"}
        /\ UNCHANGED <<record, alarm, vm, queue, passed, runner, ran, owed>>
        /\ (overall' => overall) /\ overall' \in BOOLEAN
        /\ IF pc' = "f.finally" THEN leave' # "no" /\ (leave' = "continue" => ~overall') ELSE UNCHANGED <<leave, overall>>
        /\ pc' # "f.finally" => pc \in {"f.inject", "f.probe"}
    <3>1. CASE Inject
      BY <1>10, <3>1 DEF Inject, Known
    <3>2. CASE Probe
      <4>1. /\ pc = "f.probe" /\ UNCHANGED <<record, alarm, vm, queue, passed, runner, ran, owed>>
            /\ \/ pc' = "f.step" /\ UNCHANGED <<overall, leave>>
               \/ pc' = "f.finally" /\ overall' = FALSE /\ leave' = "continue"
               \/ pc' = "f.finally" /\ leave' = "raise" /\ UNCHANGED overall
        BY <3>2 DEF Probe
      <4>2. (overall' => overall) /\ overall' \in BOOLEAN
        <5>1. overall \in BOOLEAN
          BY DEF Known
        <5>2. overall' => overall
          BY <4>1, <5>1
        <5>3. overall' = FALSE \/ overall' = overall
          BY <4>1
        <5> QED
          BY <5>1, <5>2, <5>3
      <4>3. pc' = "f.finally" => leave' # "no" /\ (leave' = "continue" => ~overall')
        BY <4>1
      <4>4. pc' # "f.finally" => UNCHANGED <<leave, overall>>
        BY <4>1
      <4> QED
        BY <4>1, <4>2, <4>3, <4>4
    <3>3. CASE StartFails
      BY <1>10, <3>3 DEF StartFails, Known
    <3> QED
      BY <1>10, <3>1, <3>2, <3>3
  <2>2. Known' /\ (overall' => SoFarGood')
    BY <2>1 DEF Known, Inside, SoFarGood, AfterLabels
  <2>3. pc' \in FLabels \ {"f.check"} /\ pc' # "f.vm" /\ vm' <= FVMs
        /\ (pc' \in RunLabels \cup {"f.inject", "f.probe"} => runner')
    BY <2>1 DEF FLabels, RunLabels, Inside
  <2> QED
    BY <1>4, <2>1, <2>2, <2>3
<1>11. CASE StepStart
  <2>1. /\ pc = "f.step" /\ pc' \in {"f.step", "f.look"} /\ UNCHANGED <<record, alarm, vm, runner, passed, overall, leave, ran>>
        /\ \/ UNCHANGED <<queue, owed>>
           \/ queue' = Append(queue, step) /\ owed' = owed + 1 /\ step \in DOMAIN Deferred
    BY <1>11 DEF StepStart
  <2>2. queue' \in Seq(Nat) /\ (owed = Len(queue) => owed' = Len(queue')) /\ owed' \in Int
    <3>1. queue \in Seq(Nat) /\ owed \in Int /\ (step \in DOMAIN Deferred => step \in Nat)
      BY DEF Known
    <3>2. CASE step \in DOMAIN Deferred /\ queue' = Append(queue, step) /\ owed' = owed + 1
      BY <3>1, <3>2
    <3> QED
      BY <2>1, <3>1, <3>2
  <2>3. Known'
    BY <2>1, <2>2 DEF Known, Inside, RunLabels
  <2>4. overall' => SoFarGood'
    BY <2>1, <2>2 DEF Inside, SoFarGood, AfterLabels
  <2>5. pc' \in FLabels \ {"f.check"} /\ pc' # "f.vm" /\ vm' <= FVMs /\ runner'
    BY <2>1 DEF FLabels, RunLabels, Inside
  <2> QED
    BY <1>4, <2>1, <2>3, <2>4, <2>5
<1>12. CASE StepEnds \/ RunPasses
  <2>1. /\ pc \in {"f.step", "f.seen"} /\ pc' \in {"f.step", "f.finally"}
        /\ UNCHANGED <<record, alarm, vm, queue, runner, overall, owed>>
        /\ \/ pc' = "f.step" /\ UNCHANGED <<passed, leave, ran>>
           \/ pc' = "f.finally" /\ passed' = FALSE /\ UNCHANGED <<leave, ran>>
           \/ pc' = "f.finally" /\ leave' = "raise" /\ UNCHANGED <<passed, ran>>
           \/ pc' = "f.finally" /\ ran' = ran \cup {vm} /\ UNCHANGED <<passed, leave>>
    BY <1>12 DEF StepEnds, RunPasses, LeaveRun
  <2>2. vm <= FVMs
    BY <2>1 DEF Inside
  <2>3. Known'
    <3>1. ran' \subseteq 1..FVMs
      <4>1. vm \in 1..FVMs /\ ran \subseteq 1..FVMs
        BY <2>2 DEF Known
      <4>2. ran' \in {ran, ran \cup {vm}}
        BY <2>1
      <4> QED
        BY <4>1, <4>2
    <3>2. passed' \in BOOLEAN /\ (leave' = "continue" => ~overall')
      BY <2>1 DEF Known
    <3> QED
      BY <2>1, <3>1, <3>2 DEF Known
  <2>4. overall' => SoFarGood'
    BY <2>1 DEF Inside, SoFarGood, AfterLabels
  <2>5. pc' \in FLabels \ {"f.check"} /\ pc' # "f.vm" /\ runner'
    BY <2>1 DEF FLabels, RunLabels, Inside
  <2> QED
    BY <1>4, <2>1, <2>2, <2>3, <2>4, <2>5
<1>13. CASE CloseDriver \/ JoinThread \/ Export
  <2>1. /\ UNCHANGED Honest /\ pc \in {"f.finally", "f.join", "f.filter"}
        /\ \/ pc' = "exited" /\ code' = 1
           \/ pc' \in {"f.filter", "f.join", "f.deferred"}
           \/ pc' = "f.verdict" /\ (~record \/ ~runner \/ queue = <<>>)
    BY <1>13 DEF CloseDriver, JoinThread, Export, Honest
  <2>2. CASE pc' = "exited" /\ code' = 1
    BY <1>1, <2>1, <2>2 DEF Honest
  <2>3. CASE pc' \in {"f.filter", "f.join", "f.deferred"}
    BY <1>2, <2>1, <2>3 DEF FLabels, RunLabels, AfterLabels
  <2>4. CASE pc' = "f.verdict" /\ (~record \/ ~runner \/ queue = <<>>)
    <3>1. queue = <<>>
      BY <2>4 DEF Known, Inside, NeedsRecording
    <3>2. Known' /\ (overall' => SoFarGood')
      BY <2>1, <2>4, <3>1 DEF Known, Inside, SoFarGood, AfterLabels, Honest
    <3>3. pc' \in FLabels \ {"f.check"} /\ pc' # "f.vm" /\ vm' <= FVMs /\ pc' \notin RunLabels \cup {"f.inject", "f.probe"}
      BY <2>1, <2>4 DEF FLabels, RunLabels, Inside, Honest
    <3> QED
      BY <1>4, <2>1, <3>2, <3>3 DEF Honest
  <2> QED
    BY <2>1, <2>2, <2>3, <2>4
<1>14. CASE Answer
  <2>1. /\ pc = "f.deferred" /\ queue # <<>> /\ UNCHANGED <<record, alarm, vm, runner, overall, leave, ran>>
        /\ pc' = IF queue' = <<>> THEN "f.verdict" ELSE "f.deferred"
        /\ \/ queue' \in {Tail(queue), <<>>} /\ passed' = FALSE /\ UNCHANGED owed
           \/ queue' = Tail(queue) /\ owed' = owed - 1 /\ UNCHANGED passed
    BY <1>14 DEF Answer
  <2>2. queue' \in Seq(Nat) /\ owed' \in Int /\ (passed' /\ owed = Len(queue) => owed' = Len(queue'))
    <3>1. queue \in Seq(Nat) /\ owed \in Int /\ Tail(queue) \in Seq(Nat) /\ Len(Tail(queue)) = Len(queue) - 1
          /\ Len(queue) \in Nat
      BY <2>1 DEF Known
    <3>2. <<>> \in Seq(Nat)
      OBVIOUS
    <3>3. CASE queue' \in {Tail(queue), <<>>} /\ passed' = FALSE /\ UNCHANGED owed
      BY <3>1, <3>2, <3>3
    <3>4. CASE queue' = Tail(queue) /\ owed' = owed - 1 /\ UNCHANGED passed
      <4> HIDE DEF Known
      <4>1. queue' \in Seq(Nat) /\ owed' \in Int /\ (owed = Len(queue) => owed' = Len(queue'))
        <5>1. queue' = Tail(queue) /\ owed' = owed - 1
          BY <3>4
        <5>2. queue' \in Seq(Nat)
          BY <3>1, <5>1
        <5>3. owed' \in Int
          BY <3>1, <5>1
        <5>4. owed = Len(queue) => owed' = Len(queue')
          BY <3>1, <5>1
        <5> QED
          BY <5>2, <5>3, <5>4
      <4> QED
        BY <4>1, Zenon
    <3> QED
      BY <2>1, <3>3, <3>4
  <2>3. Known'
    BY <2>1, <2>2 DEF Known, Inside
  <2>4. overall' => SoFarGood'
    BY <2>1, <2>2 DEF Known, Inside, SoFarGood, AfterLabels
  <2>5. pc' \in FLabels \ {"f.check"} /\ pc' # "f.vm" /\ vm' <= FVMs /\ pc' \notin RunLabels \cup {"f.inject", "f.probe"}
    BY <2>1 DEF FLabels, RunLabels, Inside
  <2> QED
    BY <1>4, <2>1, <2>3, <2>4, <2>5
<1>15. CASE Verdict
  <2>1. /\ pc = "f.verdict" /\ UNCHANGED <<record, alarm, ran, owed>> /\ passed' = TRUE /\ queue' = <<>> /\ leave' = "no"
        /\ \/ leave = "no" /\ overall' = (overall /\ passed) /\ vm' = vm + 1 /\ pc' = "f.vm"
           \/ leave = "continue" /\ UNCHANGED overall /\ vm' = vm + 1 /\ pc' = "f.vm"
           \/ UNCHANGED <<overall, vm>> /\ pc' = "exited" /\ code' # 0
    <3>1. /\ pc = "f.verdict" /\ UNCHANGED <<record, alarm, ran, owed>> /\ passed' = TRUE /\ queue' = <<>> /\ leave' = "no"
      BY <1>15 DEF Verdict
    <3>2. CASE leave = "no"
      BY <1>15, <3>2 DEF Verdict
    <3>3. CASE leave = "continue"
      BY <1>15, <3>3 DEF Verdict
    <3>4. CASE leave \notin {"no", "continue"}
      <4>1. UNCHANGED <<overall, vm>> /\ (Exit(4) \/ Exit(1) \/ Exit(5))
        BY <1>15, <3>4 DEF Verdict
      <4> QED
        BY <3>1, <4>1
    <3> QED
      BY <3>1, <3>2, <3>3, <3>4
  <2>2. vm \in Nat \ {0} /\ vm <= FVMs /\ ran \subseteq 1..FVMs
    BY <2>1 DEF Known, Inside
  <2>3. Known'
    BY <2>1, <2>2 DEF Known
  <2>4. CASE pc' = "exited" /\ code' # 0
    BY <2>1, <2>3, <2>4 DEF HonestInv, HonestExit
  <2>5. CASE pc' = "f.vm"
    <3>1. ASSUME overall' PROVE SoFarGood'
      <4>1. overall /\ leave = "no" /\ passed /\ vm' = vm + 1
        BY <2>1, <2>5, <3>1 DEF Known
      <4>2. SoFarGood
        BY <4>1 DEF Inside
      <4>3. 1..(vm - 1) \subseteq ran /\ vm \in ran /\ owed = 0
        BY <2>1, <4>1, <4>2 DEF SoFarGood, AfterLabels
      <4>4. 1..(vm' - 1) \subseteq ran
        BY <2>2, <4>1, <4>3
      <4> QED
        BY <2>1, <2>5, <4>3, <4>4 DEF SoFarGood, AfterLabels
    <3>2. pc' \in FLabels \ {"f.check"} /\ vm' <= FVMs + 1 /\ pc' \notin RunLabels \cup {"f.inject", "f.probe"}
      BY <2>1, <2>2, <2>5 DEF FLabels, RunLabels
    <3> QED
      BY <1>4, <2>1, <2>3, <2>5, <3>1, <3>2
  <2> QED
    BY <2>1, <2>4, <2>5
<1>16. CASE WatchdogFires
  <2>1. /\ alarm' = "fired" /\ UNCHANGED <<record, vm, queue, runner, overall, ran, owed>>
        /\ \/ pc # "f.vm" /\ pc' = "f.finally" /\ leave' = "watchdog" /\ UNCHANGED passed
           \/ pc' = "exited" /\ code' = 5 /\ UNCHANGED <<passed, leave>>
           \/ UNCHANGED <<pc, code, leave, passed>> /\ pc # "f.vm"
           \/ pc = "f.deferred" /\ pc' = "f.verdict" /\ passed' = FALSE /\ UNCHANGED leave
    BY <1>16 DEF WatchdogFires, InTry, InFinally, Swallowing, LeaveRun
  <2>2. Known'
    BY <2>1 DEF Known
  <2>3. CASE pc' = "exited" /\ code' = 5
    BY <2>1, <2>2, <2>3 DEF HonestInv, HonestExit
  <2>4. CASE pc' # "exited"
    <3>1. overall' => SoFarGood'
      BY <2>1, <2>4 DEF Inside, SoFarGood, AfterLabels
    <3>2. pc' \in FLabels \ {"f.check"} /\ pc' # "f.vm" /\ vm' <= FVMs
          /\ (pc' \in RunLabels \cup {"f.inject", "f.probe"} => runner')
      BY <2>1, <2>4 DEF FLabels, RunLabels, Inside
    <3> QED
      BY <1>0, <2>1, <2>2, <3>1, <3>2 DEF HonestInv, HonestExit, Inside, NeedsRecording
  <2>5. pc # "exited"
    BY <1>0 DEF Inside
  <2> QED
    BY <2>1, <2>3, <2>4, <2>5
<1>17. ~Refuse /\ ~Accept
  BY DEF Refuse, Accept, Inside
<1>18. CASE Unanswered
  <2>1. UNCHANGED Honest /\ pc' = "hung"
    BY <1>18 DEF Unanswered, Hangs, Honest
  <2> QED
    BY <1>0, <2>1 DEF HonestInv, HonestExit, Known, Honest
<1> QED
  BY <1>5, <1>6, <1>7, <1>8, <1>9, <1>10, <1>11, <1>12, <1>13, <1>14, <1>15, <1>16, <1>17, <1>18 DEF FNext, FMain

LEMMA HonestStep ==
  ASSUME HonestInv, StartFunctional \/ FNext
  PROVE  HonestInv'
<1> USE FunctionalCommandAssumption DEF loop, run, setup, verdict, ghosts, commandVars, At, Goto, Exit, Raise
<1>1. CASE Inside /\ alarm # "off" /\ FNext
  BY <1>1, HonestInside DEF HonestInv
<1>2. CASE Inside /\ alarm # "off" /\ StartFunctional
  BY <1>2 DEF Inside, FLabels, StartFunctional
<1>3. CASE pc \in {"exited", "hung"}
  BY <1>3 DEF StartFunctional, FNext, FMain, FThread, Refuse, Accept, EnterVM, EnterFails, StartRecorder, StartFails,
              Drivers, Inject, Probe, StepStart, StepLooks, Capture, BusDelivers, BusTimesOut, DirectAsks, DirectDone,
              DirectLost, StepEnds, RunPasses, CloseDriver, JoinThread, Export, Answer, Verdict, Finish, WatchdogFires,
              InTry, InFinally, Swallowing, Unanswered
<1>4. CASE alarm = "off" /\ Outside
  <2>1. StartFunctional \/ Refuse \/ Accept \/ FThread
    BY <1>4 DEF FNext, FMain, EnterVM, EnterFails, StartRecorder, StartFails, Drivers, Inject, Probe, StepStart, StepLooks,
                Capture, BusDelivers, BusTimesOut, DirectAsks, DirectDone, DirectLost, StepEnds, RunPasses, CloseDriver,
                JoinThread, Export, Answer, Verdict, Finish, WatchdogFires, Unanswered, Outside, FLabels
  <2>2. UNCHANGED <<vm, queue, runner, passed, overall, leave, ran, owed>>
    BY <2>1 DEF StartFunctional, Refuse, Accept, FThread
  <2>3. \/ UNCHANGED <<record, alarm, pc, code>>
        \/ UNCHANGED alarm /\ pc' \in {"f.check", "exited"}
        \/ UNCHANGED record /\ ~NeedsRecording /\ pc' = "f.vm" /\ alarm' = "armed"
    BY <2>1 DEF StartFunctional, Refuse, Accept, FThread, _capture_loop, CaptureTick, CaptureLost, CaptureDone, FrameStamped,
                FrameKept, CaptureEnds, ThreadFrame
  <2>4. Known'
    BY <2>2 DEF HonestInv, Known
  <2>5. CASE UNCHANGED <<record, alarm, pc, code>>
    BY <1>4, <2>2, <2>4, <2>5 DEF HonestInv, HonestExit, Outside
  <2>6. CASE UNCHANGED alarm /\ pc' \in {"f.check", "exited"}
    BY <1>4, <2>2, <2>4, <2>6 DEF HonestInv, HonestExit, Outside, FLabels
  <2>7. CASE UNCHANGED record /\ ~NeedsRecording /\ pc' = "f.vm" /\ alarm' = "armed"
    <3>1. SoFarGood'
      BY <1>4, <2>2, <2>7 DEF Outside, SoFarGood, AfterLabels
    <3>2. NeedsRecording' = NeedsRecording
      BY <2>7 DEF NeedsRecording
    <3>3. Inside'
      BY <1>4, <2>2, <2>7, <3>1, <3>2 DEF Outside, Inside, FLabels, RunLabels
    <3> QED
      BY <2>4, <2>7, <3>3 DEF HonestInv, HonestExit
  <2> QED
    BY <2>3, <2>5, <2>6, <2>7
<1> QED
  BY <1>1, <1>2, <1>3, <1>4 DEF HonestInv

-----------------------------------------------------------------------------
(* The frames that answer a deferred check *)

File  == [whole : BOOLEAN, own : BOOLEAN]
Event == [event : {"step_start"}, step : Nat \ {0}, label : {Label[n] : n \in 1..FSteps}, ts : Nat \ {0}]

\* only a frame of this session has a time after the start of the session
OwnTimes == \A n \in DOMAIN raw : raw[n].own \/ (n \in DOMAIN index => index[n] = 0)
Files ==
  /\ DOMAIN raw \subseteq 1..MaxFrames /\ raw \in [DOMAIN raw -> File]
  /\ \A n \in DOMAIN index : index[n] \in Nat
  /\ frame_id \in 0..MaxFrames
  /\ thread \in {"none", "tick", "asked", "grabbed", "saving", "ended"}
  /\ thread \in {"asked", "grabbed"} => frame_id < MaxFrames
  /\ thread = "saving" => frame_id \in DOMAIN raw /\ raw[frame_id].own
OwnFrames == \A i \in DOMAIN filtered : filtered[i].ts \in Nat /\ (filtered[i].own \/ filtered[i].ts = 0)
\* the runner has deleted the events of an earlier session
OwnEvents == /\ clock \in Nat \ {0} /\ step \in Nat \ {0} /\ from \in Nat \ {0}
             /\ runner => events \in Seq(Event)
             /\ pc = "f.deferred" => runner
OwnInv == Files /\ OwnTimes /\ OwnFrames /\ OwnEvents /\ ~foreign

\* A set of numbers has a least one: among the intervals from 1 to a number of it one
\* is smallest, by the well-founded order on finite sets.
LEMMA LeastOf ==
  ASSUME NEW T \in SUBSET Nat, T # {}
  PROVE  \E x \in T : \A y \in T : x <= y
<1> DEFINE Down == {1..n : n \in T}
<1>1. ASSUME NEW n \in T PROVE 1..n \in FiniteSubsetsOf(Nat)
  <2>1. IsFiniteSet(1..n)
    BY FS_Interval
  <2>2. 1..n \in SUBSET Nat
    OBVIOUS
  <2> QED
    BY <2>1, <2>2 DEF FiniteSubsetsOf
<1>2. Down \subseteq FiniteSubsetsOf(Nat) /\ Down # {}
  BY <1>1
<1>3. IsWellFoundedOn(StrictSubsetOrdering(Nat), FiniteSubsetsOf(Nat))
  BY FS_StrictSubsetOrderingWellFounded
<1> HIDE DEF Down
<1>4. \E d \in Down : \A e \in Down : ~ (<<e, d>> \in StrictSubsetOrdering(Nat))
  BY <1>2, <1>3, WFMin
<1> USE DEF Down
<1>5. PICK x \in T : \A y \in T : <<1..y, 1..x>> \notin StrictSubsetOrdering(Nat)
  BY <1>4
<1>6. ASSUME NEW y \in T, y < x PROVE FALSE
  <2>1. 1..y \in SUBSET Nat /\ 1..x \in SUBSET Nat /\ 1..y \subseteq 1..x /\ 1..y # 1..x
    <3>1. x \in 1..x /\ x \notin 1..y
      BY <1>6
    <3>2. 1..y \subseteq 1..x
      BY <1>6
    <3> QED
      BY <3>1, <3>2
  <2>2. <<1..y, 1..x>> \in StrictSubsetOrdering(Nat)
    BY <2>1, SMT DEF StrictSubsetOrdering
  <2> QED
    BY <1>5, <2>2
<1> QED
  BY <1>5, <1>6

\* and a greatest one, if none is above M
LEMMA GreatestOf ==
  ASSUME NEW M \in Nat, NEW T \in SUBSET (1..M), T # {}
  PROVE  \E x \in T : \A y \in T : y <= x
<1> DEFINE Up == {M - x : x \in T}
<1>1. Up \in SUBSET Nat /\ Up # {}
  <2>1. ASSUME NEW x \in T PROVE M - x \in Nat
    OBVIOUS
  <2> QED
    BY <2>1
<1> HIDE DEF Up
<1>2. PICK u \in Up : \A w \in Up : u <= w
  BY <1>1, LeastOf
<1> USE DEF Up
<1>3. PICK x \in T : u = M - x
  BY <1>2
<1>4. ASSUME NEW y \in T PROVE y <= x
  <2>1. M - y \in Up
    OBVIOUS
  <2> QED
    BY <1>2, <1>3, <2>1
<1> QED
  BY <1>4

Ascending(s) == \A i, j \in DOMAIN s : i < j => s[i] < s[j]

\* The numbers of a finite set can be put in their order: of the sets that cannot, one
\* with the fewest elements could, without its greatest element.
LEMMA Enumerable ==
  ASSUME NEW M \in Nat, NEW S \in SUBSET (1..M)
  PROVE  \E s \in [1..Cardinality(S) -> S] : Ascending(s)
<1> DEFINE Can(R)   == \E s \in [1..Cardinality(R) -> R] : Ascending(s)
           Small    == SUBSET (1..M)
           Failing  == {R \in Small : ~Can(R)}
           Counts   == {Cardinality(R) : R \in Failing}
<1>1. ASSUME NEW R \in Small PROVE IsFiniteSet(R) /\ Cardinality(R) \in Nat
  <2>1. 1 \in Int /\ M \in Int
    OBVIOUS
  <2>2. IsFiniteSet(1..M)
    BY <2>1, FS_Interval
  <2>3. IsFiniteSet(R)
    BY <2>2, FS_Subset
  <2> QED
    BY <2>3, FS_CardinalityType
<1> HIDE DEF Can
<1>2. SUFFICES ASSUME Failing # {} PROVE FALSE
  BY DEF Can
<1>3. Counts \in SUBSET Nat /\ Counts # {}
  BY <1>1, <1>2
<1> HIDE DEF Counts
<1>4. PICK c \in Counts : \A d \in Counts : c <= d
  BY <1>3, LeastOf
<1> USE DEF Counts
<1>5. PICK R \in Small : ~Can(R) /\ Cardinality(R) = c
  BY <1>4
<1>6. R # {}
  <2>1. SUFFICES ASSUME R = {} PROVE FALSE
    OBVIOUS
  <2>2. Cardinality(R) = 0
    BY <2>1, FS_EmptySet
  <2>3. [i \in 1..0 |-> i] \in [1..0 -> R] /\ Ascending([i \in 1..0 |-> i])
    BY DEF Ascending
  <2> QED
    BY <1>5, <2>2, <2>3 DEF Can
<1>7. PICK m \in R : \A y \in R : y <= m
  BY <1>6, GreatestOf
<1>8. R \ {m} \in Small /\ Cardinality(R \ {m}) = c - 1 /\ c \in Nat \ {0}
  BY <1>1, <1>5, <1>6, <1>7, FS_RemoveElement, FS_EmptySet
<1>9. Can(R \ {m})
  <2>1. SUFFICES ASSUME ~Can(R \ {m}) PROVE FALSE
    OBVIOUS
  <2>2. c - 1 \in Counts
    BY <1>8, <2>1
  <2> QED
    BY <1>4, <1>8, <2>2
<1>10. PICK t \in [1..(c - 1) -> R \ {m}] : Ascending(t)
  BY <1>8, <1>9 DEF Can
<1>11. [i \in 1..c |-> IF i = c THEN m ELSE t[i]] \in [1..c -> R]
  BY <1>8, <1>10
<1>12. Ascending([i \in 1..c |-> IF i = c THEN m ELSE t[i]])
  <2> SUFFICES ASSUME NEW i \in 1..c, NEW j \in 1..c, i < j
               PROVE  t[i] < IF j = c THEN m ELSE t[j]
    BY <1>8 DEF Ascending
  <2>1. i \in 1..(c - 1) /\ t[i] \in R \ {m} /\ t[i] \in Nat /\ m \in Nat /\ t[i] <= m
    <3>1. i \in 1..(c - 1)
      BY <1>8
    <3>2. t[i] \in R \ {m}
      BY <1>10, <3>1
    <3>3. t[i] \in R /\ t[i] <= m
      BY <1>7, <3>2
    <3>4. R \subseteq Nat
      OBVIOUS
    <3> QED
      BY <3>1, <3>2, <3>3, <3>4
  <2>2. CASE j = c
    BY <2>1, <2>2
  <2>3. CASE j # c
    BY <1>8, <1>10, <2>1, <2>3 DEF Ascending
  <2> QED
    BY <2>2, <2>3
<1> QED
  BY <1>5, <1>11, <1>12 DEF Can

\* what the exporter takes for the order of the frames is one
LEMMA InOrderEnumerates ==
  ASSUME NEW M \in Nat, NEW S \in SUBSET (1..M)
  PROVE  InOrder(S) \in [1..Cardinality(S) -> S] /\ Ascending(InOrder(S))
BY Enumerable DEF InOrder, Ascending

\* The two ends of a window are times at which a step of this session began.
LEMMA WindowOwn ==
  ASSUME events \in Seq(Event), NEW ref
  PROVE  _resolve_endpoint(ref, events) # Unresolved => _resolve_endpoint(ref, events) \in Nat \ {0}
<1>1. ASSUME NEW is \in SUBSET DOMAIN events, is # {}
      PROVE  events[LastOf(is)].ts \in Nat \ {0}
  <2>1. DOMAIN events = 1..Len(events) /\ Len(events) \in Nat
    OBVIOUS
  <2>2. \E x \in is : \A y \in is : y <= x
    BY <1>1, <2>1, GreatestOf
  <2>3. LastOf(is) \in is
    BY <2>2 DEF LastOf
  <2>4. events[LastOf(is)] \in Event
    BY <2>1, <2>3
  <2> QED
    BY <2>4 DEF Event
<1>2. ASSUME NEW n
      PROVE  TimeOfStep(events, n) # Unresolved => TimeOfStep(events, n) \in Nat \ {0}
  <2>1. TimesOf(events, n, "step_start") \in SUBSET DOMAIN events /\ TimesOf(events, n, "step_end") \in SUBSET DOMAIN events
    BY DEF TimesOf
  <2>2. CASE TimesOf(events, n, "step_start") # {}
    BY <1>1, <2>1, <2>2 DEF TimeOfStep
  <2>3. CASE TimesOf(events, n, "step_start") = {} /\ TimesOf(events, n, "step_end") # {}
    BY <1>1, <2>1, <2>3 DEF TimeOfStep
  <2>4. CASE TimesOf(events, n, "step_start") = {} /\ TimesOf(events, n, "step_end") = {}
    BY <2>4 DEF TimeOfStep
  <2> QED
    BY <2>2, <2>3, <2>4
<1> QED
  BY <1>2 DEF _resolve_endpoint

LEMMA OwnAside ==
  ASSUME OwnInv, UNCHANGED fVars, UNCHANGED pc \/ pc' \notin FLabels
  PROVE  OwnInv'
<1>1. UNCHANGED <<clock, step, from, runner, events, foreign, raw, index, filtered, frame_id, thread>>
  BY DEF fVars, commandVars, loop, run, setup, ghosts, recorder, screen
<1>2. pc' = "f.deferred" => pc = "f.deferred"
  BY DEF FLabels
<1> QED
  BY <1>1, <1>2 DEF OwnInv, Files, OwnTimes, OwnFrames, OwnEvents

\* the capture thread writes the frames of this session only
LEMMA OwnCapture ==
  ASSUME Files, OwnTimes, clock \in Nat, _capture_loop
  PROVE  (Files /\ OwnTimes)' /\ UNCHANGED <<pc, clock, filtered>>
<1> USE RecorderAssumption
<1>0. UNCHANGED <<pc, clock, filtered>>
  BY DEF _capture_loop, CaptureTick, CaptureLost, CaptureDone, FrameStamped, FrameKept, CaptureEnds, ThreadFrame
<1>1. CASE CaptureTick \/ CaptureLost \/ CaptureDone \/ CaptureEnds
  <2>1. /\ UNCHANGED <<frame_id, raw, index>> /\ thread' \in {"asked", "tick", "grabbed", "ended"}
        /\ thread' = "asked" => frame_id < MaxFrames
        /\ thread' = "grabbed" => thread = "asked"
    BY <1>1 DEF CaptureTick, CaptureLost, CaptureDone, CaptureEnds
  <2> QED
    BY <1>0, <2>1 DEF Files, OwnTimes
<1>2. CASE FrameStamped
  <2>1. /\ thread = "grabbed" /\ frame_id' = frame_id + 1 /\ thread' = "saving" /\ UNCHANGED index
        /\ raw' = [n \in DOMAIN raw \cup {frame_id'} |->
                     IF n = frame_id' THEN [whole |-> FALSE, own |-> TRUE] ELSE raw[n]]
    BY <1>2 DEF FrameStamped
  <2>2. frame_id' \in 1..MaxFrames
    BY <2>1 DEF Files
  <2>3. DOMAIN raw' \subseteq 1..MaxFrames /\ raw' \in [DOMAIN raw' -> File] /\ raw'[frame_id'].own /\ frame_id' \in DOMAIN raw'
    BY <2>1, <2>2 DEF Files, File
  <2>4. \A n \in DOMAIN raw' : raw'[n].own \/ (n \in DOMAIN index' => index'[n] = 0)
    BY <2>1 DEF OwnTimes
  <2>5. (\A n \in DOMAIN index' : index'[n] \in Nat) /\ frame_id' \in 0..MaxFrames
    BY <2>1, <2>2 DEF Files
  <2> QED
    BY <1>0, <2>1, <2>3, <2>4, <2>5 DEF Files, OwnTimes
<1>3. CASE FrameKept
  <2>1. /\ thread = "saving" /\ UNCHANGED frame_id /\ thread' = "tick"
        /\ raw' = [raw EXCEPT ![frame_id].whole = TRUE]
        /\ index' = [n \in DOMAIN index \cup {frame_id} |-> IF n = frame_id THEN clock ELSE index[n]]
    BY <1>3 DEF FrameKept
  <2>2. frame_id \in DOMAIN raw /\ raw[frame_id].own /\ raw \in [DOMAIN raw -> File]
    BY <2>1 DEF Files
  <2>3. DOMAIN raw' = DOMAIN raw /\ raw' \in [DOMAIN raw' -> File] /\ \A n \in DOMAIN raw : raw'[n].own = raw[n].own
    BY <2>1, <2>2 DEF File
  <2>4. \A n \in DOMAIN raw' : raw'[n].own \/ (n \in DOMAIN index' => index'[n] = 0)
    BY <2>1, <2>2, <2>3 DEF OwnTimes
  <2>5. \A n \in DOMAIN index' : index'[n] \in Nat
    BY <2>1 DEF Files
  <2> QED
    BY <1>0, <2>1, <2>3, <2>4, <2>5 DEF Files, OwnTimes
<1> QED
  BY <1>0, <1>1, <1>2, <1>3 DEF _capture_loop

\* what is exported has a time of this session only if it is a frame of this session
LEMMA OwnExport ==
  ASSUME Files, OwnTimes, clock \in Nat, _filter_and_copy
  PROVE  (Files /\ OwnTimes /\ OwnFrames)' /\ clock' = 1
<1> USE RecorderAssumption
<1>1. PICK k \in Kept(DOMAIN raw) :
        /\ LET s == InOrder(k)
           IN  filtered' = [i \in DOMAIN s |-> [ts |-> TsOf(s[i]), own |-> raw[s[i]].own]]
        /\ index' = NoFiles /\ raw' = NoFiles
        /\ thread' = "ended" /\ mine' = NoFrame /\ frame_id' = 0 /\ wire' = <<>> /\ lock' = "free" /\ clock' = 1
        /\ UNCHANGED <<stopping, attached, slot, asked, got, before>>
  BY DEF _filter_and_copy
<1>2. (Files /\ OwnTimes)'
  BY <1>1 DEF Files, OwnTimes, NoFiles
<1>3. ASSUME NEW n \in DOMAIN raw PROVE TsOf(n) \in Nat /\ (raw[n].own \/ TsOf(n) = 0)
  <2>1. n \in DOMAIN index => index[n] \in Nat
    BY DEF Files
  <2>2. raw[n].own \/ (n \in DOMAIN index => index[n] = 0)
    BY DEF OwnTimes
  <2> QED
    BY <2>1, <2>2 DEF TsOf
<1>4. k \subseteq DOMAIN raw /\ k \in SUBSET (1..MaxFrames)
  BY DEF Kept, Files
<1>5. \A i \in DOMAIN InOrder(k) : InOrder(k)[i] \in DOMAIN raw
  BY <1>4, InOrderEnumerates
<1>6. OwnFrames'
  BY <1>1, <1>3, <1>5 DEF OwnFrames
<1> QED
  BY <1>1, <1>2, <1>6

\* No frame of an earlier session answers a check: its window begins and ends with
\* events of this session.
LEMMA OwnAnswer ==
  ASSUME OwnInv, Answer
  PROVE  ~foreign' /\ UNCHANGED <<clock, step, from, runner, events, recorder>> /\ (pc' = "f.deferred" => pc = "f.deferred")
<1>1. pc = "f.deferred" /\ UNCHANGED <<clock, step, from, runner, events, recorder>>
  BY DEF Answer, At, loop, setup, Alone, screen
<1>2. events \in Seq(Event)
  BY <1>1 DEF OwnInv, OwnEvents
<1>3. CASE UNCHANGED foreign
  BY <1>1, <1>3 DEF OwnInv
<1>4. CASE Resolved(Check, events) /\ \E i \in Candidates(Check, events, filtered) : foreign' = (foreign \/ ~filtered[i].own)
  <2>1. PICK i \in Candidates(Check, events, filtered) : foreign' = (foreign \/ ~filtered[i].own)
    BY <1>4
  <2> DEFINE w == Window(Check, events)
  <2>2. w[1] \in Nat \ {0} /\ w[2] \in Nat \ {0}
    BY <1>2, <1>4, WindowOwn DEF Resolved, Window
  <2>3. /\ i \in DOMAIN filtered
        /\ (w[1] <= filtered[i].ts /\ filtered[i].ts <= w[2]) \/ (w[2] <= filtered[i].ts /\ filtered[i].ts <= w[1])
    BY DEF Candidates
  <2> HIDE DEF w
  <2>4. filtered[i].ts # 0 /\ (filtered[i].own \/ filtered[i].ts = 0)
    BY <2>2, <2>3 DEF OwnInv, OwnFrames
  <2> QED
    BY <1>1, <2>1, <2>4 DEF OwnInv
<1> QED
  BY <1>3, <1>4 DEF Answer

LEMMA OwnStep ==
  ASSUME OwnInv, StartFunctional \/ FNext
  PROVE  OwnInv'
<1> USE FunctionalCommandAssumption, RecorderAssumption
<1> USE DEF loop, run, setup, verdict, ghosts, commandVars, recorder, screen, Alone, At, Goto, Exit, Raise
\* a step that leaves the files alone
<1>1. ASSUME UNCHANGED <<thread, frame_id, raw, index, filtered, from, runner, foreign>>,
             clock' \in {clock, clock + 1}, step' \in {step, 1, from}, UNCHANGED events,
             pc' = "f.deferred" => pc = "f.deferred"
      PROVE  OwnInv'
  <2>1. step' \in Nat \ {0} /\ clock' \in Nat \ {0}
    BY <1>1 DEF OwnInv, OwnEvents
  <2>2. OwnEvents'
    BY <1>1, <2>1 DEF OwnInv, OwnEvents
  <2> QED
    BY <1>1, <2>2 DEF OwnInv, Files, OwnTimes, OwnFrames
<1>2. CASE StartFunctional
  <2>1. UNCHANGED <<thread, frame_id, raw, index, filtered, runner, foreign, clock, step, events>> /\ from' \in 1..FSteps /\ pc' = "f.check"
    BY <1>2 DEF StartFunctional
  <2> QED
    BY <2>1 DEF OwnInv, Files, OwnTimes, OwnFrames, OwnEvents
<1>3. CASE FThread
  <2>1. _capture_loop /\ UNCHANGED commandVars /\ clock \in Nat
    BY <1>3 DEF FThread, OwnInv, OwnEvents
  <2>2. (Files /\ OwnTimes)' /\ UNCHANGED <<pc, clock, filtered>>
    BY <2>1, OwnCapture DEF OwnInv
  <2> QED
    BY <2>1, <2>2 DEF OwnInv, OwnFrames, OwnEvents
<1>4. CASE Refuse \/ Accept \/ EnterFails \/ StartFails \/ Inject \/ Probe \/ Finish \/ StepLooks \/ Capture
           \/ CloseDriver \/ JoinThread \/ RunPasses \/ WatchdogFires \/ Unanswered
  <2>1. UNCHANGED <<thread, frame_id, raw, index, filtered, from, runner, foreign, events>>
    <3>1. CASE Refuse \/ Accept \/ EnterFails \/ StartFails \/ Inject \/ Probe \/ Finish \/ CloseDriver \/ JoinThread
      BY <3>1 DEF Refuse, Accept, EnterFails, StartFails, Inject, Probe, Finish, CloseDriver, SetStop, JoinThread, _stop_capture
    <3>2. CASE StepLooks \/ Capture \/ RunPasses
      BY <3>2 DEF StepLooks, Look, Capture, BusDelivers, BusTimesOut, DirectAsks, DirectDone, DirectLost, RunPasses, LeaveRun, Seen
    <3>3. CASE WatchdogFires
      BY <3>3 DEF WatchdogFires, LeaveRun, Seen
    <3>4. CASE Unanswered
      BY <3>4 DEF Unanswered
    <3> QED
      BY <1>4, <3>1, <3>2, <3>3, <3>4
  <2>2. clock' \in {clock, clock + 1} /\ step' \in {step, 1, from}
    <3>1. CASE Refuse \/ Accept \/ EnterFails \/ StartFails \/ Inject \/ Probe \/ Finish \/ CloseDriver \/ JoinThread
      BY <3>1 DEF Refuse, Accept, EnterFails, StartFails, Inject, Probe, Finish, CloseDriver, SetStop, JoinThread, _stop_capture
    <3>2. CASE StepLooks \/ Capture \/ RunPasses
      BY <3>2 DEF StepLooks, Look, Capture, BusDelivers, BusTimesOut, DirectAsks, DirectDone, DirectLost, RunPasses, LeaveRun, Seen
    <3>3. CASE WatchdogFires
      BY <3>3 DEF WatchdogFires, LeaveRun, Seen
    <3>4. CASE Unanswered
      BY <3>4 DEF Unanswered
    <3> QED
      BY <1>4, <3>1, <3>2, <3>3, <3>4
  <2>3. pc' = "f.deferred" => pc = "f.deferred"
    BY <1>4 DEF Refuse, Accept, EnterFails, StartFails, Inject, Probe, Finish, StepLooks, Look, Capture, BusDelivers,
                BusTimesOut, DirectAsks, DirectDone, DirectLost, CloseDriver, JoinThread, RunPasses, LeaveRun, WatchdogFires,
                Unanswered, Hangs
  <2> QED
    BY <1>1, <2>1, <2>2, <2>3
<1>5. CASE StepEnds
  <2>1. UNCHANGED <<thread, frame_id, raw, index, filtered, from, runner, foreign, events, clock>> /\ pc' # "f.deferred"
    BY <1>5 DEF StepEnds, LeaveRun, Seen
  <2>2. step' \in {step, step + 1, 1, from}
    BY <1>5 DEF StepEnds, LeaveRun
  <2> QED
    BY <2>1, <2>2 DEF OwnInv, Files, OwnTimes, OwnFrames, OwnEvents
<1>6. CASE EnterVM \/ Verdict
  <2>1. /\ \E old \in BOOLEAN : NewRecording(old)
        /\ ~runner' /\ UNCHANGED <<from, foreign>> /\ clock' \in {clock, 1} /\ step' \in {from, 1} /\ pc' # "f.deferred"
    <3>1. CASE EnterVM
      BY <3>1 DEF EnterVM
    <3>2. CASE Verdict
      <4>1. pc' # "f.deferred"
        BY <3>2 DEF Verdict
      <4> QED
        BY <3>2, <4>1 DEF Verdict
    <3> QED
      BY <1>6, <3>1, <3>2
  <2>2. Files' /\ OwnTimes' /\ OwnFrames'
    BY <2>1 DEF NewRecording, Files, OwnTimes, OwnFrames, NoFiles, File
  <2> QED
    BY <2>1, <2>2 DEF OwnInv, OwnEvents
<1>7. CASE StartRecorder
  <2>1. UNCHANGED <<raw, clock, step, from, runner, foreign, events>> /\ thread' = "tick" /\ frame_id' = 0 /\ index' = NoFiles
        /\ filtered' = <<>> /\ pc' = "f.drivers"
    BY <1>7 DEF StartRecorder, start
  <2> QED
    BY <2>1 DEF OwnInv, Files, OwnTimes, OwnFrames, OwnEvents, NoFiles
<1>8. CASE Drivers
  <2>1. UNCHANGED <<thread, frame_id, raw, index, filtered, clock, step, from, foreign>> /\ events' = <<>> /\ pc' = "f.inject"
    BY <1>8 DEF Drivers
  <2>2. <<>> \in Seq(Event)
    OBVIOUS
  <2> QED
    BY <2>1, <2>2 DEF OwnInv, Files, OwnTimes, OwnFrames, OwnEvents
<1>9. CASE StepStart
  <2>1. /\ UNCHANGED <<thread, frame_id, raw, index, filtered, from, foreign, runner>> /\ step <= FSteps /\ clock' = clock + 1
        /\ events' = Append(events, [event |-> "step_start", step |-> step, label |-> Label[step], ts |-> clock'])
        /\ pc' # "f.deferred" /\ step' \in {step, step + 1}
    BY <1>9 DEF StepStart
  <2>2. step \in 1..FSteps /\ clock' \in Nat \ {0} /\ step' \in Nat \ {0}
    BY <2>1 DEF OwnInv, OwnEvents
  <2>3. [event |-> "step_start", step |-> step, label |-> Label[step], ts |-> clock'] \in Event
    BY <2>2 DEF Event
  <2> HIDE DEF Event
  <2>4. runner' => events' \in Seq(Event)
    BY <2>1, <2>3 DEF OwnInv, OwnEvents
  <2> QED
    BY <2>1, <2>2, <2>4 DEF OwnInv, Files, OwnTimes, OwnFrames, OwnEvents
<1>10. CASE Export
  <2>1. UNCHANGED commandVars /\ (pc' = "f.deferred" => runner) /\ (_filter_and_copy \/ UNCHANGED <<recorder, screen>>)
    BY <1>10 DEF Export
  <2>2. CASE _filter_and_copy
    <3>1. (Files /\ OwnTimes /\ OwnFrames)' /\ clock' = 1
      BY <2>2, OwnExport DEF OwnInv, OwnEvents
    <3> QED
      BY <2>1, <3>1 DEF OwnInv, OwnEvents
  <2>3. CASE UNCHANGED <<recorder, screen>>
    BY <2>1, <2>3 DEF OwnInv, Files, OwnTimes, OwnFrames, OwnEvents
  <2> QED
    BY <2>1, <2>2, <2>3
<1>11. CASE Answer
  BY <1>11, OwnAnswer DEF OwnInv, Files, OwnTimes, OwnFrames, OwnEvents
<1> QED
  BY <1>2, <1>3, <1>4, <1>5, <1>6, <1>7, <1>8, <1>9, <1>10, <1>11 DEF FNext, FMain

-----------------------------------------------------------------------------
(* Two frames, one after the other *)

LookLabels == {"s.wait", "s.direct", "s.read", "f.seen"}

\* one request at most is on its way: that of the one who holds the lock
OneRequest ==
  /\ lock \in {"free", "thread", "main"}
  /\ IF lock = "free" THEN wire = <<>> ELSE wire = <<Head(wire)>> /\ Head(wire) \in 0..clock
  /\ lock = "thread" <=> thread = "asked"
  /\ lock = "main" <=> pc = "s.read"
Times ==
  /\ clock \in Nat \ {0} /\ asked \in 0..clock /\ before \in 0..clock
  /\ slot \in Frames /\ slot.done <= clock /\ mine \in Frames /\ mine.done <= clock
  /\ thread = "none" \/ pc = "f.filter" => slot = NoFrame /\ ~attached
  /\ pc = "f.record" => thread = "none"
  /\ IF pc \in LookLabels THEN asked # 0 /\ before <= asked ELSE asked = 0
  /\ pc \notin RunLabels => before = 0
  /\ stalled \in BOOLEAN
\* a frame that was asked for before the last call came before this one
NotOld(f) == asked # 0 => f.since >= before \/ f.done < asked
Newer ==
  /\ thread = "asked" => /\ Head(wire) >= before /\ Head(wire) >= slot.done
                         /\ pc = "f.seen" => Head(wire) >= asked
  /\ thread = "grabbed" => /\ mine.done = 0 /\ mine.since >= slot.done
                           /\ ~stalled => /\ mine.since >= before
                                          /\ pc = "f.seen" => mine.since >= asked
  /\ pc = "s.read" => Head(wire) >= asked
  /\ ~stalled => NotOld(slot) /\ NotOld(mine)
FreshInv == faults \in Nat /\ (faults = 0 => OneRequest /\ Times /\ Newer /\ SecondFrameFresh)

LEMMA FreshAside ==
  ASSUME FreshInv, UNCHANGED fVars, faults' \in {faults, faults + 1},
         \/ UNCHANGED pc
         \/ pc \notin FLabels /\ pc' \notin FLabels
  PROVE  FreshInv'
<1>1. UNCHANGED <<clock, wire, lock, thread, mine, slot, attached, asked, before, got, stalled>>
  BY DEF fVars, recorder, screen
<1>2. faults' \in Nat /\ (faults' = 0 => faults = 0)
  BY DEF FreshInv
<1>3. UNCHANGED pc \/ (pc \notin LookLabels \cup RunLabels /\ pc' \notin LookLabels \cup RunLabels /\ pc' # "f.record" /\ pc' # "f.filter")
  BY DEF FLabels, LookLabels, RunLabels
<1>4. ASSUME faults' = 0 PROVE (OneRequest /\ Times /\ Newer /\ SecondFrameFresh)'
  <2>1. OneRequest /\ Times /\ Newer /\ SecondFrameFresh
    BY <1>2, <1>4 DEF FreshInv
  <2>2. OneRequest' /\ Newer'
    BY <1>1, <1>3, <2>1 DEF OneRequest, Newer, NotOld, LookLabels, RunLabels
  <2>3. Times'
    BY <1>1, <1>3, <2>1 DEF Times
  <2>4. SecondFrameFresh'
    BY <1>1, <1>2, <1>3, <1>4, <2>1 DEF SecondFrameFresh, At, LookLabels
  <2> QED
    BY <2>2, <2>3, <2>4
<1> QED
  BY <1>2, <1>4 DEF FreshInv

\* with one request at most on its way, a capture gets the answer to its own
LEMMA AskAndGrab ==
  ASSUME OneRequest, NEW who
  PROVE  /\ Ask(who) => lock = "free" /\ lock' = who /\ wire' = <<clock>>
         /\ Grab(who) => lock = who /\ lock' = "free" /\ wire' = <<>>
<1>1. ASSUME Ask(who) PROVE wire' = <<clock>>
  <2>1. wire = <<>>
    BY <1>1 DEF Ask, OneRequest
  <2>2. PICK k \in 0..Len(wire) : wire' = Append(SubSeq(wire, k + 1, Len(wire)), clock)
    BY <1>1 DEF Ask
  <2>3. k = 0 /\ Len(wire) = 0
    BY <2>1
  <2>4. wire' = Append(SubSeq(<<>>, 1, 0), clock)
    BY <2>1, <2>2, <2>3
  <2>5. SubSeq(<<>>, 1, 0) = <<>>
    OBVIOUS
  <2>6. Append(<<>>, clock) = <<clock>>
    OBVIOUS
  <2> QED
    BY <2>4, <2>5, <2>6
<1>2. ASSUME Grab(who) PROVE wire' = <<>>
  <2>1. wire # <<>> /\ wire' = Tail(wire)
    BY <1>2 DEF Grab
  <2>2. PICK h : wire = <<h>>
    BY <2>1 DEF OneRequest
  <2> QED
    BY <2>1, <2>2
<1> QED
  BY <1>1, <1>2 DEF Ask, Grab

\* the thread, while the main thread stays where it is
LEMMA FreshCapture ==
  ASSUME OneRequest, Times, Newer, SecondFrameFresh, faults = 0, faults' = 0, _capture_loop
  PROVE  (OneRequest /\ Times /\ Newer /\ SecondFrameFresh)'
<1>0. UNCHANGED <<pc, clock, attached, asked, got, before, stalled>>
  BY DEF _capture_loop, CaptureTick, CaptureLost, CaptureDone, FrameStamped, FrameKept, CaptureEnds, ThreadFrame
<1>1. SecondFrameFresh'
  BY <1>0 DEF SecondFrameFresh, At
<1>2. CASE CaptureTick
  <2>1. lock = "free" /\ lock' = "thread" /\ wire' = <<clock>> /\ thread = "tick" /\ thread' = "asked" /\ UNCHANGED <<mine, slot>>
    BY <1>2, AskAndGrab DEF CaptureTick
  <2>2. Head(wire') = clock
    BY <2>1
  <2>3. OneRequest'
    BY <1>0, <2>1, <2>2 DEF OneRequest, Times
  <2>4. Times'
    BY <1>0, <2>1 DEF Times
  <2>5. Newer'
    <3>1. pc # "s.read"
      BY <2>1 DEF OneRequest
    <3>2. clock >= before /\ clock >= slot.done /\ clock >= asked
      BY DEF Times, Frames
    <3> QED
      BY <1>0, <2>1, <2>2, <3>1, <3>2 DEF Newer, NotOld
  <2> QED
    BY <1>1, <2>3, <2>4, <2>5
<1>3. CASE CaptureDone
  <2>1. /\ lock = "thread" /\ lock' = "free" /\ wire' = <<>> /\ thread = "asked" /\ thread' = "grabbed"
        /\ mine' = [since |-> Head(wire), done |-> 0] /\ UNCHANGED slot
    BY <1>3, AskAndGrab DEF CaptureDone
  <2>2. Head(wire) \in 0..clock /\ Head(wire) >= before /\ Head(wire) >= slot.done /\ (pc = "f.seen" => Head(wire) >= asked)
    BY <2>1 DEF OneRequest, Newer
  <2>3. OneRequest'
    BY <1>0, <2>1 DEF OneRequest
  <2>4. mine' \in Frames /\ mine'.done = 0 /\ mine'.since = Head(wire) /\ clock \in Nat /\ asked \in Nat
    BY <2>1, <2>2 DEF Frames, Times
  <2>5. Times'
    BY <1>0, <2>1, <2>4 DEF Times
  <2>6. Newer'
    <3>1. pc # "s.read"
      BY <2>1 DEF OneRequest
    <3>2. NotOld(mine)'
      BY <1>0, <2>4 DEF NotOld
    <3>3. ~stalled' => NotOld(slot)'
      BY <1>0, <2>1 DEF Newer, NotOld
    <3> QED
      BY <1>0, <2>1, <2>2, <2>4, <3>1, <3>2, <3>3 DEF Newer
  <2> QED
    BY <1>1, <2>3, <2>5, <2>6
<1>7. CASE FrameStamped
  <2>1. /\ thread = "grabbed" /\ thread' = "saving" /\ mine' = [mine EXCEPT !.done = clock] /\ UNCHANGED <<slot, lock, wire>>
    BY <1>7 DEF FrameStamped
  <2>2. mine \in Frames /\ clock \in Nat
    BY DEF Times
  <2>3. mine' \in Frames /\ mine'.done = clock /\ mine'.since = mine.since
    BY <2>1, <2>2 DEF Frames
  <2>4. OneRequest'
    BY <1>0, <2>1 DEF OneRequest
  <2>5. Times'
    BY <1>0, <2>1, <2>2, <2>3 DEF Times
  <2>6. ~stalled => mine.since >= before
    BY <2>1 DEF Newer
  <2>7. Newer'
    <3>1. ~stalled' => NotOld(mine)'
      BY <1>0, <2>3, <2>6 DEF NotOld
    <3>2. ~stalled' => NotOld(slot)'
      BY <1>0, <2>1 DEF Newer, NotOld
    <3> QED
      BY <1>0, <2>1, <3>1, <3>2 DEF Newer
  <2> QED
    BY <1>1, <2>4, <2>5, <2>7
<1>4. CASE FrameKept
  <2>1. /\ thread = "saving" /\ thread' = "tick" /\ mine' = NoFrame /\ slot' = (IF attached THEN mine ELSE slot) /\ UNCHANGED <<wire, lock>>
    BY <1>4 DEF FrameKept
  <2>2. OneRequest'
    BY <1>0, <2>1 DEF OneRequest
  <2>3. NoFrame \in Frames /\ NoFrame.done = 0
    BY DEF NoFrame, Frames
  <2>4. Times'
    BY <1>0, <2>1, <2>3 DEF Times
  <2>5. ~stalled' => NotOld(mine)' /\ NotOld(slot)'
    BY <1>0, <2>1, <2>3 DEF Newer, NotOld, Times
  <2>6. Newer'
    BY <1>0, <2>1, <2>5 DEF Newer, NotOld
  <2> QED
    BY <1>1, <2>2, <2>4, <2>6
<1>5. CASE CaptureEnds
  <2>1. thread = "tick" /\ thread' = "ended" /\ UNCHANGED <<lock, wire, mine, slot>>
    BY <1>5 DEF CaptureEnds
  <2> QED
    BY <1>0, <1>1, <2>1 DEF OneRequest, Times, Newer, NotOld
<1>6. ~CaptureLost
  BY DEF CaptureLost, Lose, Fault
<1> QED
  BY <1>2, <1>3, <1>4, <1>5, <1>6, <1>7 DEF _capture_loop

\* the main thread takes its frames
LEMMA FreshLook ==
  ASSUME OneRequest, Times, Newer, SecondFrameFresh, faults = 0, faults' = 0,
         StepLooks \/ Capture \/ StepEnds \/ RunPasses
  PROVE  (OneRequest /\ Times /\ Newer /\ SecondFrameFresh)'
<1> USE DEF At, Goto, recorder
<1>0. UNCHANGED <<thread, mine>>
  BY DEF StepLooks, Look, Capture, BusDelivers, BusTimesOut, DirectAsks, DirectDone, DirectLost, StepEnds, RunPasses, LeaveRun, Seen
<1>1. CASE StepLooks
  <2>1. /\ pc = "f.look" /\ pc' \in {"s.wait", "s.direct"} /\ clock' = clock + 1 /\ asked' = clock'
        /\ UNCHANGED <<wire, lock, attached, slot, got, before, stalled>>
    BY <1>1 DEF StepLooks, Look
  <2>2. clock \in Nat /\ asked' = clock + 1 /\ before \in 0..clock /\ slot.done \in 0..clock /\ mine.done \in 0..clock
    BY <2>1 DEF Times, Frames
  <2>3. OneRequest'
    BY <1>0, <2>1, <2>2 DEF OneRequest
  <2>4. Times'
    BY <1>0, <2>1, <2>2 DEF Times, LookLabels, RunLabels
  <2>5. NotOld(slot)' /\ NotOld(mine)'
    BY <1>0, <2>1, <2>2 DEF NotOld
  <2>6. Newer'
    BY <1>0, <2>1, <2>2, <2>5 DEF Newer
  <2> QED
    BY <2>1, <2>3, <2>4, <2>6 DEF SecondFrameFresh
<1>2. CASE BusDelivers("f.seen")
  <2>1. /\ pc = "s.wait" /\ pc' = "f.seen" /\ slot.done >= asked /\ got' = slot
        /\ UNCHANGED <<clock, wire, lock, attached, slot, asked, before, stalled>>
    BY <1>2 DEF BusDelivers, Fresh, Hand
  <2>2. asked \in Nat /\ asked # 0 /\ before \in Nat /\ slot.done \in Nat /\ slot.since \in Nat
    BY <2>1 DEF Times, LookLabels, Frames
  <2>3. ~stalled => slot.since >= before
    BY <2>1, <2>2 DEF Newer, NotOld
  <2>4. OneRequest' /\ Times'
    BY <1>0, <2>1 DEF OneRequest, Times, LookLabels, RunLabels
  <2>5. /\ thread = "asked" => Head(wire) >= asked
        /\ thread = "grabbed" => mine.since >= asked
    BY <2>1, <2>2 DEF Newer, OneRequest, Times, Frames
  <2>6. Newer'
    BY <1>0, <2>1, <2>5 DEF Newer, NotOld
  <2> QED
    BY <2>1, <2>3, <2>4, <2>6 DEF SecondFrameFresh
<1>3. CASE BusTimesOut
  <2>1. pc = "s.wait" /\ pc' = "s.direct" /\ UNCHANGED <<clock, wire, lock, attached, slot, asked, before, got, stalled>>
    BY <1>3 DEF BusTimesOut, screen
  <2> QED
    BY <1>0, <2>1 DEF OneRequest, Times, Newer, NotOld, SecondFrameFresh, LookLabels, RunLabels
<1>4. CASE DirectAsks
  <2>1. /\ pc = "s.direct" /\ pc' = "s.read" /\ lock = "free" /\ lock' = "main" /\ wire' = <<clock>>
        /\ UNCHANGED <<clock, attached, slot, asked, before, got, stalled>>
    BY <1>4, AskAndGrab DEF DirectAsks
  <2>2. Head(wire') = clock /\ thread # "asked" /\ clock \in Nat /\ clock >= asked
    BY <2>1 DEF OneRequest, Times
  <2>3. OneRequest'
    BY <1>0, <2>1, <2>2 DEF OneRequest
  <2>4. Times'
    BY <1>0, <2>1 DEF Times, LookLabels, RunLabels
  <2>5. Newer'
    BY <1>0, <2>1, <2>2 DEF Newer, NotOld
  <2> QED
    BY <2>1, <2>3, <2>4, <2>5 DEF SecondFrameFresh
<1>5. CASE DirectDone("f.seen")
  <2>1. /\ pc = "s.read" /\ pc' = "f.seen" /\ lock = "main" /\ lock' = "free" /\ wire' = <<>>
        /\ got' = [since |-> Head(wire), done |-> clock]
        /\ UNCHANGED <<clock, attached, slot, asked, before>>
        /\ stalled' = (stalled \/ thread = "grabbed")
    BY <1>5, AskAndGrab DEF DirectDone, Hand, Grabbed
  <2>2. Head(wire) \in Nat /\ Head(wire) >= asked /\ before <= asked /\ asked \in Nat /\ before \in Nat /\ clock \in Nat
    BY <2>1 DEF OneRequest, Newer, Times, LookLabels
  <2>3. OneRequest'
    BY <1>0, <2>1 DEF OneRequest
  <2>4. Times'
    BY <1>0, <2>1 DEF Times, LookLabels, RunLabels
  <2>5. thread # "asked" /\ (thread = "grabbed" => mine.since >= slot.done /\ mine.done = 0)
    BY <2>1 DEF OneRequest, Newer
  <2>8. ~stalled' => ~stalled /\ thread # "grabbed"
    BY <2>1
  <2>9. ~stalled' => NotOld(slot)' /\ NotOld(mine)'
    BY <1>0, <2>1, <2>8 DEF Newer, NotOld
  <2>6. Newer'
    BY <1>0, <2>1, <2>5, <2>8, <2>9 DEF Newer
  <2>7. got'.since >= before'
    BY <2>1, <2>2
  <2> QED
    BY <2>3, <2>4, <2>6, <2>7 DEF SecondFrameFresh
<1>6. ~DirectLost("f.seen")
  BY DEF DirectLost, Lose, Fault
\* the frame has been seen: another look may follow
<1>7. CASE StepEnds \/ RunPasses
  <2>1. /\ pc \in {"f.seen", "f.step"} /\ pc' \in {"f.step", "f.finally"} /\ asked' = 0 /\ got' = NoFrame
        /\ UNCHANGED <<clock, wire, lock, attached, slot>>
        /\ before' \in {0, asked} /\ (pc' = "f.finally" => before' = 0) /\ (pc = "f.step" => before' = 0)
    <3>1. CASE StepEnds
      BY <3>1 DEF StepEnds, LeaveRun, Seen
    <3>2. CASE RunPasses
      BY <3>2 DEF RunPasses, LeaveRun, Seen
    <3> QED
      BY <1>7, <3>1, <3>2
  <2>7. stalled' \in BOOLEAN /\ (before' # 0 /\ ~stalled' => ~stalled)
    <3>1. Seen(TRUE) \/ Seen(FALSE)
      BY <1>7 DEF StepEnds, RunPasses, LeaveRun
    <3>2. CASE Seen(TRUE)
      BY <3>2, Zenon DEF Seen, Times
    <3>3. CASE Seen(FALSE)
      <4>1. before' = 0 /\ stalled' = FALSE
        BY <3>3 DEF Seen
      <4> QED
        BY <4>1
    <3> QED
      BY <3>1, <3>2, <3>3
  <2>2. OneRequest'
    BY <1>0, <2>1 DEF OneRequest
  <2>3. Times'
    BY <1>0, <2>1, <2>7 DEF Times, LookLabels, RunLabels
  <2>4. thread = "asked" => Head(wire) >= before' /\ Head(wire) >= slot.done
    BY <2>1 DEF Newer, OneRequest, Times
  <2>6. thread = "grabbed" => /\ mine.done = 0 /\ mine.since >= slot.done
                              /\ ~stalled' => mine.since >= before'
    BY <2>1, <2>7 DEF Newer, Times, Frames
  <2>5. Newer'
    BY <1>0, <2>1, <2>4, <2>6 DEF Newer, NotOld
  <2> QED
    BY <2>1, <2>2, <2>3, <2>5 DEF SecondFrameFresh
<1> QED
  BY <1>1, <1>2, <1>3, <1>4, <1>5, <1>6, <1>7 DEF Capture

LEMMA FreshStep ==
  ASSUME FreshInv, StartFunctional \/ FNext, faults' \in {faults, faults + 1}
  PROVE  FreshInv'
<1> USE DEF loop, run, setup, verdict, ghosts, commandVars, Alone, At, Goto, Exit, Raise
<1>1. faults' \in Nat
  BY DEF FreshInv
<1>2. SUFFICES ASSUME faults' = 0 PROVE (OneRequest /\ Times /\ Newer /\ SecondFrameFresh)'
  BY <1>1 DEF FreshInv
<1>3. faults = 0 /\ OneRequest /\ Times /\ Newer /\ SecondFrameFresh
  BY <1>2 DEF FreshInv
<1>4. ~Fault /\ ~EnterFails /\ ~StartFails /\ ~WatchdogFires /\ ~Unanswered
  BY <1>2, <1>3 DEF Fault, EnterFails, StartFails, WatchdogFires, Unanswered, Hangs
\* the frames and the connection are left alone
<1>5. ASSUME UNCHANGED <<wire, lock, thread, mine, slot, attached, asked, got, before, stalled>>, clock' \in {clock, clock + 1},
             pc \notin LookLabels, pc' \notin LookLabels, pc \in RunLabels => pc' \in RunLabels,
             pc' \notin {"f.record", "f.filter"} \/ (pc' = "f.filter" /\ thread = "none")
      PROVE  (OneRequest /\ Times /\ Newer /\ SecondFrameFresh)'
  <2>1. Times'
    <3>1. clock' \in Nat \ {0} /\ clock' >= clock /\ clock \in Nat
      BY <1>3, <1>5 DEF Times
    <3>2. slot.done \in Nat /\ mine.done \in Nat
      BY <1>3 DEF Times, Frames
    <3> QED
      BY <1>3, <1>5, <3>1, <3>2 DEF Times
  <2>2. OneRequest'
    BY <1>3, <1>5 DEF OneRequest, Times, LookLabels
  <2>3. Newer' /\ SecondFrameFresh'
    BY <1>3, <1>5 DEF Newer, NotOld, SecondFrameFresh, LookLabels
  <2> QED
    BY <2>1, <2>2, <2>3
<1>6. CASE StartFunctional \/ Refuse \/ Accept \/ Drivers \/ Inject \/ Probe \/ Finish
  <2>1. UNCHANGED <<recorder, screen>>
    BY <1>6 DEF StartFunctional, Refuse, Accept, Drivers, Inject, Probe, Finish
  <2>2. /\ pc \in {"main", "f.check", "f.vm", "f.drivers", "f.inject", "f.probe"}
        /\ pc' \in {"f.check", "f.vm", "f.inject", "f.probe", "f.step", "f.finally", "exited"}
    BY <1>6 DEF StartFunctional, Refuse, Accept, Drivers, Inject, Probe, Finish
  <2> QED
    BY <1>5, <2>1, <2>2 DEF recorder, screen, LookLabels, RunLabels
<1>7. CASE StepStart
  <2>1. UNCHANGED <<wire, lock, thread, mine, slot, attached, asked, got, before, stalled>> /\ clock' = clock + 1
    BY <1>7 DEF StepStart, recorder
  <2>2. pc = "f.step" /\ pc' \in {"f.step", "f.look"}
    BY <1>7 DEF StepStart
  <2> QED
    BY <1>5, <2>1, <2>2 DEF LookLabels, RunLabels
<1>8. CASE Answer
  <2>1. UNCHANGED <<recorder, screen>> /\ pc = "f.deferred" /\ pc' \in {"f.verdict", "f.deferred"}
    BY <1>8 DEF Answer
  <2> QED
    BY <1>5, <2>1 DEF recorder, screen, LookLabels, RunLabels
<1>9. CASE StepLooks \/ Capture \/ StepEnds \/ RunPasses
  BY <1>2, <1>3, <1>9, FreshLook
<1>10. CASE FThread
  BY <1>2, <1>3, <1>10, FreshCapture DEF FThread
<1>11. CASE EnterVM \/ Verdict
  <2>1. PICK old \in BOOLEAN : NewRecording(old)
    BY <1>11 DEF EnterVM, Verdict
  <2>2. clock' \in {clock, 1} /\ pc' \in {"f.record", "f.drivers", "f.vm", "exited"}
    <3>1. CASE EnterVM
      BY <3>1 DEF EnterVM
    <3>2. CASE Verdict
      <4>1. pc' \in {"f.vm", "exited"} /\ clock' = 1
        BY <3>2 DEF Verdict
      <4> QED
        BY <4>1
    <3> QED
      BY <1>11, <3>1, <3>2
  <2>3. /\ thread' = "none" /\ mine' = NoFrame /\ attached' = FALSE /\ slot' = NoFrame /\ wire' = <<>> /\ lock' = "free"
        /\ asked' = 0 /\ got' = NoFrame /\ before' = 0 /\ stalled' = FALSE
    BY <2>1 DEF NewRecording
  <2>4. NoFrame \in Frames /\ NoFrame.done = 0 /\ NoFrame.since = 0
    BY DEF NoFrame, Frames
  <2>6. stalled' \in BOOLEAN /\ clock' \in Nat \ {0}
    <3>1. stalled' \in BOOLEAN
      BY <2>3, Zenon
    <3>2. clock' \in Nat \ {0}
      BY <1>3, <2>2 DEF Times
    <3> QED
      BY <3>1, <3>2, Zenon
  <2>5. Times'
    BY <2>2, <2>3, <2>4, <2>6 DEF Times, LookLabels
  <2> QED
    BY <2>2, <2>3, <2>5 DEF OneRequest, Newer, NotOld, SecondFrameFresh
<1>12. CASE StartRecorder
  <2>1. /\ pc = "f.record" /\ pc' = "f.drivers" /\ thread' = "tick" /\ slot' = NoFrame
        /\ UNCHANGED <<clock, wire, lock, asked, got, before, stalled, mine>>
    BY <1>12 DEF StartRecorder, start
  <2>2. NoFrame \in Frames /\ NoFrame.done = 0 /\ NoFrame.since = 0
    BY DEF NoFrame, Frames
  <2>3. thread = "none"
    BY <1>3, <2>1 DEF Times
  <2>4. OneRequest'
    BY <1>3, <2>1, <2>3 DEF OneRequest
  <2>5. Times'
    BY <1>3, <2>1, <2>2 DEF Times, LookLabels, RunLabels
  <2>6. Newer' /\ SecondFrameFresh'
    BY <1>3, <2>1, <2>5 DEF Newer, NotOld, SecondFrameFresh, Times, LookLabels
  <2> QED
    BY <2>4, <2>5, <2>6
<1>13. CASE CloseDriver
  <2>1. CASE UNCHANGED <<recorder, screen>> /\ pc' # "f.join"
    <3>1. pc = "f.finally" /\ pc' \in {"exited", "f.verdict", "f.filter"} /\ (pc' = "f.filter" => thread = "none")
      BY <1>13, <2>1 DEF CloseDriver
    <3> QED
      BY <1>5, <2>1, <3>1 DEF recorder, screen, LookLabels, RunLabels
  <2>2. CASE SetStop /\ pc = "f.finally" /\ pc' = "f.join"
    BY <1>5, <2>2 DEF SetStop, screen, LookLabels, RunLabels
  <2>3. pc = "f.finally"
    BY <1>13 DEF CloseDriver
  <2> QED
    BY <1>13, <2>1, <2>2, <2>3 DEF CloseDriver
<1>14. CASE JoinThread
  <2>1. /\ pc = "f.join" /\ pc' = "f.filter" /\ attached' = FALSE /\ slot' = NoFrame /\ UNCHANGED <<clock, wire, lock, asked, got, before, stalled, thread, mine>>
    BY <1>14 DEF JoinThread, _stop_capture, recorder
  <2>2. NoFrame \in Frames /\ NoFrame.done = 0 /\ NoFrame.since = 0
    BY DEF NoFrame, Frames
  <2>3. OneRequest' /\ Times'
    BY <1>3, <2>1, <2>2 DEF OneRequest, Times, LookLabels, RunLabels
  <2>4. thread = "asked" => Head(wire) >= 0
    BY <1>3 DEF OneRequest
  <2>5. asked = 0 /\ before = 0 /\ mine.since \in Nat
    BY <1>3, <2>1 DEF Times, LookLabels, RunLabels, Frames
  <2>6. Newer'
    BY <1>3, <2>1, <2>2, <2>4, <2>5 DEF Newer, NotOld
  <2> QED
    BY <2>1, <2>3, <2>6 DEF SecondFrameFresh
<1>15. CASE Export
  <2>1. CASE _filter_and_copy
    <3>1. /\ thread' = "ended" /\ mine' = NoFrame /\ wire' = <<>> /\ lock' = "free" /\ clock' = 1
          /\ UNCHANGED <<attached, slot, asked, got, before, stalled>>
      BY <2>1 DEF _filter_and_copy
    <3>2. pc = "f.filter" /\ pc' \in {"f.deferred", "f.verdict", "exited"}
      BY <1>15 DEF Export
    <3>3. slot = NoFrame /\ asked = 0 /\ before = 0
      BY <1>3, <3>2 DEF Times, LookLabels, RunLabels
    <3>4. NoFrame \in Frames /\ NoFrame.done = 0 /\ NoFrame.since = 0
      BY DEF NoFrame, Frames
    <3>5. Times'
      BY <1>3, <3>1, <3>2, <3>3, <3>4 DEF Times, LookLabels
    <3> QED
      BY <3>1, <3>2, <3>3, <3>5 DEF OneRequest, Newer, NotOld, SecondFrameFresh
  <2>2. CASE UNCHANGED <<recorder, screen>>
    <3>1. pc = "f.filter" /\ pc' \in {"exited", "f.deferred", "f.verdict"}
      BY <1>15 DEF Export
    <3> QED
      BY <1>5, <2>2, <3>1 DEF recorder, screen, LookLabels, RunLabels
  <2> QED
    BY <1>15, <2>1, <2>2 DEF Export
<1> QED
  BY <1>4, <1>6, <1>7, <1>8, <1>9, <1>10, <1>11, <1>12, <1>13, <1>14, <1>15 DEF FNext, FMain

-----------------------------------------------------------------------------
(* sequences of anything *)

IsSequence(s) == s \in Seq(ToSet(s))

LEMMA AppendIsSequence ==
  ASSUME NEW s, IsSequence(s), NEW e
  PROVE  IsSequence(Append(s, e))
<1>1. Append(s, e) \in Seq(ToSet(s) \cup {e})
  BY DEF IsSequence
<1>2. \A i \in 1..Len(s) + 1 : Append(s, e)[i] \in ToSet(Append(s, e))
  BY <1>1 DEF ToSet, IsSequence
<1> QED
  BY <1>1, <1>2 DEF IsSequence

LEMMA IsSequenceIf ==
  ASSUME NEW s, NEW n \in Nat, DOMAIN s = 1..n, s = [i \in 1..n |-> s[i]]
  PROVE  IsSequence(s) /\ Len(s) = n
<1>1. \A i \in 1..n : s[i] \in ToSet(s)
  BY DEF ToSet
<1>2. s \in [1..n -> ToSet(s)]
  BY <1>1
<1> QED
  BY <1>2 DEF IsSequence

LEMMA ExceptIsSequence ==
  ASSUME NEW s, IsSequence(s), NEW i \in DOMAIN s, NEW e
  PROVE  IsSequence([s EXCEPT ![i] = e])
<1>1. Len(s) \in Nat /\ DOMAIN s = 1..Len(s)
  BY DEF IsSequence
<1> QED
  BY <1>1, IsSequenceIf

LEMMA RemoveAtIs ==
  ASSUME NEW s, IsSequence(s), NEW i \in DOMAIN s
  PROVE  /\ IsSequence(RemoveAt(s, i)) /\ DOMAIN RemoveAt(s, i) = 1..(Len(s) - 1)
         /\ \A k \in DOMAIN RemoveAt(s, i) : RemoveAt(s, i)[k] = s[IF k < i THEN k ELSE k + 1]
<1> DEFINE S     == ToSet(s)
           left  == SubSeq(s, 1, i - 1)
           right == SubSeq(s, i + 1, Len(s))
           n     == Len(s) - 1
<1>1. s \in Seq(S) /\ Len(s) \in Nat /\ i \in 1..Len(s)
  BY DEF IsSequence
<1>2. left \in Seq(S) /\ Len(left) = i - 1 /\ \A k \in 1..(i - 1) : left[k] = s[k]
  BY <1>1
<1>3. right \in Seq(S) /\ Len(right) = Len(s) - i /\ \A k \in 1..(Len(s) - i) : right[k] = s[k + i]
  BY <1>1
<1> DEFINE both  == left \o right
<1>4. RemoveAt(s, i) = both
  BY DEF RemoveAt
<1> HIDE DEF S, left, right
<1>5. /\ both \in Seq(S) /\ Len(both) = n
      /\ \A k \in 1..n : both[k] = IF k <= i - 1 THEN left[k] ELSE right[k - (i - 1)]
  BY <1>1, <1>2, <1>3, ConcatProperties
<1>6. ASSUME NEW k \in 1..n, k >= i PROVE both[k] = s[k + 1]
  <2>0. ~(k <= i - 1)
    BY <1>1, <1>6
  <2>1. both[k] = right[k - (i - 1)]
    BY <1>5, <2>0, Zenon
  <2>2. k - (i - 1) \in 1..(Len(s) - i) /\ k - (i - 1) + i = k + 1
    BY <1>1, <1>6
  <2> QED
    BY <1>3, <2>1, <2>2
<1>7. ASSUME NEW k \in 1..n, k < i PROVE both[k] = s[k]
  BY <1>1, <1>2, <1>5, <1>7
<1> HIDE DEF both
<1>8. n \in Nat
  BY <1>1
<1> HIDE DEF n
<1>9. DOMAIN both = 1..n /\ both = [k \in 1..n |-> both[k]]
  BY <1>5, <1>8
<1>10. IsSequence(both)
  BY <1>8, <1>9, IsSequenceIf
<1>11. \A k \in 1..n : both[k] = s[IF k < i THEN k ELSE k + 1]
  BY <1>1, <1>6, <1>7, <1>8
<1> QED
  BY <1>4, <1>9, <1>10, <1>11 DEF n

-----------------------------------------------------------------------------
(* the phases of a scenario *)

\* the labels of the loader
CLabels == {"c.find", "c.import", "c.call", "c.render", "c.phases"}

PhaseInv ==
  /\ IsSequence(done)
  /\ pc \in CLabels => /\ scenario \in Scenarios
                       /\ phase \in (0..Len(scenario.phases)) \X (0..Len(scenario.phases))
  /\ scenario # NoScenario => pc \in CLabels \cup {"exited"}
  /\ PhaseSlice

LEMMA RenderIsSequence ==
  ASSUME NEW s, IsSequence(s), NEW env
  PROVE  IsSequence(Render(s, env))
<1>1. Len(s) \in Nat /\ DOMAIN s = 1..Len(s)
  BY DEF IsSequence
<1> DEFINE r == [i \in 1..Len(s) |-> Rendered(s[i], env)]
<1>2. \A i \in 1..Len(s) : r[i] \in ToSet(r)
  BY DEF ToSet
<1>3. r \in Seq(ToSet(r))
  BY <1>1, <1>2
<1>4. Render(s, env) = s \/ Render(s, env) = r
  BY <1>1 DEF Render
<1> QED
  BY <1>3, <1>4 DEF IsSequence

\* a step is in a phase or in a later one if it is not before the phase begins
LEMMA PhaseReached ==
  ASSUME NEW s \in Scenarios, scenario = s, NEW p \in DOMAIN s.phases, NEW n \in Nat
  PROVE  PhaseOf(n) \in Nat /\ (PhaseOf(n) >= p <=> s.phases[p] <= n)
<1> DEFINE L == Len(s.phases)
           begun_by == {q \in DOMAIN s.phases : s.phases[q] <= n}
<1>1. L \in Nat /\ DOMAIN s.phases = 1..L /\ p \in 1..L
  BY ScenarioAssumption
<1>2. \A q \in 1..L : s.phases[q] \in Nat
  BY ScenarioAssumption
<1>3. PhaseOf(n) = Cardinality(begun_by)
  BY DEF PhaseOf
<1>4. IsFiniteSet(1..L) /\ IsFiniteSet(1..p) /\ IsFiniteSet(1..p - 1) /\ Cardinality(1..p) = p /\ Cardinality(1..p - 1) = p - 1
  <2>1. 1 \in Int /\ L \in Int /\ p \in Int /\ p - 1 \in Int /\ p >= 1
    BY <1>1
  <2>2. IsFiniteSet(1..L)
    BY <2>1, FS_Interval
  <2>3. IsFiniteSet(1..p) /\ Cardinality(1..p) = IF 1 > p THEN 0 ELSE p - 1 + 1
    BY <2>1, FS_Interval
  <2>4. IsFiniteSet(1..p - 1) /\ Cardinality(1..p - 1) = IF 1 > p - 1 THEN 0 ELSE (p - 1) - 1 + 1
    BY <2>1, FS_Interval, Zenon
  <2> QED
    BY <2>1, <2>2, <2>3, <2>4
<1>5. IsFiniteSet(begun_by) /\ Cardinality(begun_by) \in Nat
  BY <1>1, <1>4, FS_Subset, FS_CardinalityType
<1>6. CASE s.phases[p] <= n
  <2>1. ASSUME NEW q \in 1..p
        PROVE  s.phases[q] <= n
    <3>1. q \in 1..L /\ (q = p \/ q < p)
      BY <1>1
    <3>2. q = p \/ s.phases[q] < s.phases[p]
      BY <1>1, <3>1, ScenarioAssumption
    <3>3. s.phases[p] \in Nat /\ s.phases[q] \in Nat
      BY <1>1, <1>2, <3>1
    <3> QED
      BY <1>6, <3>2, <3>3
  <2>2. 1..p \subseteq begun_by
    BY <1>1, <2>1
  <2>3. Cardinality(1..p) <= Cardinality(begun_by)
    BY <1>5, <2>2, FS_Subset
  <2> QED
    BY <1>1, <1>3, <1>4, <1>5, <1>6, <2>3
<1>7. CASE ~(s.phases[p] <= n)
  <2>1. ASSUME NEW q \in p..L
        PROVE  ~(s.phases[q] <= n)
    <3>1. q = p \/ s.phases[p] < s.phases[q]
      BY <1>1, ScenarioAssumption
    <3>2. s.phases[p] \in Nat /\ s.phases[q] \in Nat
      BY <1>1, <1>2
    <3> QED
      BY <1>7, <3>1, <3>2
  <2>2. begun_by \subseteq 1..p - 1
    BY <1>1, <2>1
  <2>3. Cardinality(begun_by) <= p - 1
    BY <1>4, <2>2, FS_Subset
  <2> QED
    BY <1>1, <1>3, <1>5, <1>7, <2>3
<1> QED
  BY <1>6, <1>7

LEMMA PhaseCount ==
  ASSUME NEW s \in Scenarios, scenario = s, NEW n \in Nat
  PROVE  PhaseOf(n) \in 0..Len(s.phases)
<1> DEFINE L == Len(s.phases)
           begun_by == {q \in DOMAIN s.phases : s.phases[q] <= n}
<1>1. L \in Nat /\ DOMAIN s.phases = 1..L /\ begun_by \subseteq 1..L
  BY ScenarioAssumption
<1>2. IsFiniteSet(1..L) /\ Cardinality(1..L) = IF 1 > L THEN 0 ELSE L - 1 + 1
  <2>1. 1 \in Int /\ L \in Int
    BY <1>1
  <2> QED
    BY <2>1, FS_Interval, Zenon
<1>3. IsFiniteSet(begun_by) /\ Cardinality(begun_by) <= Cardinality(1..L)
  BY <1>1, <1>2, FS_Subset
<1>4. Cardinality(begun_by) \in Nat
  BY <1>3, FS_CardinalityType
<1> QED
  BY <1>1, <1>2, <1>3, <1>4 DEF PhaseOf

LEMMA BoundsSlice ==
  ASSUME PhaseInv, pc = "c.phases", NEW n \in DOMAIN done
  PROVE  n \in Bounds[1]..Bounds[2] <=> /\ PhaseOf(n) >= phase[1]
                                        /\ phase[2] # 0 => PhaseOf(n) <= phase[2]
<1>1. PICK s \in Scenarios : scenario = s
  BY DEF PhaseInv, CLabels
<1> DEFINE L == Len(s.phases)
<1>2. L \in Nat /\ DOMAIN s.phases = 1..L /\ \A q \in 1..L : s.phases[q] \in Nat
  BY ScenarioAssumption
<1>3. PICK first \in 0..L, last \in 0..L : phase[1] = first /\ phase[2] = last
  BY <1>1 DEF PhaseInv, CLabels
<1>4. Len(done) \in Nat /\ n \in 1..Len(done)
  BY DEF PhaseInv, IsSequence
<1>5. PhaseOf(n) \in 0..L
  <2>1. n \in Nat
    BY <1>4
  <2> QED
    BY <1>1, <2>1, PhaseCount, Zenon
<1>6. n >= Bounds[1] <=> PhaseOf(n) >= first
  <2>1. CASE first = 0
    BY <1>3, <1>4, <1>5, <2>1 DEF Bounds
  <2>2. CASE first # 0
    <3>1. first \in 1..L /\ Bounds[1] = s.phases[first]
      BY <1>1, <1>2, <1>3, <2>2 DEF Bounds, FirstStep
    <3>2. PhaseOf(n) >= first <=> s.phases[first] <= n
      <4>1. n \in Nat /\ first \in DOMAIN s.phases
        BY <1>2, <1>4, <3>1
      <4> QED
        BY <1>1, <4>1, PhaseReached, Zenon
    <3> QED
      BY <1>2, <1>4, <3>1, <3>2
  <2> QED
    BY <2>1, <2>2
<1>7. n <= Bounds[2] <=> (last # 0 => PhaseOf(n) <= last)
  <2>1. CASE last = 0
    BY <1>3, <1>4, <2>1 DEF Bounds
  <2>2. CASE last = L /\ last # 0
    BY <1>1, <1>2, <1>3, <1>4, <1>5, <2>2 DEF Bounds, LastStep
  <2>3. CASE last \in 1..L - 1
    <3>1. last + 1 \in 1..L /\ Bounds[2] = s.phases[last + 1] - 1 /\ s.phases[last + 1] \in Nat
      BY <1>1, <1>2, <1>3, <2>3 DEF Bounds, LastStep
    <3>2. PhaseOf(n) >= last + 1 <=> s.phases[last + 1] <= n
      <4>1. n \in Nat /\ last + 1 \in DOMAIN s.phases
        BY <1>2, <1>4, <3>1
      <4> QED
        BY <1>1, <4>1, PhaseReached, Zenon
    <3> QED
      BY <1>3, <1>4, <1>5, <2>3, <3>1, <3>2
  <2> QED
    BY <1>2, <2>1, <2>2, <2>3
<1>8. Bounds[1] \in Int /\ Bounds[2] \in Int
  <2>1. first # 0 => s.phases[first] \in Nat
    BY <1>2
  <2>2. last \in 1..L - 1 => s.phases[last + 1] \in Nat
    BY <1>2
  <2>3. last = 0 \/ last = L \/ last \in 1..L - 1
    BY <1>2
  <2> QED
    BY <1>1, <1>2, <1>3, <1>4, <2>1, <2>2, <2>3 DEF Bounds, FirstStep, LastStep
<1> QED
  BY <1>3, <1>4, <1>6, <1>7, <1>8

LEMMA PhaseStep ==
  ASSUME PhaseInv, StartLoad \/ CNext
  PROVE  PhaseInv'
<1> USE DEF Exit, Goto, At
<1>1. IsSequence(<<>>)
  BY DEF IsSequence, ToSet
<1>2. CASE StartLoad
  <2>1. UNCHANGED done /\ pc' = "c.find" /\ scenario' \in Scenarios
        /\ phase' \in (0..Len(scenario'.phases)) \X (0..Len(scenario'.phases))
    BY <1>2 DEF StartLoad
  <2> QED
    BY <2>1 DEF PhaseInv, PhaseSlice, Loaded, CLabels, IsSequence, ToSet
<1>3. CASE CNext
  <2>1. UNCHANGED <<scenario, phase>> /\ pc \in CLabels /\ pc' \in CLabels \cup {"exited"}
    BY <1>3 DEF CNext, Find, Import, Imported, Expand, ExpandAside, Open, Expanded, RenderAll, ResolvePhases, Take, Keep,
                Stop, Raise, cVars, CLabels
  <2>2. ASSUME IsSequence(done'), pc' # "exited" \/ code' # 0
        PROVE  PhaseInv'
    BY <2>1, <2>2 DEF PhaseInv, PhaseSlice, Loaded, IsSequence
  <2>3. CASE UNCHANGED done /\ (pc' # "exited" \/ code' # 0)
    BY <2>2, <2>3 DEF PhaseInv
  <2>4. CASE Find \/ Expanded
    BY <2>3, <2>4 DEF Find, Expanded, cVars
  <2>5. CASE Import \/ Expand
    <3>1. CASE Keep
      BY <2>1, <2>2, <2>5, <3>1, AppendIsSequence DEF Keep, PhaseInv, CLabels
    <3>2. CASE Stop
      BY <1>1, <2>2, <3>2 DEF Stop, Raise
    <3>3. pc \in CLabels \ {"exited"}
      BY <2>1 DEF CLabels
    <3> QED
      BY <2>3, <2>5, <3>1, <3>2, <3>3 DEF Import, Expand, Open
  <2>6. CASE Imported
    BY <1>1, <2>2, <2>6 DEF Imported
  <2>7. CASE RenderAll
    BY <1>1, <2>2, <2>7, RenderIsSequence DEF RenderAll, PhaseInv
  <2>8. CASE ResolvePhases
    <3>1. CASE pc' = "exited" /\ code' = 1
      BY <2>3, <2>8, <3>1 DEF ResolvePhases
    <3>2. CASE slice' = Bounds
      <4>1. pc = "c.phases" /\ UNCHANGED done
        BY <2>8 DEF ResolvePhases
      <4>2. PhaseSlice'
        BY <2>1, <3>2, <4>1, BoundsSlice DEF PhaseSlice, PhaseOf
      <4> QED
        BY <2>1, <4>1, <4>2 DEF PhaseInv, IsSequence
    <3> QED
      BY <2>8, <3>1, <3>2 DEF ResolvePhases
  <2>9. CASE ExpandAside
    <3>1. CASE Stop
      BY <1>1, <2>2, <3>1 DEF Stop, Raise
    <3> QED
      BY <2>3, <2>9, <3>1 DEF ExpandAside
  <2> QED
    BY <1>3, <2>4, <2>5, <2>6, <2>7, <2>8, <2>9 DEF CNext
<1> QED
  BY <1>2, <1>3

-----------------------------------------------------------------------------
(* Sequences put one after the other (FlattenSeq), by the last of them. *)

\* f[i] is what the first i sequences of ss are, put one after the other
Joins(f, ss, n) == \A i \in 1..n : f[i] = IF i = 1 THEN ss[i] ELSE f[i - 1] \o ss[i]

\* the recursion that FlattenSeq is written with has a solution, and only one
LEMMA JoinExists ==
  ASSUME NEW T, NEW ss \in Seq(Seq(T)), NEW n \in 0..Len(ss)
  PROVE  \E f \in [1..n -> Seq(T)] : Joins(f, ss, n)
<1> DEFINE Can(k) == \E f \in [1..k -> Seq(T)] : Joins(f, ss, k)
           Failing == {k \in 0..Len(ss) : ~Can(k)}
<1>1. SUFFICES ASSUME Failing # {} PROVE FALSE
  OBVIOUS
<1>2. Failing \in SUBSET Nat
  OBVIOUS
<1> HIDE DEF Can
<1>3. PICK k \in Failing : \A l \in Failing : k <= l
  <2> HIDE DEF Failing
  <2> QED
    BY <1>1, <1>2, LeastOf
<1>4. k # 0
  <2>1. [i \in 1..0 |-> <<>>] \in [1..0 -> Seq(T)]
    OBVIOUS
  <2>2. \A i \in 1..0 : FALSE
    OBVIOUS
  <2>3. Can(0)
    BY <2>1, <2>2, Zenon DEF Can, Joins
  <2> QED
    BY <1>3, <2>3
<1>5. k - 1 \in 0..Len(ss) /\ k \in 1..Len(ss) /\ Can(k - 1)
  BY <1>3, <1>4
<1>6. PICK f \in [1..(k - 1) -> Seq(T)] : Joins(f, ss, (k - 1))
  BY <1>5 DEF Can
<1>7. ss[k] \in Seq(T)
  BY <1>5
<1> DEFINE last == IF k = 1 THEN ss[k] ELSE f[k - 1] \o ss[k]
<1>8. last \in Seq(T)
  <2>1. CASE k = 1
    BY <1>7, <2>1
  <2>2. CASE k # 1
    <3>1. f[k - 1] \in Seq(T)
      BY <1>5, <1>6, <2>2
    <3> QED
      BY <1>7, <2>2, <3>1, ConcatProperties
  <2> QED
    BY <2>1, <2>2
<1> HIDE DEF last
<1>9. [i \in 1..k |-> IF i = k THEN last ELSE f[i]] \in [1..k -> Seq(T)]
  BY <1>5, <1>6, <1>8
<1>10. PICK g : g = [i \in 1..k |-> IF i = k THEN last ELSE f[i]]
  OBVIOUS
<1>11. ASSUME NEW i \in 1..k PROVE g[i] = IF i = 1 THEN ss[i] ELSE g[i - 1] \o ss[i]
  <2>1. CASE i = k
    BY <1>5, <1>10, <2>1 DEF last
  <2>2. CASE i # k
    <3>1. i \in 1..(k - 1) /\ g[i] = f[i] /\ (i # 1 => g[i - 1] = f[i - 1])
      BY <1>5, <1>10, <2>2
    <3> QED
      BY <1>6, <3>1 DEF Joins
  <2> QED
    BY <2>1, <2>2
<1>12. Can(k)
  BY <1>9, <1>10, <1>11 DEF Can, Joins
<1> QED
  BY <1>3, <1>12


\* f and g are the same up to n
Agree(f, g, n) == \A i \in 1..n : f[i] = g[i]

LEMMA JoinUnique ==
  ASSUME NEW n \in Nat, NEW s, NEW t, NEW f, NEW g,
         Agree(s, t, n), Joins(f, s, n), Joins(g, t, n)
  PROVE  Agree(f, g, n)
<1> DEFINE Differ == {i \in 1..n : f[i] # g[i]}
<1>1. SUFFICES ASSUME Differ # {} PROVE FALSE
  BY DEF Agree
<1>2. PICK k \in Differ : \A l \in Differ : k <= l
  <2>1. Differ \in SUBSET Nat
    OBVIOUS
  <2> HIDE DEF Differ
  <2> QED
    BY <1>1, <2>1, LeastOf
<1>3. CASE k = 1
  BY <1>2, <1>3 DEF Agree, Joins
<1>4. CASE k # 1
  <2>1. k - 1 \in 1..n /\ k - 1 \notin Differ
    BY <1>2, <1>4
  <2>2. f[k - 1] = g[k - 1]
    BY <2>1
  <2> QED
    BY <1>2, <1>4, <2>2 DEF Agree, Joins
<1> QED
  BY <1>3, <1>4

LEMMA FlattenIs ==
  ASSUME NEW T, NEW ss \in Seq(Seq(T)), ss # <<>>
  PROVE  \E f \in [1..Len(ss) -> Seq(T)] :
           /\ Joins(f, ss, Len(ss))
           /\ FlattenSeq(ss) = f[Len(ss)]
<1>1. Len(ss) \in Nat /\ Len(ss) # 0
  BY EmptySeq
<1> DEFINE n == Len(ss)
           g == CHOOSE f : f = [i \in 1..n |-> IF i = 1 THEN ss[i] ELSE f[i - 1] \o ss[i]]
<1>2. PICK f \in [1..n -> Seq(T)] : Joins(f, ss, n)
  <2>1. n \in 0..Len(ss)
    BY <1>1
  <2> QED
    BY <2>1, JoinExists, Zenon
<1>3. f = [i \in 1..n |-> IF i = 1 THEN ss[i] ELSE f[i - 1] \o ss[i]]
  BY <1>2 DEF Joins
<1>4. g = [i \in 1..n |-> IF i = 1 THEN ss[i] ELSE g[i - 1] \o ss[i]]
  BY <1>3
<1>5. FlattenSeq(ss) = g[n]
  BY <1>1 DEF FlattenSeq
<1> HIDE DEF g
<1>6. Joins(g, ss, n)
  BY <1>4 DEF Joins
<1>7. \A i \in 1..n : f[i] = g[i]
  <2>1. Agree(ss, ss, n)
    BY DEF Agree
  <2> QED
    BY <1>1, <1>2, <1>6, <2>1, JoinUnique DEF Agree
<1>8. n \in 1..n
  BY <1>1
<1> QED
  BY <1>2, <1>5, <1>7, <1>8

LEMMA FlattenLonger ==
  ASSUME NEW T, NEW ss \in Seq(Seq(T)), ss # <<>>, NEW n \in Nat, n = Len(ss),
         NEW uu \in Seq(Seq(T)), Len(uu) = n + 1, Agree(ss, uu, n)
  PROVE  /\ FlattenSeq(ss) \in Seq(T)
         /\ FlattenSeq(uu) = FlattenSeq(ss) \o uu[n + 1]
<1>1. n # 0 /\ uu # <<>>
  BY EmptySeq
<1>2. PICK f \in [1..n -> Seq(T)] : Joins(f, ss, n) /\ FlattenSeq(ss) = f[n]
  BY FlattenIs
<1>3. PICK g \in [1..n + 1 -> Seq(T)] : Joins(g, uu, n + 1) /\ FlattenSeq(uu) = g[n + 1]
  BY <1>1, FlattenIs
<1>4. Joins(g, uu, n)
  <2>1. \A i \in 1..n : i \in 1..n + 1
    OBVIOUS
  <2> QED
    BY <1>3, <2>1 DEF Joins
<1>5. \A i \in 1..n : f[i] = g[i]
  <2>2. Agree(f, g, n)
    BY <1>2, <1>4, JoinUnique, Zenon
  <2> QED
    BY <2>2 DEF Agree
<1>6. g[n + 1] = g[n] \o uu[n + 1]
  <2>1. n + 1 \in 1..n + 1 /\ n + 1 # 1 /\ (n + 1) - 1 = n
    BY <1>1
  <2> QED
    BY <1>3, <2>1 DEF Joins
<1>7. n \in 1..n
  BY <1>1
<1> QED
  BY <1>2, <1>3, <1>5, <1>6, <1>7

\* FlattenSeq, by the last of the sequences
LEMMA FlattenAppend ==
  ASSUME NEW T, NEW ss \in Seq(Seq(T)), NEW t \in Seq(T)
  PROVE  /\ FlattenSeq(ss) \in Seq(T)
         /\ FlattenSeq(Append(ss, t)) = FlattenSeq(ss) \o t
<1>1. PICK uu : uu = Append(ss, t)
  OBVIOUS
<1>2. PICK n \in Nat : n = Len(ss)
  OBVIOUS
<1>3. uu \in Seq(Seq(T)) /\ uu # <<>> /\ Len(uu) = n + 1 /\ uu[n + 1] = t /\ Agree(ss, uu, n)
  BY <1>1, <1>2, AppendProperties DEF Agree
<1>4. CASE ss = <<>>
  <2>1. n = 0 /\ FlattenSeq(ss) = <<>>
    BY <1>2, <1>4 DEF FlattenSeq
  <2>2. PICK g : Joins(g, uu, Len(uu)) /\ FlattenSeq(uu) = g[Len(uu)]
    BY <1>3, FlattenIs, Zenon
  <2>3. FlattenSeq(uu) = t
    BY <1>3, <2>1, <2>2 DEF Joins
  <2>4. <<>> \o t = t
    BY ConcatEmptySeq
  <2>5. <<>> \in Seq(T)
    BY EmptySeq
  <2> QED
    BY <1>1, <2>1, <2>3, <2>4, <2>5
<1>5. CASE ss # <<>>
  <2>1. FlattenSeq(ss) \in Seq(T) /\ FlattenSeq(uu) = FlattenSeq(ss) \o uu[n + 1]
    BY <1>2, <1>3, <1>5, FlattenLonger, Zenon
  <2> QED
    BY <1>1, <1>3, <2>1
<1> QED
  BY <1>4, <1>5

\* k + 1, left unexpanded where a step only needs that one number follows the other
Following(k) == k + 1

\* induction, for a set of numbers
LEMMA Inductive ==
  ASSUME NEW S, 0 \in S, \A k \in Nat : k \in S => Following(k) \in S
  PROVE  \A k \in Nat : k \in S
<1> DEFINE Left == Nat \ S
<1>1. SUFFICES ASSUME Left # {} PROVE FALSE
  OBVIOUS
<1>2. PICK k \in Left : \A l \in Left : k <= l
  <2>1. Left \in SUBSET Nat
    OBVIOUS
  <2> HIDE DEF Left
  <2> QED
    BY <1>1, <2>1, LeastOf
<1>3. k # 0 /\ k - 1 \in Nat /\ k - 1 \notin Left
  BY <1>2
<1>4. k - 1 \in S /\ Following(k - 1) = k
  BY <1>3 DEF Following
<1> QED
  BY <1>2, <1>3, <1>4

LEMMA FlattenFew ==
  ASSUME NEW T, NEW s \in Seq(T)
  PROVE  FlattenSeq(<<>>) = <<>> /\ FlattenSeq(<<s>>) = s
<1>1. Len(<<>>) = 0 /\ <<>> \in Seq(Seq(T)) /\ <<>> \in Seq(T)
  BY EmptySeq
<1>2. FlattenSeq(<<>>) = <<>>
  BY <1>1 DEF FlattenSeq
<1>3. Append(<<>>, s) = <<s>>
  OBVIOUS
<1>4. FlattenSeq(Append(<<>>, s)) = FlattenSeq(<<>>) \o s
  BY <1>1, FlattenAppend, Zenon
<1>5. <<>> \o s = s
  BY ConcatEmptySeq
<1> QED
  BY <1>2, <1>3, <1>4, <1>5

Associative(T) == \A x, y, z \in Seq(T) : (x \o y) \o z = x \o (y \o z)
LEMMA ConcatIsAssociative == \A T : Associative(T)
BY ConcatAssociative DEF Associative

AppendsLast(T) == \A x, y \in Seq(T), e \in T : x \o Append(y, e) = Append(x \o y, e) /\ x \o y \in Seq(T)
LEMMA ConcatAppendsLast == \A T : AppendsLast(T)
BY DEF AppendsLast

LEMMA FlattenConcat ==
  ASSUME NEW T, NEW a \in Seq(Seq(T)), NEW b \in Seq(Seq(T))
  PROVE  FlattenSeq(a \o b) = FlattenSeq(a) \o FlattenSeq(b)
<1>0. Associative(T) /\ AppendsLast(Seq(T))
  BY ConcatIsAssociative, ConcatAppendsLast
<1> DEFINE S == {n \in Nat : \A c \in Seq(Seq(T)) : Len(c) = n => FlattenSeq(a \o c) = FlattenSeq(a) \o FlattenSeq(c)}
<1>1. FlattenSeq(a) \in Seq(T)
  <2>1. <<>> \in Seq(T)
    BY EmptySeq
  <2> QED
    BY <2>1, FlattenAppend
<1>2. 0 \in S
  <2>1. ASSUME NEW c \in Seq(Seq(T)), Len(c) = 0
        PROVE  FlattenSeq(a \o c) = FlattenSeq(a) \o FlattenSeq(c)
    <3>1. c = <<>>
      BY <2>1, EmptySeq
    <3>2. a \o <<>> = a /\ FlattenSeq(a) \o <<>> = FlattenSeq(a)
      BY <1>1, ConcatEmptySeq
    <3>3. FlattenSeq(<<>>) = <<>>
      BY FlattenFew, EmptySeq
    <3> QED
      BY <3>1, <3>2, <3>3
  <2> QED
    BY <2>1
<1>3. ASSUME NEW n \in Nat, n \in S PROVE Following(n) \in S
  <2>1. ASSUME NEW c \in Seq(Seq(T)), Len(c) = n + 1
        PROVE  FlattenSeq(a \o c) = FlattenSeq(a) \o FlattenSeq(c)
    <3>1. PICK d \in Seq(Seq(T)), e \in Seq(T) : Len(d) = n /\ c = Append(d, e)
      <4>1. c # <<>>
        BY <2>1, EmptySeq
      <4>2. PICK d \in Seq(Seq(T)), e \in Seq(T) : c = Append(d, e)
        BY <4>1, SequenceEmptyOrAppend
      <4>3. Len(d) \in Nat /\ Len(Append(d, e)) = Len(d) + 1
        OBVIOUS
      <4>4. Len(d) = n
        BY <2>1, <4>2, <4>3
      <4> QED
        BY <4>2, <4>4, Zenon
    <3>2. FlattenSeq(a \o d) = FlattenSeq(a) \o FlattenSeq(d)
      BY <1>3, <3>1
    <3>3. a \o Append(d, e) = Append(a \o d, e) /\ a \o d \in Seq(Seq(T))
      BY <1>0, Zenon DEF AppendsLast
    <3>4. FlattenSeq(Append(a \o d, e)) = FlattenSeq(a \o d) \o e
      BY <3>3, FlattenAppend, Zenon
    <3>5. FlattenSeq(Append(d, e)) = FlattenSeq(d) \o e /\ FlattenSeq(d) \in Seq(T)
      BY FlattenAppend, Zenon
    <3>6. (FlattenSeq(a) \o FlattenSeq(d)) \o e = FlattenSeq(a) \o (FlattenSeq(d) \o e)
      <4>1. PICK x \in Seq(T), y \in Seq(T) : x = FlattenSeq(a) /\ y = FlattenSeq(d)
        BY <1>1, <3>5
      <4>2. (x \o y) \o e = x \o (y \o e)
        BY <1>0, Zenon DEF Associative
      <4> QED
        BY <4>1, <4>2
    <3> QED
      BY <3>1, <3>2, <3>3, <3>4, <3>5, <3>6
  <2> QED
    BY <2>1 DEF Following
<1>4. \A n \in Nat : n \in S
  <2> HIDE DEF S
  <2> QED
    BY <1>2, <1>3, Inductive
<1>5. Len(b) \in Nat
  OBVIOUS
<1> QED
  BY <1>4, <1>5

\* every item that stands for others stands for a sequence of them
Replaces(stands, T) == stands \in [DOMAIN stands -> Seq(T)]

LEMMA MapIn ==
  ASSUME NEW T, NEW stands, Replaces(stands, T), NEW s \in Seq(T)
  PROVE  [i \in DOMAIN s |-> InPlace(s[i], stands)] \in Seq(Seq(T))
<1>1. \A x \in T : InPlace(x, stands) \in Seq(T)
  BY DEF InPlace, Replaces
<1>2. DOMAIN s = 1..Len(s) /\ Len(s) \in Nat /\ \A i \in 1..Len(s) : s[i] \in T
  OBVIOUS
<1> QED
  BY <1>1, <1>2

LEMMA PassType ==
  ASSUME NEW T, NEW stands, Replaces(stands, T), NEW s \in Seq(T)
  PROVE  Pass(s, stands) \in Seq(T)
<1>1. <<>> \in Seq(T)
  BY EmptySeq
<1> QED
  BY <1>1, MapIn, FlattenAppend DEF Pass

LEMMA PassEmpty == \A stands : Pass(<<>>, stands) = <<>>
<1>1. \A stands : [i \in DOMAIN <<>> |-> InPlace(<<>>[i], stands)] = <<>>
  OBVIOUS
<1>2. FlattenSeq(<<>>) = <<>>
  <2>1. <<>> \in Seq({})
    BY EmptySeq
  <2> QED
    BY <2>1, FlattenFew
<1> QED
  BY <1>1, <1>2 DEF Pass

LEMMA PassFew ==
  ASSUME NEW T, NEW stands, Replaces(stands, T), NEW x \in T
  PROVE  Pass(<<x>>, stands) = InPlace(x, stands)
<1>1. InPlace(x, stands) \in Seq(T)
  BY DEF InPlace, Replaces
<1>2. [i \in DOMAIN <<x>> |-> InPlace(<<x>>[i], stands)] = <<InPlace(x, stands)>>
  OBVIOUS
<1> QED
  BY <1>1, <1>2, FlattenFew DEF Pass

\* a pass does with the parts of a sequence what it does with the whole
LEMMA PassConcat ==
  ASSUME NEW T, NEW stands, Replaces(stands, T), NEW s \in Seq(T), NEW t \in Seq(T)
  PROVE  Pass(s \o t, stands) = Pass(s, stands) \o Pass(t, stands)
<1>1. s \o t \in Seq(T) /\ Len(s \o t) = Len(s) + Len(t) /\ Len(s) \in Nat /\ Len(t) \in Nat
  OBVIOUS
<1>2. PICK u : u = [i \in DOMAIN s |-> InPlace(s[i], stands)]
  OBVIOUS
<1>3. PICK v : v = [i \in DOMAIN t |-> InPlace(t[i], stands)]
  OBVIOUS
<1>4. PICK w : w = [i \in DOMAIN (s \o t) |-> InPlace((s \o t)[i], stands)]
  OBVIOUS
<1>5. u \in Seq(Seq(T)) /\ v \in Seq(Seq(T))
  BY <1>2, <1>3, MapIn, Zenon
<1>6. w \in Seq(Seq(T))
  BY <1>1, <1>4, MapIn, Zenon
<1>7. Len(u) = Len(s) /\ Len(v) = Len(t) /\ Len(w) = Len(s) + Len(t)
  BY <1>1, <1>2, <1>3, <1>4, <1>5, <1>6
<1>8. u \o v \in Seq(Seq(T)) /\ Len(u \o v) = Len(s) + Len(t)
      /\ \A i \in 1..Len(s) + Len(t) : (u \o v)[i] = IF i <= Len(s) THEN u[i] ELSE v[i - Len(s)]
  <2>1. /\ u \o v \in Seq(Seq(T)) /\ Len(u \o v) = Len(u) + Len(v)
        /\ \A i \in 1..Len(u) + Len(v) : (u \o v)[i] = IF i <= Len(u) THEN u[i] ELSE v[i - Len(u)]
    BY <1>5, ConcatProperties, Zenon
  <2> QED
    BY <1>7, <2>1, Zenon
<1>9. ASSUME NEW i \in 1..Len(s) + Len(t) PROVE w[i] = (u \o v)[i]
  <2>1. w[i] = InPlace((s \o t)[i], stands)
    BY <1>1, <1>4
  <2>2. (s \o t)[i] = IF i <= Len(s) THEN s[i] ELSE t[i - Len(s)]
    BY ConcatProperties
  <2>3. i <= Len(s) => u[i] = InPlace(s[i], stands)
    BY <1>1, <1>2
  <2>4. ~(i <= Len(s)) => v[i - Len(s)] = InPlace(t[i - Len(s)], stands)
    BY <1>1, <1>3
  <2> QED
    BY <1>8, <2>1, <2>2, <2>3, <2>4
<1>10. w = u \o v
  BY <1>6, <1>7, <1>8, <1>9, SeqEqual
<1>11. FlattenSeq(u \o v) = FlattenSeq(u) \o FlattenSeq(v)
  BY <1>5, FlattenConcat, Zenon
<1> QED
  BY <1>2, <1>3, <1>4, <1>10, <1>11 DEF Pass

-----------------------------------------------------------------------------
(* Levels: passes over a sequence of items, each of which replaces the items *)
(* that stand for others. *)

\* f[k] is what k passes make of items
Passes(f, items, stands, depth) == \A k \in 0..depth : f[k] = IF k = 0 THEN items ELSE Pass(f[k - 1], stands)

\* the passes exist, and the same ones whatever their number
LEMMA PassesExist ==
  ASSUME NEW T, NEW stands, Replaces(stands, T), NEW s \in Seq(T), NEW depth \in Nat
  PROVE  \E f \in [0..depth -> Seq(T)] : Passes(f, s, stands, depth)
<1> DEFINE S == {n \in Nat : \E f \in [0..n -> Seq(T)] : Passes(f, s, stands, n)}
<1>1. 0 \in S
  <2>1. [k \in 0..0 |-> s] \in [0..0 -> Seq(T)] /\ Passes([k \in 0..0 |-> s], s, stands, 0)
    BY DEF Passes
  <2> QED
    BY <2>1
<1>2. ASSUME NEW n \in Nat, n \in S PROVE Following(n) \in S
  <2>1. PICK f \in [0..n -> Seq(T)] : Passes(f, s, stands, n)
    BY <1>2
  <2>2. PICK last \in Seq(T) : last = Pass(f[n], stands)
    <3>1. f[n] \in Seq(T)
      OBVIOUS
    <3> QED
      BY <3>1, PassType, Zenon
  <2>3. PICK g \in [0..n + 1 -> Seq(T)] : g = [k \in 0..n + 1 |-> IF k = n + 1 THEN last ELSE f[k]]
    <3>1. [k \in 0..n + 1 |-> IF k = n + 1 THEN last ELSE f[k]] \in [0..n + 1 -> Seq(T)]
      OBVIOUS
    <3> QED
      BY <3>1, Zenon
  <2>4. ASSUME NEW k \in 0..n + 1 PROVE g[k] = IF k = 0 THEN s ELSE Pass(g[k - 1], stands)
    <3>1. CASE k = n + 1
      BY <2>2, <2>3, <3>1
    <3>2. CASE k # n + 1
      <4>1. k \in 0..n /\ g[k] = f[k] /\ (k # 0 => g[k - 1] = f[k - 1])
        BY <2>3, <3>2
      <4> QED
        BY <2>1, <4>1 DEF Passes
    <3> QED
      BY <3>1, <3>2
  <2>5. Passes(g, s, stands, n + 1)
    BY <2>4 DEF Passes
  <2> QED
    BY <2>5 DEF Following
<1>3. \A n \in Nat : n \in S
  <2> HIDE DEF S
  <2> QED
    BY <1>1, <1>2, Inductive
<1> QED
  BY <1>3

LEMMA PassesUnique ==
  ASSUME NEW s, NEW stands, NEW n \in Nat, NEW m \in Nat, n <= m, NEW f, NEW g,
         Passes(f, s, stands, n), Passes(g, s, stands, m)
  PROVE  \A k \in 0..n : f[k] = g[k]
<1> DEFINE S == {k \in Nat : k \in 0..n => f[k] = g[k]}
<1>1. 0 \in S
  BY DEF Passes
<1>2. ASSUME NEW k \in Nat, k \in S PROVE Following(k) \in S
  <2>1. SUFFICES ASSUME k + 1 \in 0..n PROVE f[k + 1] = g[k + 1]
    BY DEF Following
  <2>2. f[k] = g[k] /\ k + 1 \in 0..m /\ (k + 1) - 1 = k
    BY <1>2, <2>1
  <2>3. f[k + 1] = Pass(f[k], stands)
    BY <2>1, <2>2 DEF Passes
  <2>4. g[k + 1] = Pass(g[k], stands)
    BY <2>1, <2>2 DEF Passes
  <2> QED
    BY <2>2, <2>3, <2>4 DEF Following
<1>3. \A k \in Nat : k \in S
  <2> HIDE DEF S
  <2> QED
    BY <1>1, <1>2, Inductive
<1> QED
  BY <1>3

LEMMA LevelsAre ==
  ASSUME NEW T, NEW stands, Replaces(stands, T), NEW s \in Seq(T), NEW depth \in Nat
  PROVE  \E f : Passes(f, s, stands, depth) /\ Levels(s, stands, depth) = f[depth] /\ f[depth] \in Seq(T)
<1> DEFINE g == CHOOSE f : f = [k \in 0..depth |-> IF k = 0 THEN s ELSE Pass(f[k - 1], stands)]
<1>1. PICK f \in [0..depth -> Seq(T)] : Passes(f, s, stands, depth)
  BY PassesExist
<1>2. f = [k \in 0..depth |-> IF k = 0 THEN s ELSE Pass(f[k - 1], stands)]
  BY <1>1 DEF Passes
<1>3. g = [k \in 0..depth |-> IF k = 0 THEN s ELSE Pass(g[k - 1], stands)]
  BY <1>2
<1>4. Levels(s, stands, depth) = g[depth]
  BY DEF Levels
<1> HIDE DEF g
<1>5. Passes(g, s, stands, depth)
  BY <1>3 DEF Passes
<1>6. f[depth] = g[depth]
  BY <1>1, <1>5, PassesUnique
<1>7. f[depth] \in Seq(T)
  BY <1>1
<1> QED
  BY <1>1, <1>4, <1>6, <1>7, Zenon

\* Levels, by the last of the passes
LEMMA LevelsNext ==
  ASSUME NEW T, NEW stands, Replaces(stands, T), NEW s \in Seq(T), NEW k \in Nat
  PROVE  /\ Levels(s, stands, 0) = s
         /\ Levels(s, stands, k) \in Seq(T)
         /\ Levels(s, stands, Following(k)) = Pass(Levels(s, stands, k), stands)
<1>1. PICK e : Passes(e, s, stands, 0) /\ Levels(s, stands, 0) = e[0]
  BY LevelsAre
<1>2. PICK f : Passes(f, s, stands, k) /\ Levels(s, stands, k) = f[k] /\ f[k] \in Seq(T)
  BY LevelsAre, Zenon
<1>3. PICK m \in Nat : m = k + 1
  OBVIOUS
<1>4. PICK g : Passes(g, s, stands, m) /\ Levels(s, stands, m) = g[m] /\ g[m] \in Seq(T)
  BY LevelsAre, Zenon
<1>5. f[k] = g[k]
  <2>1. k <= m /\ k \in 0..k
    BY <1>3
  <2>2. \A l \in 0..k : f[l] = g[l]
    BY <1>2, <1>4, <2>1, PassesUnique
  <2> QED
    BY <2>1, <2>2
<1>6. g[m] = Pass(g[k], stands)
  BY <1>3, <1>4 DEF Passes
<1>7. e[0] = s
  BY <1>1 DEF Passes
<1>8. Following(k) = m
  BY <1>3 DEF Following
<1> QED
  BY <1>1, <1>2, <1>4, <1>5, <1>6, <1>7, <1>8, Zenon

\* Levels, by the first of the passes
LEMMA LevelsFirst ==
  ASSUME NEW T, NEW stands, Replaces(stands, T), NEW s \in Seq(T), NEW k \in Nat
  PROVE  Levels(s, stands, Following(k)) = Levels(Pass(s, stands), stands, k)
<1>1. PICK p \in Seq(T) : p = Pass(s, stands)
  BY PassType
<1>2. 0 \in Nat /\ \A n \in Nat : Following(n) \in Nat
  BY DEF Following
<1>0. \A u \in Seq(T), n \in Nat : /\ Levels(u, stands, 0) = u
                                   /\ Levels(u, stands, n) \in Seq(T)
                                   /\ Levels(u, stands, Following(n)) = Pass(Levels(u, stands, n), stands)
  BY LevelsNext
<1> DEFINE S == {n \in Nat : Levels(s, stands, Following(n)) = Levels(p, stands, n)}
<1>3. 0 \in S
  <2>1. Levels(s, stands, Following(0)) = Pass(Levels(s, stands, 0), stands) /\ Levels(s, stands, 0) = s
    BY <1>0, <1>2
  <2>2. Levels(p, stands, 0) = p
    BY <1>0, <1>2
  <2> QED
    BY <1>1, <1>2, <2>1, <2>2, Zenon
<1>4. ASSUME NEW n \in Nat, n \in S PROVE Following(n) \in S
  <2>1. PICK m \in Nat : m = Following(n)
    BY <1>2
  <2>2. Levels(s, stands, Following(m)) = Pass(Levels(s, stands, m), stands)
    BY <1>0
  <2>3. Levels(p, stands, Following(n)) = Pass(Levels(p, stands, n), stands)
    BY <1>0
  <2> QED
    BY <1>4, <2>1, <2>2, <2>3
<1>5. \A n \in Nat : n \in S
  <2> HIDE DEF S
  <2> QED
    BY <1>3, <1>4, Inductive
<1> QED
  BY <1>1, <1>5

LEMMA LevelsConcat ==
  ASSUME NEW T, NEW stands, Replaces(stands, T), NEW s \in Seq(T), NEW t \in Seq(T), NEW k \in Nat
  PROVE  Levels(s \o t, stands, k) = Levels(s, stands, k) \o Levels(t, stands, k)
<1>0. \A u \in Seq(T), n \in Nat : /\ Levels(u, stands, 0) = u
                                   /\ Levels(u, stands, n) \in Seq(T)
                                   /\ Levels(u, stands, Following(n)) = Pass(Levels(u, stands, n), stands)
  BY LevelsNext
<1> DEFINE S == {n \in Nat : Levels(s \o t, stands, n) = Levels(s, stands, n) \o Levels(t, stands, n)}
<1>1. s \o t \in Seq(T) /\ 0 \in Nat /\ \A n \in Nat : Following(n) \in Nat
  BY DEF Following
<1>2. 0 \in S
  <2>1. Levels(s \o t, stands, 0) = s \o t /\ Levels(s, stands, 0) = s /\ Levels(t, stands, 0) = t
    BY <1>0, <1>1
  <2> QED
    BY <1>1, <2>1, Zenon
<1>3. ASSUME NEW n \in Nat, n \in S PROVE Following(n) \in S
  <2>1. PICK u \in Seq(T) : u = Levels(s, stands, n) /\ Levels(s, stands, Following(n)) = Pass(u, stands)
    BY <1>0
  <2>2. PICK v \in Seq(T) : v = Levels(t, stands, n) /\ Levels(t, stands, Following(n)) = Pass(v, stands)
    BY <1>0
  <2>3. Levels(s \o t, stands, Following(n)) = Pass(Levels(s \o t, stands, n), stands)
    BY <1>0, <1>1
  <2>4. Levels(s \o t, stands, n) = u \o v
    BY <1>3, <2>1, <2>2, Zenon
  <2>5. Pass(u \o v, stands) = Pass(u, stands) \o Pass(v, stands)
    BY PassConcat, Zenon
  <2> QED
    BY <1>1, <2>1, <2>2, <2>3, <2>4, <2>5, Zenon
<1>4. \A n \in Nat : n \in S
  <2> HIDE DEF S
  <2> QED
    BY <1>2, <1>3, Inductive
<1> QED
  BY <1>4

LEMMA LevelsEmpty ==
  ASSUME NEW T, NEW stands, Replaces(stands, T), NEW k \in Nat
  PROVE  Levels(<<>>, stands, k) = <<>>
<1>0. \A u \in Seq(T), n \in Nat : /\ Levels(u, stands, 0) = u
                                   /\ Levels(u, stands, Following(n)) = Pass(Levels(u, stands, n), stands)
  BY LevelsNext
<1> DEFINE S == {n \in Nat : Levels(<<>>, stands, n) = <<>>}
<1>1. <<>> \in Seq(T) /\ 0 \in Nat /\ \A n \in Nat : Following(n) \in Nat
  BY EmptySeq DEF Following
<1>2. 0 \in S
  BY <1>0, <1>1
<1>3. ASSUME NEW n \in Nat, n \in S PROVE Following(n) \in S
  <2>1. Levels(<<>>, stands, Following(n)) = Pass(<<>>, stands)
    BY <1>0, <1>1, <1>3
  <2>2. Pass(<<>>, stands) = <<>>
    BY PassEmpty
  <2> QED
    BY <1>1, <2>1, <2>2
<1>4. \A n \in Nat : n \in S
  <2> HIDE DEF S
  <2> QED
    BY <1>2, <1>3, Inductive
<1> QED
  BY <1>4

\* a sequence that no pass changes
LEMMA LevelsFixed ==
  ASSUME NEW T, NEW stands, Replaces(stands, T), NEW s \in Seq(T), Pass(s, stands) = s, NEW k \in Nat
  PROVE  Levels(s, stands, k) = s
<1>0. \A n \in Nat : /\ Levels(s, stands, 0) = s
                     /\ Levels(s, stands, Following(n)) = Pass(Levels(s, stands, n), stands)
  BY LevelsNext
<1> DEFINE S == {n \in Nat : Levels(s, stands, n) = s}
<1>1. 0 \in Nat /\ \A n \in Nat : Following(n) \in Nat
  BY DEF Following
<1>2. 0 \in S
  BY <1>0, <1>1
<1>3. ASSUME NEW n \in Nat, n \in S PROVE Following(n) \in S
  BY <1>0, <1>1, <1>3
<1>4. \A n \in Nat : n \in S
  <2> HIDE DEF S
  <2> QED
    BY <1>2, <1>3, Inductive
<1> QED
  BY <1>4

\* nothing in it stands for something else
Final(s, stands) == \A i \in DOMAIN s : s[i] \notin DOMAIN stands

LEMMA FinalFixed ==
  ASSUME NEW T, NEW stands, Replaces(stands, T), NEW s \in Seq(T), Final(s, stands)
  PROVE  Pass(s, stands) = s
<1> DEFINE S == {n \in Nat : \A u \in Seq(T) : Len(u) = n /\ Final(u, stands) => Pass(u, stands) = u}
<1>0. ASSUME NEW u \in Seq(T), NEW v \in Seq(T) PROVE Pass(u \o v, stands) = Pass(u, stands) \o Pass(v, stands)
  BY PassConcat
<1>1. 0 \in S
  <2>1. \A u \in Seq(T) : Len(u) = 0 => u = <<>>
    BY EmptySeq
  <2> QED
    BY <2>1, PassEmpty
<1>2. ASSUME NEW n \in Nat, n \in S PROVE Following(n) \in S
  <2>1. ASSUME NEW u \in Seq(T), Len(u) = n + 1, Final(u, stands) PROVE Pass(u, stands) = u
    <3>1. PICK v \in Seq(T), x \in T : Len(v) = n /\ u = Append(v, x)
      <4>1. u # <<>>
        BY <2>1, EmptySeq
      <4>2. PICK v \in Seq(T), x \in T : u = Append(v, x)
        BY <4>1, SequenceEmptyOrAppend
      <4>3. Len(v) \in Nat /\ Len(Append(v, x)) = Len(v) + 1
        OBVIOUS
      <4>4. Len(v) = n
        BY <2>1, <4>2, <4>3
      <4> QED
        BY <4>2, <4>4, Zenon
    <3>2. Final(v, stands) /\ x \notin DOMAIN stands
      <4>1. Len(v) \in Nat /\ DOMAIN v = 1..Len(v) /\ DOMAIN u = 1..Len(v) + 1
            /\ u[Len(v) + 1] = x /\ \A i \in 1..Len(v) : u[i] = v[i]
        BY <3>1
      <4> QED
        BY <2>1, <4>1 DEF Final
    <3>3. PICK h \in Seq(T) : h = <<x>>
      <4>1. <<x>> \in Seq(T)
        OBVIOUS
      <4> QED
        BY <4>1, Zenon
    <3>4. Pass(v, stands) = v
      BY <1>2, <3>1, <3>2
    <3>5. Pass(h, stands) = h
      BY <3>2, <3>3, PassFew DEF InPlace
    <3>6. u = v \o h
      BY <3>1, <3>3
    <3> QED
      BY <1>0, <3>4, <3>5, <3>6
  <2> QED
    BY <2>1 DEF Following
<1>3. \A n \in Nat : n \in S
  <2> HIDE DEF S
  <2> QED
    BY <1>1, <1>2, Inductive
<1>4. Len(s) \in Nat
  OBVIOUS
<1> QED
  BY <1>3, <1>4

LEMMA FinalParts ==
  ASSUME NEW T, NEW stands, NEW s \in Seq(T), NEW t \in Seq(T), Final(s \o t, stands)
  PROVE  Final(s, stands) /\ Final(t, stands)
<1>1. /\ Len(s) \in Nat /\ DOMAIN s = 1..Len(s) /\ Len(t) \in Nat /\ DOMAIN t = 1..Len(t)
      /\ DOMAIN (s \o t) = 1..Len(s) + Len(t)
      /\ \A i \in 1..Len(s) : (s \o t)[i] = s[i]
      /\ \A i \in 1..Len(t) : (s \o t)[Len(s) + i] = t[i]
  OBVIOUS
<1>2. \A i \in 1..Len(s) : i \in 1..Len(s) + Len(t)
  BY <1>1
<1>3. \A i \in 1..Len(t) : Len(s) + i \in 1..Len(s) + Len(t)
  BY <1>1
<1> QED
  BY <1>1, <1>2, <1>3 DEF Final

-----------------------------------------------------------------------------
(* A walk against the passes: the work list of _expand_imports and of *)
(* expand_call. *)

\* what comes of s in the end, comes of whole with more passes
Leads(T, stands, s, whole, more) ==
  \A n \in Nat, y \in Seq(T) : Final(y, stands) /\ Levels(s, stands, n) = y => Levels(whole, stands, n + more) = y

\* what the passes do with a sequence that is put together of two
Splits(T, stands, u, v) ==
  /\ u \o v \in Seq(T)
  /\ \A k \in Nat : /\ Levels(u, stands, k) \in Seq(T) /\ Levels(v, stands, k) \in Seq(T)
                    /\ Levels(u \o v, stands, k) = Levels(u, stands, k) \o Levels(v, stands, k)
                    /\ Levels(u, stands, Following(k)) = Pass(Levels(u, stands, k), stands)
                    /\ Levels(v, stands, Following(k)) = Pass(Levels(v, stands, k), stands)

LEMMA LevelsOfTwo ==
  ASSUME NEW T, NEW stands, Replaces(stands, T)
  PROVE  \A u, v \in Seq(T) : Splits(T, stands, u, v)
<1>1. \A u, v \in Seq(T), k \in Nat : Levels(u \o v, stands, k) = Levels(u, stands, k) \o Levels(v, stands, k)
  BY LevelsConcat
<1>2. \A u \in Seq(T), k \in Nat :
        Levels(u, stands, k) \in Seq(T) /\ Levels(u, stands, Following(k)) = Pass(Levels(u, stands, k), stands)
  BY LevelsNext
<1>3. \A u, v \in Seq(T) : u \o v \in Seq(T)
  OBVIOUS
<1> QED
  BY <1>1, <1>2, <1>3, Zenon DEF Splits

\* what a part comes to, with what is before and after it, in one pass less if it was
\* replaced by what it stands for
LEMMA OneReplaced ==
  ASSUME NEW T, NEW stands, Replaces(stands, T), NEW a \in Seq(T), NEW x \in T, NEW b \in Seq(T),
         x \in DOMAIN stands
  PROVE  \A n \in Nat, y \in Seq(T) :
           Final(y, stands) /\ Levels(a \o (stands[x] \o b), stands, n) = y
             => Levels(a \o (<<x>> \o b), stands, Following(n)) = y
<1>1. PICK h \in Seq(T), s \in Seq(T) : h = <<x>> /\ s = stands[x]
  <2>1. <<x>> \in Seq(T) /\ stands[x] \in Seq(T)
    BY DEF Replaces
  <2> QED
    BY <2>1, Zenon
<1>2. PICK r \in Seq(T), q \in Seq(T) : r = s \o b /\ q = h \o b
  <2>1. s \o b \in Seq(T) /\ h \o b \in Seq(T)
    OBVIOUS
  <2> QED
    BY <2>1, Zenon
<1>3. Splits(T, stands, s, b) /\ Splits(T, stands, h, b) /\ Splits(T, stands, a, r) /\ Splits(T, stands, a, q)
  BY LevelsOfTwo, Zenon
<1>4. \A k \in Nat : Levels(h, stands, Following(k)) = Levels(s, stands, k)
  <2>1. Pass(h, stands) = s
    BY <1>1, PassFew DEF InPlace
  <2> QED
    BY <2>1, LevelsFirst
<1>5. SUFFICES ASSUME NEW n \in Nat, NEW y \in Seq(T), Final(y, stands), Levels(a \o r, stands, n) = y
               PROVE  Levels(a \o q, stands, Following(n)) = y
  BY <1>1, <1>2, Zenon
<1>6. PICK m \in Nat : m = Following(n)
  BY DEF Following
<1>7. PICK A \in Seq(T), M \in Seq(T), B \in Seq(T) :
        A = Levels(a, stands, n) /\ M = Levels(s, stands, n) /\ B = Levels(b, stands, n)
  BY <1>3, Zenon DEF Splits
<1>8. Levels(r, stands, n) = M \o B
  BY <1>2, <1>3, <1>7, Zenon DEF Splits
<1>9. y = A \o (M \o B)
  BY <1>3, <1>5, <1>7, <1>8, Zenon DEF Splits
<1>10. Final(A, stands) /\ Final(B, stands)
  <2>1. PICK z \in Seq(T) : z = M \o B
    <3>1. Splits(T, stands, M, B)
      BY LevelsOfTwo, Zenon
    <3> QED
      BY <3>1, Zenon DEF Splits
  <2>2. Final(A, stands) /\ Final(z, stands)
    BY <1>5, <1>9, <2>1, FinalParts
  <2> QED
    BY <2>1, <2>2, FinalParts
<1>11. Levels(a, stands, m) = A /\ Levels(b, stands, m) = B
  <2>1. Pass(A, stands) = A /\ Pass(B, stands) = B
    BY <1>10, FinalFixed
  <2> QED
    BY <1>3, <1>6, <1>7, <2>1, Zenon DEF Splits
<1>12. Levels(h, stands, m) = M
  BY <1>4, <1>6, <1>7, Zenon
<1>13. Levels(q, stands, m) = M \o B
  BY <1>2, <1>3, <1>11, <1>12, Zenon DEF Splits
<1> QED
  BY <1>3, <1>6, <1>9, <1>11, <1>13, Zenon DEF Splits

LEMMA LeadsOn ==
  ASSUME NEW T, NEW stands, Replaces(stands, T), NEW a \in Seq(T), NEW x \in T, NEW b \in Seq(T),
         x \in DOMAIN stands, NEW whole, NEW more \in Nat, Leads(T, stands, a \o (<<x>> \o b), whole, more)
  PROVE  Leads(T, stands, a \o (stands[x] \o b), whole, more + 1)
<1>0. \A n \in Nat, y \in Seq(T) :
        Final(y, stands) /\ Levels(a \o (stands[x] \o b), stands, n) = y
          => Levels(a \o (<<x>> \o b), stands, Following(n)) = y
  BY OneReplaced
<1>1. SUFFICES ASSUME NEW n \in Nat, NEW y \in Seq(T), Final(y, stands),
                      Levels(a \o (stands[x] \o b), stands, n) = y
               PROVE  Levels(whole, stands, n + (more + 1)) = y
  BY DEF Leads
<1>2. PICK m \in Nat : m = Following(n) /\ m = n + 1
  BY DEF Following
<1>3. Levels(a \o (<<x>> \o b), stands, m) = y
  BY <1>0, <1>1, <1>2, Zenon
<1>4. Levels(whole, stands, m + more) = y
  BY <1>1, <1>3 DEF Leads
<1>5. m + more = n + (more + 1)
  BY <1>2
<1> QED
  BY <1>4, <1>5

\* an entry of the work list has the names that led to its item
Entries(T) == [item : T, within : SUBSET {x.name : x \in T}]
ItemsIn(w)   == [i \in DOMAIN w |-> w[i].item]

LEMMA ItemsOf ==
  ASSUME NEW T, NEW w \in Seq(Entries(T))
  PROVE  /\ ItemsIn(w) \in Seq(T)
         /\ w = <<>> => ItemsIn(w) = <<>>
         /\ w # <<>> => /\ Head(w) \in Entries(T) /\ Tail(w) \in Seq(Entries(T))
                        /\ ItemsIn(w) = <<Head(w).item>> \o ItemsIn(Tail(w))
<1>1. Len(w) \in Nat /\ DOMAIN w = 1..Len(w) /\ \A i \in 1..Len(w) : w[i] \in Entries(T)
  OBVIOUS
<1>2. ItemsIn(w) \in Seq(T) /\ Len(ItemsIn(w)) = Len(w)
  BY <1>1 DEF ItemsIn, Entries
<1>3. w = <<>> => ItemsIn(w) = <<>>
  BY DEF ItemsIn
<1>4. ASSUME w # <<>> PROVE /\ Head(w) \in Entries(T) /\ Tail(w) \in Seq(Entries(T))
                            /\ ItemsIn(w) = <<Head(w).item>> \o ItemsIn(Tail(w))
  <2>1. Head(w) \in Entries(T) /\ Tail(w) \in Seq(Entries(T)) /\ Len(Tail(w)) = Len(w) - 1
        /\ \A i \in 1..Len(w) - 1 : Tail(w)[i] = w[i + 1]
    BY <1>4
  <2>2. PICK x \in T, t \in Seq(T) : x = Head(w).item /\ t = ItemsIn(Tail(w)) /\ Len(t) = Len(w) - 1
    <3>1. Head(w).item \in T
      BY <2>1 DEF Entries
    <3>2. ItemsIn(Tail(w)) \in Seq(T) /\ Len(ItemsIn(Tail(w))) = Len(w) - 1
      <4>1. Len(Tail(w)) \in Nat /\ DOMAIN Tail(w) = 1..Len(Tail(w)) /\ \A i \in 1..Len(Tail(w)) : Tail(w)[i] \in Entries(T)
        BY <2>1
      <4> QED
        BY <2>1, <4>1 DEF ItemsIn, Entries
    <3> QED
      BY <3>1, <3>2
  <2>3. PICK u \in Seq(T) : u = ItemsIn(w) /\ Len(u) = Len(w) /\ \A i \in 1..Len(w) : u[i] = w[i].item
    <3>1. \A i \in 1..Len(w) : ItemsIn(w)[i] = w[i].item
      BY <1>1 DEF ItemsIn
    <3> QED
      BY <1>2, <3>1
  <2>4. w[1] = Head(w) /\ Len(w) >= 1
    BY <1>4
  <2>5. \A i \in 1..Len(w) - 1 : t[i] = w[i + 1].item
    <3>1. DOMAIN Tail(w) = 1..Len(w) - 1
      BY <1>1, <1>4, <2>1
    <3> QED
      BY <2>1, <2>2, <3>1 DEF ItemsIn
  <2>6. u = <<x>> \o t
    <3>1. Len(<<x>> \o t) = Len(u) /\ <<x>> \o t \in Seq(T)
      <4>1. <<x>> \in Seq(T) /\ Len(<<x>>) = 1
        OBVIOUS
      <4>2. Len(<<x>> \o t) = Len(<<x>>) + Len(t) /\ <<x>> \o t \in Seq(T)
        BY <4>1
      <4>3. Len(t) = Len(w) - 1 /\ Len(w) \in Nat /\ Len(u) = Len(w)
        BY <1>1, <2>2, <2>3
      <4>4. 1 + (Len(w) - 1) = Len(w)
        BY <4>3
      <4> QED
        BY <4>1, <4>2, <4>3, <4>4, Zenon
    <3>2. ASSUME NEW i \in 1..Len(u) PROVE u[i] = (<<x>> \o t)[i]
      <4>1. CASE i = 1
        BY <2>2, <2>3, <2>4, <4>1
      <4>2. CASE i # 1
        <5>1. i - 1 \in 1..Len(w) - 1 /\ (i - 1) + 1 = i
          BY <1>1, <2>3, <4>2
        <5>2. (<<x>> \o t)[i] = t[i - 1]
          BY <1>1, <2>2, <5>1
        <5> QED
          BY <2>3, <2>5, <5>1, <5>2
      <4> QED
        BY <4>1, <4>2
    <3> QED
      BY <3>1, <3>2, SeqEqual
  <2> QED
    BY <2>1, <2>2, <2>3, <2>6
<1> QED
  BY <1>2, <1>3, <1>4

LEMMA ItemsBare ==
  ASSUME NEW T, NEW s \in Seq(T), NEW within \in SUBSET {x.name : x \in T}, NEW w \in Seq(Entries(T))
  PROVE  /\ Bare(s, within) \in Seq(Entries(T)) /\ ItemsIn(Bare(s, within)) = s
         /\ Bare(s, within) \o w \in Seq(Entries(T)) /\ ItemsIn(Bare(s, within) \o w) = s \o ItemsIn(w)
<1>1. Len(s) \in Nat /\ DOMAIN s = 1..Len(s) /\ \A i \in 1..Len(s) : s[i] \in T
  OBVIOUS
<1>2. PICK b \in Seq(Entries(T)) : /\ b = Bare(s, within) /\ Len(b) = Len(s) /\ DOMAIN b = 1..Len(s)
                                   /\ \A i \in 1..Len(s) : b[i].item = s[i]
  <2>1. \A i \in 1..Len(s) : [item |-> s[i], within |-> within] \in Entries(T)
    BY <1>1 DEF Entries
  <2>2. Bare(s, within) \in Seq(Entries(T)) /\ Len(Bare(s, within)) = Len(s) /\ DOMAIN Bare(s, within) = 1..Len(s)
        /\ \A i \in 1..Len(s) : Bare(s, within)[i].item = s[i]
    BY <1>1, <2>1 DEF Bare
  <2> QED
    BY <2>2
<1>3. ItemsIn(b) = s
  BY <1>1, <1>2 DEF ItemsIn
<1>4. PICK c \in Seq(Entries(T)) : c = b \o w /\ Len(c) = Len(s) + Len(w)
  <2>1. b \o w \in Seq(Entries(T)) /\ Len(b \o w) = Len(s) + Len(w)
    BY <1>2
  <2> QED
    BY <2>1, Zenon
<1>5. /\ \A i \in 1..Len(s) : c[i] = b[i]
      /\ \A i \in 1..Len(w) : c[Len(s) + i] = w[i]
      /\ DOMAIN c = 1..Len(s) + Len(w)
  BY <1>1, <1>2, <1>4
<1>6. PICK v \in Seq(T) : v = ItemsIn(w) /\ Len(v) = Len(w) /\ \A i \in 1..Len(w) : v[i] = w[i].item
  <2>1. ItemsIn(w) \in Seq(T)
    BY ItemsOf
  <2>2. Len(w) \in Nat /\ DOMAIN w = 1..Len(w)
    OBVIOUS
  <2>3. DOMAIN ItemsIn(w) = 1..Len(w) /\ \A i \in 1..Len(w) : ItemsIn(w)[i] = w[i].item
    BY <2>2 DEF ItemsIn
  <2> QED
    BY <2>1, <2>2, <2>3
<1>7. PICK u \in Seq(T) : u = ItemsIn(c) /\ Len(u) = Len(s) + Len(w) /\ \A i \in 1..Len(s) + Len(w) : u[i] = c[i].item
  <2>1. ItemsIn(c) \in Seq(T)
    BY ItemsOf
  <2>2. Len(s) + Len(w) \in Nat
    BY <1>1
  <2>3. DOMAIN ItemsIn(c) = 1..Len(s) + Len(w) /\ \A i \in 1..Len(s) + Len(w) : ItemsIn(c)[i] = c[i].item
    BY <1>5 DEF ItemsIn
  <2> QED
    BY <2>1, <2>2, <2>3
<1>8. u = s \o v
  <2>1. Len(s \o v) = Len(u) /\ s \o v \in Seq(T)
    BY <1>1, <1>6, <1>7
  <2>2. ASSUME NEW i \in 1..Len(u) PROVE u[i] = (s \o v)[i]
    <3>1. CASE i <= Len(s)
      <4>1. i \in 1..Len(s) /\ (s \o v)[i] = s[i]
        BY <1>1, <1>7, <3>1
      <4> QED
        BY <1>2, <1>5, <1>7, <4>1
    <3>2. CASE ~(i <= Len(s))
      <4>1. i - Len(s) \in 1..Len(w) /\ Len(s) + (i - Len(s)) = i
        BY <1>1, <1>7, <3>2
      <4>2. (s \o v)[i] = v[i - Len(s)]
        BY <1>1, <1>6, <1>7, <3>2, <4>1
      <4> QED
        BY <1>5, <1>6, <1>7, <4>1, <4>2
    <3> QED
      BY <3>1, <3>2
  <2> QED
    BY <2>1, <2>2, SeqEqual
<1> QED
  BY <1>2, <1>3, <1>4, <1>6, <1>7, <1>8

-----------------------------------------------------------------------------
(* What loads is what the files say. *)

\* what the items stand for depends on the scenario alone
LEMMA SameMeaning ==
  scenario' = scenario => /\ Stands' = Stands
                          /\ cli' = cli => Merged' = Merged
                          /\ cli' = cli /\ replaced' = replaced => Meaning' = Meaning
<1> SUFFICES ASSUME scenario' = scenario
             PROVE  /\ Stands' = Stands
                    /\ cli' = cli => Merged' = Merged
                    /\ cli' = cli /\ replaced' = replaced => Meaning' = Meaning
  OBVIOUS
<1>1. ASSUME NEW r, NEW c PROVE InputOf(r, c)' = InputOf(r, c)
  BY DEF InputOf
<1>2. ASSUME NEW r, NEW c PROVE RoutineEnv(r, c)' = RoutineEnv(r, c)
  BY <1>1 DEF RoutineEnv
<1>3. ASSUME NEW c PROVE Body(c)' = Body(c)
  BY <1>2 DEF Body
<1>4. \A c : HasInput(Routines[RoutineFile(c.name)], c)' <=> HasInput(Routines[RoutineFile(c.name)], c)
  BY <1>1 DEF HasInput
<1>5. \A c : Callable(c, {})' <=> Callable(c, {})
  BY <1>2, <1>4 DEF Callable
<1>6. Stands' = Stands
  BY <1>3, <1>5 DEF Stands
<1>7. cli' = cli => Merged' = Merged
  BY DEF Merged
<1>8. cli' = cli /\ replaced' = replaced => Meaning' = Meaning
  BY <1>6, <1>7 DEF Meaning
<1> QED
  BY <1>6, <1>7, <1>8

\* the items that a scenario may come to consist of
Pieces == AllItems \cup UNION {ToSet(Stands[c]) : c \in DOMAIN Stands}

\* what is done and what is left to do lead to what the scenario leads to
Walking(T, stands) ==
  /\ done \in Seq(T) /\ work \in Seq(Entries(T)) /\ replaced \in Nat
  /\ Leads(T, stands, done \o ItemsIn(work), scenario.items, replaced)

NoCalls == \A i \in DOMAIN done : done[i].kind # "call"
Untemplated == \A i \in DOMAIN done : DOMAIN Merged # {} => \A t \in Texts(done[i]) : ~Template(t)

\* While the loader expands, what the passes make in the end of the items done and of those
\* left is what they make of the whole scenario, in as many passes more as were replaced.
LoadInv ==
  /\ pc \in CLabels => scenario \in Scenarios /\ cli \in Overrides
  /\ scenario # NoScenario => pc \in CLabels \cup {"exited"}
  /\ pc \in {"main", "c.find"} => done = <<>> /\ replaced = 0
  /\ pc \in {"c.import", "c.call"} => Walking(Pieces, Stands)
  /\ pc = "c.call" => NoCalls
  /\ pc = "c.render" => /\ done \in Seq(Pieces) /\ replaced \in Nat /\ NoCalls
                        /\ Leads(Pieces, Stands, done, scenario.items, replaced)
  /\ pc = "c.phases" => (~ImportLeft => done = Meaning) /\ Untemplated
  /\ LoadedIsExpansion

\* an item with the fields of its kind, and so the items that are nested in it
Proper(x) == Shaped(x) /\ (x.kind = "if" => \A i \in DOMAIN x.then : Shaped(x.then[i]))

\* rendering an item leaves its fields and its kind, and no template in it
LEMMA ShownShape ==
  ASSUME NEW x, Shaped(x), NEW env
  PROVE  /\ Shaped(Shown(x, env)) /\ DOMAIN Shown(x, env) = DOMAIN x
         /\ Shown(x, env).kind = x.kind /\ (x.kind = "if" => Shown(x, env).then = x.then)
<1>1. CASE ~Template(x)
  BY <1>1 DEF Shown
<1>2. CASE Template(x)
  <2>1. x.kind \in DOMAIN Fields /\ DOMAIN x = Fields[x.kind] /\ x.kind \in {"step", "if"}
    BY <1>2 DEF Shaped, Template
  <2>2. PICK y : y = [x EXCEPT !.shows = env[x.uses]]
    OBVIOUS
  <2>3. Shown(x, env) = y
    BY <1>2, <2>2 DEF Shown
  <2>4. "kind" \in DOMAIN x /\ (x.kind = "if" => "then" \in DOMAIN x)
    BY <2>1 DEF Fields
  <2>5. DOMAIN y = DOMAIN x /\ y.kind = x.kind /\ (x.kind = "if" => y.then = x.then)
    BY <2>2, <2>4
  <2> QED
    BY <2>1, <2>3, <2>5 DEF Shaped
<1> QED
  BY <1>1, <1>2

LEMMA ShownPlain ==
  ASSUME NEW x, Shaped(x), NEW env, \A v \in DOMAIN env : env[v] # None, Template(x) => x.uses \in DOMAIN env
  PROVE  ~Template(Shown(x, env))
<1>1. CASE ~Template(x)
  BY <1>1 DEF Shown
<1>2. CASE Template(x)
  <2>1. "shows" \in DOMAIN x
    BY <1>2 DEF Shaped, Template, Fields
  <2>2. Shown(x, env).shows = env[x.uses]
    BY <1>2, <2>1 DEF Shown
  <2> QED
    BY <1>2, <2>2 DEF Template
<1> QED
  BY <1>1, <1>2

LEMMA RenderedShape ==
  ASSUME NEW x, Proper(x), NEW env
  PROVE  /\ Proper(Rendered(x, env))
         /\ Rendered(x, env).kind = x.kind
         /\ x.kind \in {"call", "import"} => Rendered(x, env) = x
<1> DEFINE outer == Shown(x, env)
           inner == [i \in DOMAIN x.then |-> Shown(x.then[i], env)]
<1>1. Shaped(x) /\ Shaped(outer) /\ DOMAIN outer = DOMAIN x /\ outer.kind = x.kind
  BY ShownShape DEF Proper
<1>2. CASE x.kind # "if"
  <2>1. Rendered(x, env) = outer
    BY <1>2 DEF Rendered
  <2>2. x.kind \in {"call", "import"} => outer = x
    BY DEF Shown, Template
  <2> QED
    BY <1>1, <1>2, <2>1, <2>2 DEF Proper
<1>3. CASE x.kind = "if"
  <2>1. Rendered(x, env) = [outer EXCEPT !.then = inner]
    BY <1>3 DEF Rendered
  <2>2. "kind" \in DOMAIN x /\ "then" \in DOMAIN x
    BY <1>1, <1>3 DEF Shaped, Fields
  <2>3. DOMAIN Rendered(x, env) = DOMAIN x /\ Rendered(x, env).kind = x.kind /\ Rendered(x, env).then = inner
    BY <1>1, <2>1, <2>2
  <2>4. \A i \in DOMAIN inner : Shaped(inner[i])
    <3>1. ASSUME NEW i \in DOMAIN x.then PROVE Shaped(Shown(x.then[i], env))
      BY <1>3, <3>1, ShownShape DEF Proper
    <3> QED
      BY <3>1
  <2>5. Shaped(Rendered(x, env))
    BY <1>1, <2>3 DEF Shaped
  <2> QED
    BY <1>3, <2>3, <2>4, <2>5 DEF Proper
<1> QED
  BY <1>2, <1>3

LEMMA RenderedPlain ==
  ASSUME NEW x, Proper(x), NEW env, \A v \in DOMAIN env : env[v] # None,
         \A t \in Texts(x) : Template(t) => t.uses \in DOMAIN env
  PROVE  \A t \in Texts(Rendered(x, env)) : ~Template(t)
<1> DEFINE outer == Shown(x, env)
           inner == [i \in DOMAIN x.then |-> Shown(x.then[i], env)]
<1>1. Shaped(x) /\ Shaped(outer) /\ DOMAIN outer = DOMAIN x /\ outer.kind = x.kind
  BY ShownShape DEF Proper
<1>2. ~Template(outer)
  <2>1. x \in Texts(x)
    BY DEF Texts
  <2> QED
    BY <1>1, <2>1, ShownPlain
<1>3. CASE x.kind # "if"
  <2>1. Rendered(x, env) = outer
    BY <1>3 DEF Rendered
  <2> QED
    BY <1>1, <1>2, <1>3, <2>1 DEF Texts
<1>4. CASE x.kind = "if"
  <2>1. PICK y : y = [outer EXCEPT !.then = inner]
    OBVIOUS
  <2>2. Rendered(x, env) = y
    BY <1>4, <2>1 DEF Rendered
  <2>3. "kind" \in DOMAIN x /\ "then" \in DOMAIN x /\ "uses" \in DOMAIN x /\ "shows" \in DOMAIN x
    BY <1>1, <1>4 DEF Shaped, Fields
  <2>4. y.kind = outer.kind /\ y.uses = outer.uses /\ y.shows = outer.shows /\ y.then = inner
    BY <1>1, <2>1, <2>3
  <2>5. ~Template(y)
    BY <1>2, <2>4 DEF Template
  <2>6. ASSUME NEW i \in DOMAIN x.then PROVE ~Template(Shown(x.then[i], env))
    <3>1. Shaped(x.then[i])
      BY <1>4 DEF Proper
    <3>2. x.then[i] \in Texts(x)
      BY <1>4 DEF Texts, ToSet
    <3> QED
      BY <3>1, <3>2, ShownPlain
  <2>7. Texts(y) = {y} \cup ToSet(inner)
    BY <1>1, <1>4, <2>4 DEF Texts
  <2>8. \A t \in ToSet(inner) : ~Template(t)
    BY <2>6 DEF ToSet
  <2> QED
    BY <2>2, <2>5, <2>7, <2>8
<1> QED
  BY <1>3, <1>4

\* the items of a routine, rendered or not, are as good as those of a file, and its
\* calls are written in one
LEMMA BodyIs ==
  ASSUME NEW c, RoutineFile(c.name) \in DOMAIN Routines
  PROVE  /\ Body(c) \in Seq(ToSet(Body(c)))
         /\ \A x \in ToSet(Body(c)) : Proper(x) /\ (x.kind \in {"call", "import"} => x \in AllItems)
<1>1. PICK r \in DOMAIN Routines : r = RoutineFile(c.name)
  OBVIOUS
<1>2. PICK s : s = Routines[r].pre \o Routines[r].main \o Routines[r].post
  OBVIOUS
<1>3. PICK env : env = RoutineEnv(Routines[r], c)
  OBVIOUS
<1>4. PICK e : e = EventStep(c.name)
  OBVIOUS
<1>5. Body(c) = <<e>> \o Render(s, env)
  BY <1>1, <1>2, <1>3, <1>4 DEF Body
<1>6. s \in Seq(AllItems)
  <2>1. Routines[r].pre \in Seq(AllItems) /\ Routines[r].main \in Seq(AllItems) /\ Routines[r].post \in Seq(AllItems)
    BY FilesAssumption
  <2> HIDE DEF AllItems
  <2> QED
    BY <1>2, <2>1
<1> DEFINE Handled(x) == Proper(x) /\ (x.kind \in {"call", "import"} => x \in AllItems)
<1>7. Handled(e)
  BY <1>4 DEF EventStep, Proper, Shaped, Fields
<1>8. \A x \in AllItems : Handled(x) /\ Handled(Rendered(x, env))
  <2>1. ASSUME NEW x \in AllItems PROVE Proper(x)
    BY FilesAssumption DEF Proper
  <2> QED
    BY <2>1, RenderedShape
<1> HIDE DEF Handled
<1> DEFINE G == {x \in {e} \cup AllItems \cup {Rendered(y, env) : y \in AllItems} : Handled(x)}
<1>9. Render(s, env) \in Seq(G)
  <2>1. AllItems \subseteq G /\ \A x \in AllItems : Rendered(x, env) \in G
    BY <1>8
  <2> HIDE DEF G, AllItems
  <2>2. Len(s) \in Nat /\ DOMAIN s = 1..Len(s) /\ \A i \in 1..Len(s) : s[i] \in AllItems
    BY <1>6
  <2>3. s \in Seq(G)
    BY <1>6, <2>1
  <2>4. [i \in DOMAIN s |-> Rendered(s[i], env)] \in Seq(G)
    BY <2>1, <2>2
  <2> QED
    BY <2>3, <2>4 DEF Render
<1>10. <<e>> \in Seq(G)
  <2>1. e \in G
    BY <1>7
  <2> HIDE DEF G
  <2> QED
    BY <2>1
<1>11. \A x \in G : Handled(x)
  OBVIOUS
<1> HIDE DEF G
<1>12. PICK b \in Seq(G) : b = Body(c)
  <2>1. \A u, v \in Seq(G) : u \o v \in Seq(G)
    OBVIOUS
  <2> QED
    BY <1>5, <1>9, <1>10, <2>1, Zenon
<1>13. Len(b) \in Nat /\ DOMAIN b = 1..Len(b) /\ \A i \in 1..Len(b) : b[i] \in G
  OBVIOUS
<1>14. b \in Seq(ToSet(b))
  <2>1. \A i \in 1..Len(b) : b[i] \in ToSet(b)
    BY <1>13 DEF ToSet
  <2>2. b = [i \in 1..Len(b) |-> b[i]]
    BY <1>13
  <2>3. [i \in 1..Len(b) |-> b[i]] \in Seq(ToSet(b))
    BY <1>13, <2>1
  <2> QED
    BY <2>2, <2>3
<1>15. \A x \in ToSet(b) : Handled(x)
  BY <1>11, <1>13 DEF ToSet
<1> QED
  BY <1>12, <1>14, <1>15 DEF Handled

LEMMA StandsReplace == Replaces(Stands, Pieces)
<1>1. ASSUME NEW x \in DOMAIN Stands PROVE Stands[x] \in Seq(Pieces)
  <2>1. \A A, B : A \subseteq B => Seq(A) \subseteq Seq(B)
    OBVIOUS
  <2>2. CASE x.kind = "import"
    <3>1. Stands[x] = Fragments[x.name] /\ x.name \in DOMAIN Fragments
      BY <2>2 DEF Stands
    <3>2. Stands[x] \in Seq(AllItems) /\ AllItems \subseteq Pieces
      BY <3>1, FilesAssumption DEF Pieces
    <3> QED
      BY <2>1, <3>2, Zenon
  <2>3. CASE x.kind # "import"
    <3>1. Stands[x] = Body(x) /\ RoutineFile(x.name) \in DOMAIN Routines
      BY <2>3 DEF Stands, Callable
    <3>2. Stands[x] \in Seq(ToSet(Stands[x]))
      BY <3>1, BodyIs
    <3>3. ToSet(Stands[x]) \subseteq Pieces
      BY DEF Pieces
    <3> QED
      BY <2>1, <3>2, <3>3, Zenon
  <2> QED
    BY <2>2, <2>3
<1>2. PICK f : f = Stands
  OBVIOUS
<1>3. f = [x \in DOMAIN f |-> f[x]]
  BY <1>2 DEF Stands
<1> QED
  BY <1>1, <1>2, <1>3 DEF Replaces

LEMMA PiecesAre == \A x \in Pieces : Proper(x) /\ (x.kind \in {"call", "import"} => x \in AllItems)
<1>1. \A x \in AllItems : Proper(x)
  BY FilesAssumption DEF Proper
<1>2. ASSUME NEW c \in DOMAIN Stands, NEW x \in ToSet(Stands[c])
      PROVE  Proper(x) /\ (x.kind \in {"call", "import"} => x \in AllItems)
  <2>1. CASE c.kind = "import"
    <3>1. Stands[c] \in Seq(AllItems)
      BY <2>1, FilesAssumption DEF Stands
    <3>2. x \in AllItems
      BY <3>1 DEF ToSet
    <3> QED
      BY <1>1, <3>2
  <2>2. CASE c.kind # "import"
    <3>1. RoutineFile(c.name) \in DOMAIN Routines /\ Stands[c] = Body(c)
      BY <2>2 DEF Stands, Callable
    <3> QED
      BY <3>1, BodyIs
  <2> QED
    BY <2>1, <2>2
<1> QED
  BY <1>1, <1>2 DEF Pieces

\* what _expand_imports takes for an import, and expand_call for a call, is one that
\* stands for something
LEMMA PieceKnown ==
  ASSUME NEW x \in Pieces
  PROVE  x \in DOMAIN Stands <=> \/ x.kind = "import" /\ x.name \in DOMAIN Fragments
                                 \/ x.kind = "call" /\ Callable(x, {})
BY PiecesAre DEF Stands

\* a rendered scenario shows no template
LEMMA RenderLeavesNone ==
  ASSUME done \in Seq(Pieces), Renders(done, Merged), scenario \in Scenarios, cli \in Overrides,
         NEW d, d = Render(done, Merged), DOMAIN Merged # {}
  PROVE  \A i \in DOMAIN d : \A t \in Texts(d[i]) : ~Template(t)
<1>1. PICK env : env = Merged
  OBVIOUS
<1>2. \A v \in DOMAIN env : env[v] # None
  BY <1>1, FilesAssumption DEF Merged, Merge
<1>3. d = [i \in DOMAIN done |-> Rendered(done[i], env)]
  BY <1>1 DEF Render
<1>4. ASSUME NEW i \in DOMAIN done PROVE \A t \in Texts(Rendered(done[i], env)) : ~Template(t)
  <2>1. done[i] \in Pieces /\ done[i] \in ToSet(done)
    BY <1>4 DEF ToSet
  <2>2. PICK x : x = done[i]
    OBVIOUS
  <2>3. \A t \in Texts(x) : Template(t) => t.uses \in DOMAIN env
    BY <1>1, <2>1, <2>2 DEF Renders, Undefined
  <2>4. Proper(x)
    BY <2>1, <2>2, PiecesAre
  <2> QED
    BY <1>2, <2>2, <2>3, <2>4, RenderedPlain
<1> QED
  BY <1>3, <1>4

\* the steps of the loader
LEMMA WalkKeeps ==
  ASSUME LoadInv, pc \in {"c.import", "c.call"}, work # <<>>, Keep, UNCHANGED <<scenario, cli>>,
         pc = "c.call" => Next1.kind # "call"
  PROVE  LoadInv'
<1>1. PICK T, stands : T = Pieces /\ stands = Stands
  OBVIOUS
<1>2. Pieces' = T /\ Stands' = stands
  BY <1>1, SameMeaning DEF Pieces
<1>3. done \in Seq(T) /\ work \in Seq(Entries(T)) /\ replaced \in Nat
      /\ Leads(T, stands, done \o ItemsIn(work), scenario.items, replaced)
  BY <1>1 DEF LoadInv, Walking
<1>4. PICK x \in T, t \in Seq(Entries(T)), b \in Seq(T) :
        x = Next1 /\ t = Tail(work) /\ b = ItemsIn(t) /\ ItemsIn(work) = <<x>> \o b
  <2>1. Head(work) \in Entries(T) /\ Tail(work) \in Seq(Entries(T)) /\ ItemsIn(work) = <<Head(work).item>> \o ItemsIn(Tail(work))
    BY <1>3, ItemsOf
  <2>2. ItemsIn(Tail(work)) \in Seq(T)
    BY <2>1, ItemsOf
  <2>3. Next1 \in T
    BY <2>1 DEF Next1, Entries
  <2> QED
    BY <2>1, <2>2, <2>3 DEF Next1
<1>5. work' = t /\ done' = Append(done, x) /\ pc' = pc /\ replaced' = replaced /\ scenario' = scenario
  BY <1>4 DEF Keep
<1>6. Append(done, x) \in Seq(T) /\ Append(done, x) \o b = done \o (<<x>> \o b)
  <2>1. PICK h \in Seq(T) : h = <<x>>
    <3>1. <<x>> \in Seq(T)
      OBVIOUS
    <3> QED
      BY <3>1, Zenon
  <2>2. (done \o h) \o b = done \o (h \o b)
    BY <1>3, ConcatAssociative
  <2>3. Append(done, x) = done \o h /\ Append(done, x) \in Seq(T)
    BY <1>3, <2>1
  <2> QED
    BY <2>1, <2>2, <2>3
<1>7. Walking(Pieces, Stands)'
  BY <1>2, <1>3, <1>4, <1>5, <1>6 DEF Walking
<1>8. pc = "c.call" => NoCalls'
  <2>1. Len(done) \in Nat /\ DOMAIN done = 1..Len(done)
    BY <1>3
  <2>2. DOMAIN Append(done, x) = 1..Len(done) + 1 /\ Append(done, x)[Len(done) + 1] = x
        /\ \A i \in 1..Len(done) : Append(done, x)[i] = done[i]
    BY <1>3, <2>1
  <2> QED
    BY <1>4, <1>5, <2>1, <2>2 DEF LoadInv, NoCalls
<1> QED
  BY <1>5, <1>7, <1>8 DEF LoadInv, CLabels, LoadedIsExpansion, Loaded, At

LEMMA WalkOpens ==
  ASSUME LoadInv, pc \in {"c.import", "c.call"}, work # <<>>, Next1 \in DOMAIN Stands, Open(Stands[Next1], Next1.name),
         UNCHANGED <<scenario, cli>>
  PROVE  LoadInv'
<1>1. PICK T, stands : T = Pieces /\ stands = Stands
  OBVIOUS
<1>2. Pieces' = T /\ Stands' = stands
  BY <1>1, SameMeaning DEF Pieces
<1>3. done \in Seq(T) /\ work \in Seq(Entries(T)) /\ replaced \in Nat
      /\ Leads(T, stands, done \o ItemsIn(work), scenario.items, replaced)
  BY <1>1 DEF LoadInv, Walking
<1>4. PICK x \in T, t \in Seq(Entries(T)), b \in Seq(T) :
        x = Next1 /\ t = Tail(work) /\ b = ItemsIn(t) /\ ItemsIn(work) = <<x>> \o b /\ In1 \subseteq {y.name : y \in T}
  <2>1. Head(work) \in Entries(T) /\ Tail(work) \in Seq(Entries(T)) /\ ItemsIn(work) = <<Head(work).item>> \o ItemsIn(Tail(work))
    BY <1>3, ItemsOf
  <2>2. ItemsIn(Tail(work)) \in Seq(T)
    BY <2>1, ItemsOf
  <2>3. Next1 \in T /\ In1 \subseteq {y.name : y \in T}
    BY <2>1 DEF Next1, In1, Entries
  <2> QED
    BY <2>1, <2>2, <2>3 DEF Next1
<1>5. x \in DOMAIN stands /\ Replaces(stands, T)
  BY <1>1, <1>4, StandsReplace
<1>6. PICK s \in Seq(T) : s = stands[x]
  BY <1>5 DEF Replaces
<1>7. PICK within \in SUBSET {y.name : y \in T} : within = In1 \cup {x.name}
  BY <1>4
<1>8. work' = Bare(s, within) \o t /\ replaced' = replaced + 1 /\ pc' = pc /\ done' = done /\ scenario' = scenario
  BY <1>1, <1>4, <1>6, <1>7 DEF Open
<1>9. PICK w \in Seq(Entries(T)) : w = Bare(s, within) \o t /\ ItemsIn(w) = s \o b
  <2>1. Bare(s, within) \o t \in Seq(Entries(T)) /\ ItemsIn(Bare(s, within) \o t) = s \o ItemsIn(t)
    BY ItemsBare
  <2> QED
    BY <1>4, <2>1, Zenon
<1>10. Leads(T, stands, done \o (s \o b), scenario.items, replaced + 1)
  BY <1>3, <1>4, <1>5, <1>6, LeadsOn
<1>11. Walking(Pieces, Stands)'
  BY <1>2, <1>3, <1>8, <1>9, <1>10 DEF Walking
<1>12. pc = "c.call" => NoCalls'
  BY <1>8 DEF LoadInv, NoCalls
<1> QED
  BY <1>8, <1>11, <1>12 DEF LoadInv, CLabels, LoadedIsExpansion, Loaded, At

LEMMA WalkStops ==
  ASSUME LoadInv, pc \in CLabels, Stop, UNCHANGED <<scenario, cli>>
  PROVE  LoadInv'
<1>1. pc' = "exited" /\ code' = 1
  BY DEF Stop, Raise, Exit
<1> QED
  BY <1>1 DEF LoadInv, CLabels, LoadedIsExpansion, Loaded, At

LEMMA ImportStep ==
  ASSUME LoadInv, Import
  PROVE  LoadInv'
<1>1. pc = "c.import" /\ pc \in CLabels /\ work # <<>> /\ UNCHANGED <<scenario, cli>> /\ Walking(Pieces, Stands)
  BY DEF Import, Take, At, CLabels, LoadInv
<1>2. Next1 \in Pieces
  <2>1. Head(work) \in Entries(Pieces)
    BY <1>1, ItemsOf DEF Walking
  <2> QED
    BY <2>1 DEF Next1, Entries
<1>3. CASE Next1.kind # "import"
  <2>1. Keep
    BY <1>3 DEF Import
  <2> QED
    BY <1>1, <2>1, WalkKeeps
<1>4. CASE Next1.kind = "import" /\ (Next1.name \in In1 \/ Next1.name \notin DOMAIN Fragments)
  <2>1. Stop
    BY <1>4 DEF Import
  <2> QED
    BY <1>1, <2>1, WalkStops
<1>5. CASE Next1.kind = "import" /\ Next1.name \notin In1 /\ Next1.name \in DOMAIN Fragments
  <2>1. Next1 \in DOMAIN Stands
    BY <1>2, <1>5, PieceKnown
  <2>2. Stands[Next1] = Fragments[Next1.name]
    BY <1>5, <2>1 DEF Stands
  <2>3. Open(Stands[Next1], Next1.name)
    BY <1>5, <2>2 DEF Import
  <2> QED
    BY <1>1, <2>1, <2>3, WalkOpens
<1> QED
  BY <1>3, <1>4, <1>5

LEMMA ExpandStep ==
  ASSUME LoadInv, Expand
  PROVE  LoadInv'
<1>1. pc = "c.call" /\ pc \in CLabels /\ work # <<>> /\ UNCHANGED <<scenario, cli>> /\ Walking(Pieces, Stands)
  BY DEF Expand, Take, At, CLabels, LoadInv
<1>2. Next1 \in Pieces
  <2>1. Head(work) \in Entries(Pieces)
    BY <1>1, ItemsOf DEF Walking
  <2> QED
    BY <2>1 DEF Next1, Entries
<1>3. CASE Next1.kind # "call"
  <2>1. Keep
    BY <1>3 DEF Expand
  <2> QED
    BY <1>1, <1>3, <2>1, WalkKeeps
<1>4. CASE Stop
  BY <1>1, <1>4, WalkStops
<1>5. CASE Next1.kind = "call" /\ Callable(Next1, In1) /\ Open(Body(Next1), Next1.name)
  <2>1. Next1 \in DOMAIN Stands
    BY <1>2, <1>5, PieceKnown DEF Callable
  <2>2. Stands[Next1] = Body(Next1)
    BY <1>5, <2>1 DEF Stands
  <2> QED
    BY <1>1, <1>5, <2>1, <2>2, WalkOpens
<1>6. Next1.kind = "call" => Stop \/ (Callable(Next1, In1) /\ Open(Body(Next1), Next1.name))
  BY DEF Expand
<1> QED
  BY <1>3, <1>4, <1>5, <1>6

LEMMA AsideStep ==
  ASSUME LoadInv, ExpandAside
  PROVE  LoadInv'
<1>1. pc = "c.call" /\ pc \in CLabels /\ UNCHANGED <<scenario, cli>>
  BY DEF ExpandAside, At, CLabels
<1>2. CASE Stop
  BY <1>1, <1>2, WalkStops
<1>3. CASE UNCHANGED <<pc, code, work, done, replaced>>
  <2>1. Stands' = Stands /\ Pieces' = Pieces
    BY <1>1, SameMeaning DEF Pieces
  <2> QED
    BY <1>1, <1>3, <2>1 DEF LoadInv, CLabels, Walking, NoCalls, LoadedIsExpansion, Loaded, At
<1>4. Stop \/ UNCHANGED <<pc, code, work, done, replaced>>
  BY DEF ExpandAside
<1> QED
  BY <1>2, <1>3, <1>4

LEMMA ImportedStep ==
  ASSUME LoadInv, Imported
  PROVE  LoadInv'
<1>1. PICK T, stands : T = Pieces /\ stands = Stands
  OBVIOUS
<1>2. /\ pc = "c.import" /\ work = <<>> /\ UNCHANGED <<scenario, cli, replaced>>
      /\ pc' = "c.call" /\ work' = Bare(done, {}) /\ done' = <<>>
      /\ done \in Seq(T) /\ work \in Seq(Entries(T)) /\ replaced \in Nat
      /\ Leads(T, stands, done \o ItemsIn(work), scenario.items, replaced)
  BY <1>1 DEF Imported, At, Goto, LoadInv, Walking
<1>3. Pieces' = T /\ Stands' = stands
  BY <1>1, <1>2, SameMeaning DEF Pieces
<1>4. done \o ItemsIn(work) = done
  <2>1. ItemsIn(work) = <<>>
    BY <1>2, ItemsOf
  <2> QED
    BY <1>2, <2>1, ConcatEmptySeq
<1>5. PICK none \in SUBSET {y.name : y \in T} : none = {}
  OBVIOUS
<1>6. Bare(done, none) \in Seq(Entries(T)) /\ ItemsIn(Bare(done, none)) = done
  BY <1>2, ItemsBare
<1>7. <<>> \in Seq(T) /\ <<>> \o done = done
  BY <1>2, EmptySeq, ConcatEmptySeq
<1>8. Walking(Pieces, Stands)'
  BY <1>2, <1>3, <1>4, <1>5, <1>6, <1>7 DEF Walking
<1>9. NoCalls'
  BY <1>2 DEF NoCalls
<1> QED
  BY <1>2, <1>8, <1>9 DEF LoadInv, CLabels, LoadedIsExpansion, Loaded, At

LEMMA FindStep ==
  ASSUME LoadInv, Find
  PROVE  LoadInv'
<1>1. /\ pc = "c.find" /\ done = <<>> /\ replaced = 0 /\ UNCHANGED <<scenario, cli, done, replaced>>
      /\ scenario \in Scenarios /\ cli \in Overrides
      /\ \/ pc' = "c.import" /\ work' = Bare(scenario.items, {})
         \/ pc' = "exited" /\ code' = 1
  BY DEF Find, At, Goto, Exit, LoadInv, CLabels
<1>2. PICK T, stands : T = Pieces /\ stands = Stands
  OBVIOUS
<1>3. Pieces' = T /\ Stands' = stands
  BY <1>1, <1>2, SameMeaning DEF Pieces
<1>4. PICK s \in Seq(T) : s = scenario.items
  <2>1. \A A, B : A \subseteq B => Seq(A) \subseteq Seq(B)
    OBVIOUS
  <2>2. AllItems \subseteq T
    BY <1>2 DEF Pieces
  <2>3. scenario.items \in Seq(AllItems)
    BY <1>1, FilesAssumption
  <2> QED
    BY <2>1, <2>2, <2>3, Zenon
<1>5. PICK none \in SUBSET {y.name : y \in T} : none = {}
  OBVIOUS
<1>6. <<>> \in Seq(Entries(T)) /\ Bare(s, none) \in Seq(Entries(T)) /\ ItemsIn(Bare(s, none)) = s
  <2>1. <<>> \in Seq(Entries(T))
    BY EmptySeq
  <2> QED
    BY <2>1, ItemsBare
<1>7. Leads(T, stands, s, s, 0)
  BY DEF Leads
<1>8. <<>> \in Seq(T) /\ <<>> \o s = s
  BY EmptySeq, ConcatEmptySeq
<1>9. CASE pc' = "c.import" /\ work' = Bare(scenario.items, {})
  <2>1. Walking(Pieces, Stands)'
    BY <1>1, <1>3, <1>4, <1>5, <1>6, <1>7, <1>8, <1>9 DEF Walking
  <2> QED
    BY <1>1, <1>9, <2>1 DEF LoadInv, CLabels, LoadedIsExpansion, Loaded, At
<1>10. CASE pc' = "exited" /\ code' = 1
  BY <1>1, <1>10 DEF LoadInv, CLabels, LoadedIsExpansion, Loaded, At
<1> QED
  BY <1>1, <1>9, <1>10

\* what is left when neither an import nor a call is, is what the scenario leads to
LEMMA LeftIsFinal ==
  ASSUME done \in Seq(Pieces), NoCalls, replaced \in Nat, \A i \in DOMAIN done : done[i].kind # "import",
         Leads(Pieces, Stands, done, scenario.items, replaced)
  PROVE  Levels(scenario.items, Stands, replaced) = done
<1>1. Final(done, Stands)
  <2>1. \A i \in DOMAIN done : done[i] \in Pieces
    OBVIOUS
  <2> QED
    BY <2>1, PieceKnown DEF Final, NoCalls
<1>2. Levels(done, Stands, 0) = done
  BY StandsReplace, LevelsNext
<1>3. Levels(scenario.items, Stands, 0 + replaced) = done
  BY <1>1, <1>2 DEF Leads
<1> QED
  BY <1>3

LEMMA RenderStep ==
  ASSUME LoadInv, Expanded \/ RenderAll
  PROVE  LoadInv'
<1>1. UNCHANGED <<scenario, cli, replaced>> /\ scenario \in Scenarios /\ cli \in Overrides
  BY DEF Expanded, RenderAll, At, LoadInv, CLabels, cVars
<1>2. Stands' = Stands /\ Pieces' = Pieces /\ Meaning' = Meaning /\ Merged' = Merged
  BY <1>1, SameMeaning DEF Pieces
<1>3. CASE Expanded
  <2>1. /\ pc = "c.call" /\ pc' = "c.render" /\ UNCHANGED done /\ work = <<>> /\ NoCalls
        /\ Walking(Pieces, Stands)
    BY <1>3 DEF Expanded, At, Goto, LoadInv, cVars
  <2>2. done \o ItemsIn(work) = done
    <3>1. ItemsIn(work) = <<>>
      BY <2>1, ItemsOf DEF Walking
    <3> QED
      BY <2>1, <3>1, ConcatEmptySeq DEF Walking
  <2> QED
    BY <1>1, <1>2, <2>1, <2>2 DEF LoadInv, CLabels, Walking, NoCalls, LoadedIsExpansion, Loaded, At
<1>4. CASE RenderAll
  <2>1. /\ pc = "c.render" /\ done \in Seq(Pieces) /\ replaced \in Nat /\ NoCalls
        /\ Leads(Pieces, Stands, done, scenario.items, replaced)
        /\ \/ pc' = "exited" /\ code' = 4
           \/ pc' = "c.phases" /\ Renders(done, Merged) /\ done' = Render(done, Merged)
    BY <1>4 DEF RenderAll, At, Goto, Exit, LoadInv
  <2>2. CASE pc' = "exited" /\ code' = 4
    BY <1>1, <2>2 DEF LoadInv, CLabels, LoadedIsExpansion, Loaded, At
  <2>3. CASE pc' = "c.phases" /\ Renders(done, Merged) /\ done' = Render(done, Merged)
    <3>1. PICK d : d = Render(done, Merged)
      OBVIOUS
    <3>2. DOMAIN Merged # {} => \A i \in DOMAIN d : \A t \in Texts(d[i]) : ~Template(t)
      BY <1>1, <2>1, <2>3, <3>1, RenderLeavesNone
    <3>3. ~ImportLeft' => \A i \in DOMAIN done : done[i].kind # "import"
      <4>1. ASSUME NEW i \in DOMAIN done, done[i].kind = "import" PROVE ImportLeft'
        <5>1. i \in DOMAIN d /\ d[i].kind = "import"
          <6>1. CASE DOMAIN Merged = {}
            BY <3>1, <4>1, <6>1 DEF Render
          <6>2. CASE DOMAIN Merged # {}
            <7>1. i \in DOMAIN d /\ d[i] = Rendered(done[i], Merged)
              BY <3>1, <6>2 DEF Render
            <7>2. Proper(done[i])
              BY <2>1, PiecesAre
            <7>3. Rendered(done[i], Merged) = done[i]
              BY <4>1, <7>2, RenderedShape
            <7> QED
              BY <4>1, <7>1, <7>3
          <6> QED
            BY <6>1, <6>2
        <5>2. d[i] \in Texts(d[i])
          BY DEF Texts
        <5> QED
          BY <2>3, <3>1, <5>1, <5>2 DEF ImportLeft
      <4> QED
        BY <4>1
    <3>4. ~ImportLeft' => done' = Meaning
      BY <2>1, <2>3, <3>3, LeftIsFinal DEF Meaning
    <3>5. Untemplated'
      BY <1>2, <2>3, <3>1, <3>2 DEF Untemplated
    <3> QED
      BY <1>1, <1>2, <2>3, <3>4, <3>5 DEF LoadInv, CLabels, LoadedIsExpansion, Loaded, At
  <2> QED
    BY <2>1, <2>2, <2>3
<1> QED
  BY <1>3, <1>4

LEMMA LoadStep ==
  ASSUME LoadInv, StartLoad \/ CNext
  PROVE  LoadInv'
<1>1. CASE StartLoad
  <2>1. /\ pc = "main" /\ done = <<>> /\ replaced = 0 /\ UNCHANGED <<done, replaced>> /\ pc' = "c.find"
        /\ scenario' \in Scenarios /\ cli' \in Overrides
    BY <1>1 DEF StartLoad, At, Goto, LoadInv
  <2> QED
    BY <2>1 DEF LoadInv, CLabels, LoadedIsExpansion, Loaded, At
<1>2. CASE ResolvePhases
  <2>1. /\ pc = "c.phases" /\ (~ImportLeft => done = Meaning) /\ Untemplated /\ UNCHANGED <<scenario, cli, done, replaced>>
        /\ scenario \in Scenarios /\ cli \in Overrides /\ pc' = "exited"
    BY <1>2 DEF ResolvePhases, At, Exit, LoadInv, CLabels
  <2>2. Meaning' = Meaning /\ Merged' = Merged /\ ImportLeft' = ImportLeft
    BY <2>1, SameMeaning DEF ImportLeft
  <2>3. LoadedIsExpansion'
    BY <2>1, <2>2 DEF LoadedIsExpansion, Untemplated
  <2> QED
    BY <2>1, <2>3 DEF LoadInv, CLabels
<1> QED
  BY <1>1, <1>2, FindStep, ImportStep, ImportedStep, ExpandStep, AsideStep, RenderStep DEF CNext

=============================================================================
