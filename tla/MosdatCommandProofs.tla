------------------------ MODULE MosdatCommandProofs ------------------------
(***************************************************************************)
(* Theorems about MosdatCommand, for all values of the constants: what a   *)
(* single command keeps, a process keeps that runs any of them.            *)
(***************************************************************************)
EXTENDS MosdatCommand, ClientProofs, BuildCommandProofs, FunctionalCommandProofs

-----------------------------------------------------------------------------
(* Every handler keeps to its labels. *)

LLabels == {"l.serving"}
ULabels == {"u.send", "u.wait", "u.error", "u.press"}
VLabels == {"v.lookup", "v.call", "v.reply", "v.raised", "v.point", "v.nopoint", "v.verdict", "v.turn", "v.settle"}
PLabels == {"p.request", "p.done"}
RLabels == {"r.docker", "r.list", "r.port", "r.probe", "r.pull", "r.up", "r.poll", "r.down", "r.instances"}
HLabels == {"h.wait", "h.dry", "h.probe", "h.lock", "h.search", "h.admin", "h.uac", "h.elevated", "h.lines",
            "h.post", "h.ping", "h.agent", "h.items", "h.checks"}

Within(labels)  == UNCHANGED <<pc, code>> \/ (pc \in labels /\ pc' \in labels \cup {"exited", "hung"})
Enters(labels)  == pc = "main" /\ pc' \in labels \cup {"exited"}

LEMMA CWithin == (CNext => Within(CLabels)) /\ (StartLoad => Enters(CLabels))
BY DEF CNext, Find, Import, Imported, Expand, ExpandAside, Expanded, Open, RenderAll, ResolvePhases, Take, Keep, Stop, StartLoad,
       Raise, Exit, Goto, At, Within, Enters, CLabels

LEMMA FWithin == (FNext => Within(FLabels)) /\ (StartFunctional => Enters(FLabels))
BY DEF FNext, FMain, Refuse, Accept, EnterVM, EnterFails, StartRecorder, StartFails, Drivers, Inject, Probe,
       StepStart, StepLooks, Look, Capture, BusDelivers, BusTimesOut, DirectAsks, DirectDone, DirectLost,
       StepEnds, LeaveRun, RunPasses, CloseDriver, JoinThread, Export, Answer, Verdict, Finish, WatchdogFires,
       InTry, InFinally, Swallowing, Unanswered, FThread, _capture_loop, CaptureTick, CaptureLost, CaptureDone,
       FrameStamped, FrameKept, CaptureEnds, ThreadFrame, Hangs, StartFunctional, Raise, Exit, Goto, At, Within, Enters, FLabels

LEMMA LWithin == (LNext => Within(LLabels)) /\ (StartLive => Enters(LLabels))
BY DEF LNext, LWriter, LWatch, LServe, Interrupt, Poll, ReadChunk, broadcast_event, PollEnds, Watch, Serves,
       subscribe, CopyQueue, EmptyQueue, unsubscribe, StartLive, process, Exit, Goto, At, Within, Enters, LLabels

LEMMA UWithin == (UNext => Within(ULabels)) /\ (StartClick => Enters(ULabels))
BY DEF UNext, UMain, UError, StepFails, StepDone, Sending, EnsureSetup, Connect, Refused, Lost, Deploy,
       RunRemote, Status255, NeverReady, NoAnswer, Works, Changes, Answers, Found, FoundAll, Checked,
       PressButton, Clicked, Acted, NoTarget, More, Call, TryNext, StartClick, process, Exit, Goto, At,
       Within, Enters, ULabels

LEMMA VWithin == (VNext => Within(VLabels)) /\ (StartVlm => Enters(VLabels))
BY DEF VNext, VMain, Lookup, Replies, FailsOver, RaisesVlm, GivesUp, PointAnswered, PointRaises, Localized,
       NotLocalized, Sampled, Answered, Voted, Decided, Raised, Turn, Chosen, Settle, OtherPuts, TimeGoesOn,
       Asking, Again, Shoot, Agent, Ends, StartVlm, First, process, Exit, Goto, At, Within, Enters, VLabels

LEMMA PWithin == (PNext => Within(PLabels)) /\ (StartApi => Enters(PLabels))
BY DEF PNext, PMain, Authenticate, TicketAges, Attempt, Done, GuestExits, Returned, Issue, StartApi, process,
       Hangs, Exit, Goto, At, Within, Enters, PLabels

LEMMA BWithin == (BNext => Within(BLabels)) /\ (StartBuild => Enters(BLabels))
<1> USE DEF Raise, Exit, Goto, At, Within, BLabels
<1>1. StartBuild => Enters(BLabels)
  BY DEF StartBuild, Enters
<1>2. Gate1 \/ Gate2 \/ CacheHit \/ CacheUnusable \/ DryDownload \/ Download \/ NoUrl => Within(BLabels)
  BY DEF Gate1, Gate2, CacheHit, CacheUnusable, DryDownload, Download, NoUrl, FallBack, Use
<1>3. CloneOrUpdate \/ Build \/ Release => Within(BLabels)
  BY DEF CloneOrUpdate, Build, Release, Use
<1>4. NextVm \/ Native \/ CopyPackage \/ Install \/ CheckVersion \/ VerifySymbols => Within(BLabels)
  BY DEF NextVm, Native, CopyPackage, Install, CheckVersion, VerifySymbols, Report, Fails
<1>5. Push \/ Uploads \/ CiEnds => Within(BLabels)
  BY DEF Push, Uploads, CiEnds, Hosted, process
<1> QED
  BY <1>1, <1>2, <1>3, <1>4, <1>5 DEF BNext, BMain

LEMMA RWithin == (RNext => Within(RLabels)) /\ (StartServer => Enters(RLabels))
BY DEF RNext, RMain, Daemon, ListProjects, DiscoverPort, ProbeOnce, Pull, Missing, ComposeUp, ReadyPoll, ComposeDown,
       Instances, Boots, Interferes, World, Reply, StartServer, Exit, Goto, At, Within, Enters, RLabels

LEMMA HWithin == (HNext => Within(HLabels)) /\ (StartReadiness => Enters(HLabels))
BY DEF HNext, HMain, DryRun, WaitReady, ProbeKeys, LockCheck, Search, RunAsAdmin, UacYes, Elevated, TypeLine,
       PostProbe, PingAgent, AgentKey, Item, Inspect, SshBoots, ConsoleMoves, Shows, Stops, Aborts,
       Hangs, StartReadiness, process, Exit, Goto, At, Within, Enters, HLabels

\* a step of the process is one of a given command, or leaves it alone
Elsewhere(labels) == \/ UNCHANGED <<pc, code>>
                     \/ pc \notin labels \cup {"exited", "hung"} /\ pc' \notin labels \cup {"main"}

Handlers == {"c", "f", "l", "u", "v", "p", "b", "r", "h"}
LabelsOf(h) == CASE h = "c" -> CLabels [] h = "f" -> FLabels [] h = "l" -> LLabels
                 [] h = "u" -> ULabels [] h = "v" -> VLabels [] h = "p" -> PLabels
                 [] h = "b" -> BLabels [] h = "r" -> RLabels [] h = "h" -> HLabels

LEMMA OwnLabels ==
  \A g, h \in Handlers : /\ {"main", "exited", "hung"} \cap LabelsOf(g) = {}
                         /\ g # h => LabelsOf(g) \cap LabelsOf(h) = {}
<1> DEFINE OwnerOf(g) == /\ {"main", "exited", "hung"} \cap LabelsOf(g) = {}
                         /\ \A h \in Handlers \ {g} : LabelsOf(g) \cap LabelsOf(h) = {}
<1> USE DEF Handlers, LabelsOf, CLabels, FLabels, LLabels, ULabels, VLabels, PLabels, BLabels, RLabels, HLabels
<1>1. OwnerOf("c")
  OBVIOUS
<1>2. OwnerOf("f")
  OBVIOUS
<1>3. OwnerOf("l")
  OBVIOUS
<1>4. OwnerOf("u")
  OBVIOUS
<1>5. OwnerOf("v")
  OBVIOUS
<1>6. OwnerOf("p")
  OBVIOUS
<1>7. OwnerOf("b")
  OBVIOUS
<1>8. OwnerOf("r")
  OBVIOUS
<1>9. OwnerOf("h")
  OBVIOUS
<1> HIDE DEF LabelsOf, OwnerOf
<1>10. \A g \in Handlers : OwnerOf(g)
  BY <1>1, <1>2, <1>3, <1>4, <1>5, <1>6, <1>7, <1>8, <1>9
<1> QED
  BY <1>10 DEF OwnerOf

LEMMA Labels ==
  /\ \A h \in Handlers : Within(LabelsOf(h)) \/ Enters(LabelsOf(h)) =>
       \A g \in Handlers \ {h} : Elsewhere(LabelsOf(g))
  /\ Enters({}) => \A g \in Handlers : Elsewhere(LabelsOf(g))
BY OwnLabels DEF Within, Enters, Elsewhere

\* A step is one of the handler, or the handler does not see it.
LEMMA Apart ==
  ASSUME Next
  PROVE  /\ StartLoad \/ CNext \/ (UNCHANGED cVars /\ Elsewhere(CLabels))
         /\ StartFunctional \/ FNext \/ (UNCHANGED fVars /\ Elsewhere(FLabels))
         /\ StartLive \/ LNext \/ (UNCHANGED lVars /\ Elsewhere(LLabels))
         /\ StartClick \/ UNext \/ (UNCHANGED uVars /\ Elsewhere(ULabels))
         /\ StartVlm \/ VNext \/ (UNCHANGED vVars /\ Elsewhere(VLabels))
         /\ StartApi \/ PNext \/ (UNCHANGED pVars /\ Elsewhere(PLabels))
         /\ StartBuild \/ BNext \/ (UNCHANGED bVars /\ Elsewhere(BLabels))
         /\ StartServer \/ RNext \/ (UNCHANGED rVars /\ Elsewhere(RLabels))
         /\ StartReadiness \/ HNext \/ (UNCHANGED hVars /\ Elsewhere(HLabels))
<1>1. /\ LabelsOf("c") = CLabels /\ "c" \in Handlers
      /\ LabelsOf("f") = FLabels /\ "f" \in Handlers
      /\ LabelsOf("l") = LLabels /\ "l" \in Handlers
      /\ LabelsOf("u") = ULabels /\ "u" \in Handlers
      /\ LabelsOf("v") = VLabels /\ "v" \in Handlers
      /\ LabelsOf("p") = PLabels /\ "p" \in Handlers
      /\ LabelsOf("b") = BLabels /\ "b" \in Handlers
      /\ LabelsOf("r") = RLabels /\ "r" \in Handlers
      /\ LabelsOf("h") = HLabels /\ "h" \in Handlers
  BY DEF Handlers, LabelsOf
<1>2. CASE (StartLoad \/ CNext) /\ Load
  BY <1>1, <1>2, CWithin, Labels DEF Load
<1>3. CASE (StartFunctional \/ FNext) /\ Functional
  BY <1>1, <1>3, FWithin, Labels DEF Functional
<1>4. CASE (StartLive \/ LNext) /\ Live
  BY <1>1, <1>4, LWithin, Labels DEF Live
<1>5. CASE (StartClick \/ UNext) /\ Ui
  BY <1>1, <1>5, UWithin, Labels DEF Ui
<1>6. CASE (StartVlm \/ VNext) /\ Vlm
  BY <1>1, <1>6, VWithin, Labels DEF Vlm
<1>7. CASE (StartApi \/ PNext) /\ Api
  BY <1>1, <1>7, PWithin, Labels DEF Api
<1>8. CASE (StartBuild \/ BNext) /\ BuildOnly
  BY <1>1, <1>8, BWithin, Labels DEF BuildOnly
<1>9. CASE (StartServer \/ RNext) /\ Server
  BY <1>1, <1>9, RWithin, Labels DEF Server
<1>10. CASE (StartReadiness \/ HNext) /\ Readiness
  BY <1>1, <1>10, HWithin, Labels DEF Readiness
<1>11. CASE BadConfig \/ (At("main") /\ Exit(0) /\ UNCHANGED <<faults, cVars>> /\ Load)
  <2>1. Enters({})
    BY <1>11 DEF BadConfig, Raise, Exit, At, Enters
  <2> QED
    BY <1>1, <1>11, <2>1, Labels DEF BadConfig, Load
<1> QED
  BY <1>2, <1>3, <1>4, <1>5, <1>6, <1>7, <1>8, <1>9, <1>10, <1>11 DEF Next, Dispatch

-----------------------------------------------------------------------------
(* The Proxmox client *)

\* Whatever is lost and however often, the server executes a request that changes
\* something at most once, and a method that returns tells what happened
\* (_request and agent_exec of proxmox/api.py).
THEOREM WritesHappenOnce == Spec => []WritesOnce
<1>1. Init => OnceInv
  BY OnceInit DEF Init
<1>2. OnceInv /\ [Next]_vars => OnceInv'
  <2> SUFFICES ASSUME OnceInv, [Next]_vars PROVE OnceInv'
    OBVIOUS
  <2>1. CASE StartApi \/ PNext
    BY <2>1, OnceStep
  <2>2. CASE UNCHANGED pVars /\ Elsewhere(PLabels)
    BY <2>2, OnceAside DEF Elsewhere, PLabels
  <2>3. CASE UNCHANGED vars
    BY <2>3, OnceAside DEF vars, process
  <2> QED
    BY <2>1, <2>2, <2>3, Apart
<1>3. OnceInv => WritesOnce
  BY OnceImplies
<1> QED
  BY <1>1, <1>2, <1>3, PTL DEF Spec

-----------------------------------------------------------------------------
(* mosdat build *)

\* A dry run of mosdat build, and a build that exits with 2, 4 or 5, has touched no
\* VM, for any VMs, packages and pushes (run_build in commands/build.py).
THEOREM DryOrRefusedTouchesNothing == Spec => []NothingTouched
<1>1. Init => TouchedInv
  BY DEF Init, ProcessInit, BInit, NoOpts, TouchedInv, Untouched
<1>2. TouchedInv /\ [Next]_vars => TouchedInv'
  <2> SUFFICES ASSUME TouchedInv, [Next]_vars PROVE TouchedInv'
    OBVIOUS
  <2>1. CASE BNext
    BY <2>1, TouchedStep
  <2>2. CASE StartBuild
    <3>1. UNCHANGED app /\ Untouched
      BY <2>2 DEF StartBuild, At, TouchedInv, Touching
    <3>2. pc' \notin Touching \ {"b.vm"}
      BY <2>2 DEF StartBuild, Goto, Exit, Touching
    <3> QED
      BY <3>1, <3>2 DEF TouchedInv, Untouched
  <2>3. CASE UNCHANGED bVars /\ Elsewhere(BLabels)
    BY <2>3 DEF bVars, Elsewhere, BLabels, TouchedInv, Touching, Untouched
  <2>4. CASE UNCHANGED vars
    BY <2>4 DEF vars, process, bVars, TouchedInv, Untouched
  <2> QED
    BY <2>1, <2>2, <2>3, <2>4, Apart
<1>3. TouchedInv => NothingTouched
  BY DEF TouchedInv, NothingTouched, Untouched, Touching
<1> QED
  BY <1>1, <1>2, <1>3, PTL DEF Spec

\* A build that exits with 0 has put on every VM, and verified there, a whole package of
\* the head that it read or a later one - but where aria2c kept an older file - for
\* any VMs, lists of them, packages and pushes (run_build and install_release_on_vm).
THEOREM BuildsAreHonest == Spec => []BuildHonest
<1>1. Init => BuildInv
  <2> SUFFICES ASSUME Init PROVE BuildInv
    OBVIOUS
  <2>1. BInit /\ pc = "main"
    BY DEF Init, ProcessInit
  <2>2. <<>> \in Seq(DOMAIN BVMs) /\ ToSetB(<<>>) = {} /\ 0 \in 0..Len(NativeSteps)
    BY DEF ToSetB, NativeSteps
  <2>3. BuildTypes
    BY <2>1, <2>2 DEF BInit, BuildTypes, NoOpts, NoPackage, Package, NotYet, Sizes
  <2> QED
    BY <2>1, <2>3 DEF BuildInv, PackageKnown, BuildHonest, BInit, NoOpts, BLabels, DeployLabels
<1>2. BuildInv /\ [Next]_vars => BuildInv'
  <2> SUFFICES ASSUME BuildInv, [Next]_vars PROVE BuildInv'
    OBVIOUS
  <2>1. CASE StartBuild \/ BNext
    BY <2>1, BuildStep
  <2>2. CASE UNCHANGED bVars /\ Elsewhere(BLabels)
    BY <2>2, BuildAside DEF Elsewhere
  <2>3. CASE UNCHANGED vars
    BY <2>3, BuildAside DEF vars, process
  <2> QED
    BY <2>1, <2>2, <2>3, Apart
<1>3. BuildInv => BuildHonest
  BY DEF BuildInv
<1> QED
  BY <1>1, <1>2, <1>3, PTL DEF Spec

\* mosdat functional exits with 0 only when the scenario passed on every VM and every
\* check of the recording that was queued found its frame, for any number of VMs, steps
\* and deferred checks, whenever the watchdog fires (cmd_functional in main.py).
THEOREM ExitsAreHonest == Spec => []HonestExit
<1>1. Init => HonestInv
  <2> SUFFICES ASSUME Init PROVE HonestInv
    OBVIOUS
  <2>1. FInit /\ pc = "main"
    BY DEF Init, ProcessInit
  <2>2. <<>> \in Seq(Nat)
    OBVIOUS
  <2> QED
    BY <2>1, <2>2 DEF FInit, HonestInv, Known, Outside, HonestExit, FLabels
<1>2. HonestInv /\ [Next]_vars => HonestInv'
  <2> SUFFICES ASSUME HonestInv, [Next]_vars PROVE HonestInv'
    OBVIOUS
  <2>1. CASE StartFunctional \/ FNext
    BY <2>1, HonestStep
  <2>2. CASE UNCHANGED fVars /\ Elsewhere(FLabels)
    BY <2>2, HonestAside DEF Elsewhere
  <2>3. CASE UNCHANGED vars
    BY <2>3, HonestAside DEF vars, process
  <2> QED
    BY <2>1, <2>2, <2>3, Apart
<1>3. HonestInv => HonestExit
  BY DEF HonestInv
<1> QED
  BY <1>1, <1>2, <1>3, PTL DEF Spec

\* A deferred check is answered by a frame of this session, also where an earlier session
\* left its frames and events, and wherever the windows begin and end (_filter_and_copy in
\* recording/session_recorder.py, resolve_pending_verifies in runners/deferred_verify.py).
THEOREM OwnFramesOnly == Spec => []OwnFramesAnswer
<1>1. Init => OwnInv
  <2> SUFFICES ASSUME Init PROVE OwnInv
    OBVIOUS
  <2>1. FInit /\ pc = "main"
    BY DEF Init, ProcessInit
  <2> QED
    BY <2>1, RecorderAssumption DEF FInit, OwnInv, Files, OwnTimes, OwnFrames, OwnEvents, NoFiles, File
<1>2. OwnInv /\ [Next]_vars => OwnInv'
  <2> SUFFICES ASSUME OwnInv, [Next]_vars PROVE OwnInv'
    OBVIOUS
  <2>1. CASE StartFunctional \/ FNext
    BY <2>1, OwnStep
  <2>2. CASE UNCHANGED fVars /\ Elsewhere(FLabels)
    BY <2>2, OwnAside DEF Elsewhere
  <2>3. CASE UNCHANGED vars
    BY <2>3, OwnAside DEF vars, process
  <2> QED
    BY <2>1, <2>2, <2>3, Apart
<1>3. OwnInv => OwnFramesAnswer
  BY DEF OwnInv, OwnFramesAnswer
<1> QED
  BY <1>1, <1>2, <1>3, PTL DEF Spec

\* no step takes a fault back
OnceMore == faults' \in {faults, faults + 1}

LEMMA FaultsGrow ==
  ASSUME [Next]_vars
  PROVE  OnceMore
<1> USE DEF Fine, Fault, process, OnceMore
<1>1. CASE Dispatch \/ BadConfig \/ UNCHANGED vars
  <2>1. StartLoad \/ StartFunctional \/ StartLive \/ StartClick => OnceMore
    BY DEF StartLoad, StartFunctional, StartLive, StartClick
  <2>2. StartVlm \/ StartApi => OnceMore
    BY DEF StartVlm, StartApi
  <2>3. StartBuild => OnceMore
    BY DEF StartBuild
  <2>4. StartServer \/ StartReadiness => OnceMore
    BY DEF StartServer, StartReadiness, Given
  <2>5. BadConfig \/ UNCHANGED vars => OnceMore
    BY DEF BadConfig, vars
  <2> QED
    BY <1>1, <2>1, <2>2, <2>3, <2>4, <2>5 DEF Dispatch
<1>2. CNext => OnceMore
  BY DEF CNext, Find, Import, Imported, Expand, ExpandAside, Expanded, Open, RenderAll, ResolvePhases, Take, Keep, Stop
<1>3. FNext => OnceMore
  <2>1. Refuse \/ Accept \/ EnterVM \/ EnterFails \/ StartRecorder \/ StartFails \/ Drivers \/ Inject \/ Probe => OnceMore
    BY DEF Refuse, Accept, EnterVM, EnterFails, StartRecorder, StartFails, Drivers, Inject, Probe
  <2>2. StepStart \/ StepLooks \/ Capture \/ StepEnds \/ RunPasses => OnceMore
    BY DEF StepStart, StepLooks, Look, Capture, BusDelivers, BusTimesOut, DirectAsks, DirectDone, DirectLost, Lose, StepEnds, RunPasses
  <2>3. CloseDriver \/ JoinThread \/ Export \/ Answer \/ Verdict \/ Finish \/ WatchdogFires \/ Unanswered => OnceMore
    BY DEF CloseDriver, JoinThread, Export, Answer, Verdict, Finish, WatchdogFires, Unanswered, Hangs
  <2>4. FThread => OnceMore
    BY DEF FThread, _capture_loop, CaptureTick, CaptureLost, CaptureDone, FrameStamped, FrameKept, CaptureEnds, Lose
  <2> QED
    BY <2>1, <2>2, <2>3, <2>4 DEF FNext, FMain
<1>4. LNext => OnceMore
  BY DEF LNext, LWriter, LWatch, LServe, Interrupt, Poll, ReadChunk, broadcast_event, PollEnds, Watch, Serves,
         subscribe, CopyQueue, EmptyQueue, unsubscribe
<1>5. UNext => OnceMore
  BY DEF UNext, UMain, UError, StepFails, StepDone, Sending, EnsureSetup, Connect, Refused, Lost, Deploy,
         RunRemote, Status255, NeverReady, NoAnswer, Works, Changes, Answers, Found, FoundAll, Checked,
         PressButton, Clicked, Acted, NoTarget, More, Call, TryNext
<1>6. VNext => OnceMore
  BY DEF VNext, VMain, Lookup, Replies, FailsOver, RaisesVlm, GivesUp, PointAnswered, PointRaises, Localized,
         NotLocalized, Sampled, Answered, Voted, Decided, Raised, Turn, Chosen, Settle, OtherPuts, TimeGoesOn,
         Asking, Again, Shoot, Agent, Ends, First
<1>7. PNext => OnceMore
  BY DEF PNext, PMain, Authenticate, TicketAges, Attempt, Done, GuestExits, Returned, Issue, Hangs
<1>8. BNext => OnceMore
  <2>1. Gate1 \/ Gate2 \/ CacheHit \/ CacheUnusable \/ DryDownload \/ Download \/ NoUrl => OnceMore
    BY DEF Gate1, Gate2, CacheHit, CacheUnusable, DryDownload, Download, NoUrl, Remote
  <2>2. CloneOrUpdate \/ Build \/ Release => OnceMore
    BY DEF CloneOrUpdate, Build, Release, Local
  <2>3. NextVm \/ Native \/ CopyPackage \/ Install \/ CheckVersion \/ VerifySymbols => OnceMore
    BY DEF NextVm, Native, CopyPackage, Install, CheckVersion, VerifySymbols, Report, Fails
  <2>4. Push \/ Uploads \/ CiEnds => OnceMore
    BY DEF Push, Uploads, CiEnds, Hosted
  <2> QED
    BY <2>1, <2>2, <2>3, <2>4 DEF BNext, BMain
<1>9. RNext => OnceMore
  BY DEF RNext, RMain, Daemon, ListProjects, DiscoverPort, ProbeOnce, Pull, Missing, ComposeUp, ReadyPoll, ComposeDown,
         Instances, Boots, Interferes, Asks
<1>10. HNext => OnceMore
  BY DEF HNext, HMain, DryRun, WaitReady, ProbeKeys, LockCheck, Search, RunAsAdmin, UacYes, Elevated, TypeLine,
         PostProbe, PingAgent, AgentKey, Item, Inspect, SshBoots, ConsoleMoves, Shows, Stops, Aborts, Hangs
<1> HIDE DEF OnceMore
<1> QED
  BY <1>1, <1>2, <1>3, <1>4, <1>5, <1>6, <1>7, <1>8, <1>9, <1>10 DEF Next

\* As long as no request was given up, and the capture thread is not held up between its
\* frame and the time that it reads for it while the runner takes a whole frame, of two
\* frames that the runner takes one after the other the second shows the screen as it was
\* when the first was asked for, or later, for any other interleaving of the capture thread
\* with it (_capture_loop in recording/session_recorder.py, get_after in
\* recording/frame_bus.py, Screenshotter in vlm/screenshot.py).
THEOREM SecondFrameIsFresh == Spec => []SecondFrameFresh
<1>1. Init => FreshInv
  <2> SUFFICES ASSUME Init PROVE FreshInv
    OBVIOUS
  <2>1. FInit /\ pc = "main" /\ faults = 0
    BY DEF Init, ProcessInit
  <2>2. slot = NoFrame /\ mine = NoFrame /\ NoFrame \in Frames /\ NoFrame.done = 0
    BY <2>1 DEF FInit, NoFrame, Frames
  <2>3. /\ thread = "none" /\ lock = "free" /\ wire = <<>> /\ clock = 1 /\ asked = 0 /\ before = 0
        /\ stalled = FALSE /\ attached = FALSE
    BY <2>1 DEF FInit
  <2>4. OneRequest
    BY <2>1, <2>3 DEF OneRequest
  <2>5. Times
    <3>1. stalled \in BOOLEAN /\ ~attached
      BY <2>3
    <3>2. slot.done = 0 /\ mine.done = 0 /\ slot \in Frames /\ mine \in Frames
      BY <2>2
    <3> QED
      BY <2>1, <2>2, <2>3, <3>1, <3>2 DEF Times, LookLabels, RunLabels
  <2>6. Newer
    BY <2>1, <2>3 DEF Newer, NotOld
  <2>7. SecondFrameFresh
    BY <2>1 DEF SecondFrameFresh, At
  <2> QED
    BY <2>1, <2>4, <2>5, <2>6, <2>7 DEF FreshInv
<1>2. FreshInv /\ [Next]_vars => FreshInv'
  <2> SUFFICES ASSUME FreshInv, [Next]_vars PROVE FreshInv'
    OBVIOUS
  <2>0. faults' \in {faults, faults + 1}
    BY FaultsGrow DEF OnceMore
  <2>1. CASE StartFunctional \/ FNext
    BY <2>0, <2>1, FreshStep
  <2>2. CASE UNCHANGED fVars /\ Elsewhere(FLabels)
    BY <2>0, <2>2, FreshAside DEF Elsewhere
  <2>3. CASE UNCHANGED vars
    BY <2>0, <2>3, FreshAside DEF vars, process
  <2> QED
    BY <2>1, <2>2, <2>3, Apart
<1>3. FreshInv => SecondFrameFresh
  BY DEF FreshInv, SecondFrameFresh
<1> QED
  BY <1>1, <1>2, <1>3, PTL DEF Spec

-----------------------------------------------------------------------------
(* click steps *)

\* A worker begins the operations of one call of run_batch once, whatever is set up
\* again, times out or is refused; a second time only over SSH, after the connection
\* broke (run_batch in uia/client.py, atspi/client.py and uia/daemon_client.py,
\* SSHClient.run in transport/ssh.py).
THEOREM BatchesAreBegunOnce == Spec => []OncePerCall
<1>1. Init => BegunInv
  <2> SUFFICES ASSUME Init PROVE BegunInv
    OBVIOUS
  <2>1. UInit /\ UiInit /\ pc = "main"
    BY DEF Init, ProcessInit, UInit
  <2>2. IsSequence(<<>>) /\ DOMAIN <<>> = {}
    BY DEF IsSequence, ToSet
  <2> QED
    BY <2>1, <2>2 DEF UInit, UiInit, BegunInv, JobsKnown, SentOnce, OncePerCall
<1>2. BegunInv /\ [Next]_vars => BegunInv'
  <2> SUFFICES ASSUME BegunInv, [Next]_vars PROVE BegunInv'
    OBVIOUS
  <2>1. CASE StartClick \/ UNext
    BY <2>1, BegunStep
  <2>2. CASE UNCHANGED uVars /\ Elsewhere(ULabels)
    BY <2>2, BegunAside DEF Elsewhere, ULabels
  <2>3. CASE UNCHANGED vars
    BY <2>3, BegunAside DEF vars, process
  <2> QED
    BY <2>1, <2>2, <2>3, Apart
<1>3. BegunInv => OncePerCall
  BY DEF BegunInv, SentOnce
<1> QED
  BY <1>1, <1>2, <1>3, PTL DEF Spec

\* A click whose point was checked, and an action, reaches what was asked for, what is
\* inside or around it, or a passive overlay, unless the tree changed in between or the
\* paths of the two read alike, in any trees, however the batches get lost
\* (_click_via_pointer and _click_via_action in uia/client.py and atspi/client.py).
THEOREM ClicksReachTheTarget == Spec => []StrangersAlike
<1> DEFINE IInv == BegunInv /\ StrangerInv
<1>1. Init => IInv
  <2> SUFFICES ASSUME Init PROVE IInv
    OBVIOUS
  <2>1. UInit /\ UiInit /\ pc = "main"
    BY DEF Init, ProcessInit, UInit
  <2>2. IsSequence(<<>>) /\ DOMAIN <<>> = {} /\ <<>> \in Seq(Held)
    BY DEF IsSequence, ToSet
  <2>3. BegunInv
    BY <2>1, <2>2 DEF UInit, UiInit, BegunInv, JobsKnown, SentOnce, OncePerCall
  <2>4. StrangerInv
    BY <2>1, <2>2 DEF UInit, UiInit, StrangerInv, TreeKnown, CandsKnown, JobsOk, BatchKnown, StrangersAlike
  <2> QED
    BY <2>3, <2>4
<1>2. IInv /\ [Next]_vars => IInv'
  <2> SUFFICES ASSUME IInv, [Next]_vars PROVE IInv'
    OBVIOUS
  <2>1. CASE StartClick \/ UNext
    BY <2>1, BegunStep, StrangerStep
  <2>2. CASE UNCHANGED uVars /\ Elsewhere(ULabels)
    BY <2>2, BegunAside, StrangerAside DEF Elsewhere, ULabels
  <2>3. CASE UNCHANGED vars
    BY <2>3, BegunAside, StrangerAside DEF vars, process
  <2> QED
    BY <2>1, <2>2, <2>3, Apart
<1>3. IInv => StrangersAlike
  BY DEF StrangerInv
<1> HIDE DEF IInv
<1> QED
  BY <1>1, <1>2, <1>3, PTL DEF Spec

-----------------------------------------------------------------------------
(* the live dashboard *)

\* What a browser is shown are lines that the runs wrote, each at most once and in their
\* order, for any number of browsers, runs and lines, wherever a line is written or read
\* in two parts and the file begun anew (EventWatcher and SSEBroadcaster in
\* live_events.py, _serve_sse in live_dashboard_handler.py).
THEOREM LinesAreShownInOrder == Spec => []ShownInOrder
<1>1. Init => LiveInv
  BY NothingLive DEF Init, LInit, NothingRead
<1>2. LiveInv /\ [Next]_vars => LiveInv'
  <2> SUFFICES ASSUME LiveInv, [Next]_vars PROVE LiveInv'
    OBVIOUS
  <2>1. CASE StartLive \/ LNext
    BY <2>1, LiveStep
  <2>2. CASE UNCHANGED lVars /\ Elsewhere(LLabels)
    BY <2>2, LiveAside
  <2>3. CASE UNCHANGED vars
    BY <2>3, LiveAside DEF vars
  <2> QED
    BY <2>1, <2>2, <2>3, Apart
<1>3. LiveInv => ShownInOrder
  BY LiveImplies
<1> QED
  BY <1>1, <1>2, <1>3, PTL DEF Spec

-----------------------------------------------------------------------------
(* the vision model *)

\* A verdict was given for this very screenshot within the lifetime of the cache, a
\* majority is one, a point is on the screen, and all endpoints are said to be
\* exhausted only after each failed three times: for any number of endpoints, screen,
\* lifetime and answers (VLMClient in vlm/client.py, VLMCache in transport/vlm_cache.py).
THEOREM AnswersAreSound == Spec => []SoundAnswers
<1>1. Init => SoundInv
  <2> SUFFICES ASSUME Init PROVE SoundInv
    OBVIOUS
  <2>1. VInit /\ pc = "main"
    BY DEF Init, ProcessInit
  <2>2. <<>> \in Seq(0..Width) /\ <<>> \in Seq(BOOLEAN)
    OBVIOUS
  <2>3. Untried \in [0..(Endpoints - 1) -> Nat] /\ 0 \in 0..(Endpoints - 1) /\ 0 \in 0..Width
    BY VlmAssumption DEF Untried
  <2>4. Placed /\ Sampling /\ Pointing /\ Voting
    BY <2>1, <2>2, <2>3 DEF VInit, NoResult, Placed, VPlaces, Endings, Sampling, Pointing, Voting
  <2>5. Rows /\ Saying
    BY <2>1 DEF VInit, NoResult, Rows, Saying
  <2>6. Trying
    BY <2>1, <2>3 DEF VInit, NoResult, Trying, VPlaces
  <2> QED
    BY <2>4, <2>5, <2>6 DEF SoundInv
<1>2. SoundInv /\ [Next]_vars => SoundInv'
  <2> SUFFICES ASSUME SoundInv, [Next]_vars PROVE SoundInv'
    OBVIOUS
  <2>1. CASE StartVlm \/ VNext
    BY <2>1, SoundStep
  <2>2. CASE UNCHANGED vVars /\ Elsewhere(VLabels)
    BY <2>2, SoundAside DEF Elsewhere, VLabels, VPlaces
  <2>3. CASE UNCHANGED vars
    BY <2>3, SoundAside DEF vars, process
  <2> QED
    BY <2>1, <2>2, <2>3, Apart
<1>3. SoundInv => SoundAnswers
  BY DEF SoundInv, Saying, Recent, Voting, Pointing, Trying, Thrice, SoundAnswers
<1> QED
  BY <1>1, <1>2, <1>3, PTL DEF Spec

-----------------------------------------------------------------------------
(* mosdat ssh-bootstrap *)

\* what the console shows while nothing has come between
Expected == [l \in {"h.search", "h.admin", "h.uac", "h.elevated", "h.lines"} |->
               CASE l = "h.search" -> {"desktop"}
                 [] l = "h.admin"  -> {"results"}
                 [] l = "h.uac"    -> {"uac", "elevated"}
                 [] OTHER          -> {"elevated"}]
ConsoleInv == misled \/ /\ typed \subseteq {"desktop", "elevated"}
                        /\ pc \in {"main", "h.probe", "h.lock"} => console \in {"locked", "desktop"}
                        /\ pc \in DOMAIN Expected => console \in Expected[pc]

LEMMA ConsoleStep ==
  ASSUME ConsoleInv, StartReadiness \/ HNext
  PROVE  ConsoleInv'
<1> USE DEF ConsoleInv, Expected, Exit, Goto, At
<1>1. CASE StartReadiness
  BY <1>1 DEF StartReadiness, Given
<1>2. CASE LockCheck
  BY <1>2 DEF LockCheck, Shows, Stops, Aborts, Console, Vm
<1>3. CASE Search
  BY <1>3 DEF Search, Stops, Aborts, Console, Vm
<1>4. CASE RunAsAdmin
  BY <1>4 DEF RunAsAdmin, Shows, Stops, Aborts, Console, Vm
<1>5. CASE UacYes
  BY <1>5 DEF UacYes, Shows, Stops, Aborts, Console, Vm
<1>6. CASE Elevated
  BY <1>6 DEF Elevated, Shows, Stops, Aborts, Console, Vm
<1>7. CASE TypeLine
  BY <1>7 DEF TypeLine, Stops, Aborts, Console, Vm
<1>8. CASE DryRun \/ WaitReady \/ ProbeKeys \/ PostProbe \/ PingAgent \/ AgentKey \/ Item \/ Inspect
  BY <1>8 DEF DryRun, WaitReady, ProbeKeys, PostProbe, PingAgent, AgentKey, Item, Inspect, Console, Vm, hVars, Hangs
<1>9. CASE SshBoots \/ ConsoleMoves
  BY <1>9 DEF SshBoots, ConsoleMoves, Console, Vm, process
<1> QED
  BY <1>1, <1>2, <1>3, <1>4, <1>5, <1>6, <1>7, <1>8, <1>9 DEF HNext, HMain

\* ssh-bootstrap types only into the search box of the desktop and into an elevated
\* shell, for any number of faults (bootstrap_windows_ssh in commands/ssh_bootstrap.py).
THEOREM TypesWhereItShould == Spec => []TypedToElevated
<1>1. Init => ConsoleInv
  BY DEF Init, ProcessInit, HInit, ConsoleInv, Expected
<1>2. ConsoleInv /\ [Next]_vars => ConsoleInv'
  <2> SUFFICES ASSUME ConsoleInv, [Next]_vars PROVE ConsoleInv'
    OBVIOUS
  <2>1. CASE StartReadiness \/ HNext
    BY <2>1, ConsoleStep
  <2>2. CASE UNCHANGED hVars /\ Elsewhere(HLabels)
    BY <2>2 DEF hVars, Elsewhere, HLabels, ConsoleInv, Expected
  <2>3. CASE UNCHANGED vars
    BY <2>3 DEF vars, process, hVars, ConsoleInv
  <2> QED
    BY <2>1, <2>2, <2>3, Apart
<1>3. ConsoleInv => TypedToElevated
  BY DEF ConsoleInv, TypedToElevated
<1> QED
  BY <1>1, <1>2, <1>3, PTL DEF Spec

-----------------------------------------------------------------------------
(* mosdat server-provision, server-teardown and server-list *)

Stacks == [ref : DOMAIN Refs \cup {"none"}, port : Ports \cup {0, 1}, live : BOOLEAN]

\* no two projects share a port
OwnPorts == \A p, q \in Busy : stacks[p].port = stacks[q].port => p = q
\* what is known where the command stands, of the project it is about
ServerKnows ==
  /\ pc \in {"r.docker", "r.list"} => ~over /\ repo = 0 /\ refused = 0
  /\ pc = "r.pull" => (refused = repo \/ misread) /\ repo < Repositories
  /\ pc \in {"r.pull", "r.up"} => stacks[Project] = NoStack \/ blind \/ others
  /\ pc \in {"r.probe", "r.poll"} => \A p \in Busy : stacks[p].port = port => p = Project
  /\ over => blind \/ others
ServerInv ==
  /\ stacks \in [Projects -> Stacks] /\ OwnPorts /\ repo \in Nat
  /\ order = NoOrder => pc \notin RLabels /\ reply = NoReply /\ ~over /\ repo = 0 /\ refused = 0 /\ ~misread
  /\ order # NoOrder => order.ref \in DOMAIN Refs /\ pc \in RLabels \cup {"exited"} /\ ServerKnows
  /\ ServerTruth

\* the project of a reference is one of the projects
LEMMA ProjectIs == order.ref \in DOMAIN Refs => Project \in Projects
BY DEF Project, Projects

\* this process or another one starts the project, at a port that is free
LEMMA StackStarts ==
  ASSUME ServerInv, NEW o \in Projects, NEW r \in DOMAIN Refs, NEW q \in Free,
         stacks' = [stacks EXCEPT ![o] = [ref |-> r, port |-> q, live |-> FALSE]]
  PROVE  stacks' \in [Projects -> Stacks] /\ OwnPorts' /\ (\A p \in Busy' \ {o} : stacks'[p].port # q)
<1>1. q \in Ports /\ \A p \in Busy : stacks[p].port # q
  BY DEF Free
<1>2. stacks' \in [Projects -> Stacks]
  BY <1>1 DEF ServerInv, Stacks
<1>3. stacks'[o].port = q /\ \A p \in Projects \ {o} : stacks'[p] = stacks[p]
  BY DEF ServerInv
<1>4. \A p \in Busy' \ {o} : p \in Busy /\ stacks'[p].port # q
  BY <1>1, <1>3 DEF Busy
<1>5. OwnPorts'
  BY <1>3, <1>4 DEF OwnPorts, Busy, ServerInv
<1> QED
  BY <1>2, <1>4, <1>5

LEMMA StackStops ==
  ASSUME ServerInv, NEW o \in Projects, stacks' = [stacks EXCEPT ![o] = NoStack]
  PROVE  stacks' \in [Projects -> Stacks] /\ OwnPorts' /\ Busy' = Busy \ {o}
<1>1. stacks' \in [Projects -> Stacks]
  BY DEF ServerInv, Stacks, NoStack
<1>2. Busy' = Busy \ {o} /\ \A p \in Busy' : stacks'[p] = stacks[p]
  BY DEF Busy, ServerInv
<1> QED
  BY <1>1, <1>2 DEF OwnPorts, ServerInv

LEMMA ServerStep ==
  ASSUME ServerInv, StartServer \/ RNext
  PROVE  ServerInv'
<1> USE DEF Exit, Goto, At
<1>1. CASE StartServer
  <2>1. order' # NoOrder /\ order'.ref \in DOMAIN Refs
    BY <1>1 DEF StartServer, NoOrder
  <2>2. stacks' \in [Projects -> Stacks] /\ OwnPorts'
    BY <1>1 DEF StartServer, Stacks, NoStack, OwnPorts, Busy
  <2>3. ~over /\ repo = 0 /\ refused = 0
    BY <1>1 DEF StartServer, ServerInv, RLabels
  <2> QED
    BY <1>1, <2>1, <2>2, <2>3 DEF StartServer, ServerInv, ServerKnows, ServerTruth, RLabels
<1>2. CASE RNext
  <2> USE DEF RLabels
  <2>1. order # NoOrder /\ order.ref \in DOMAIN Refs /\ ServerKnows /\ order' = order /\ Project' = Project
    BY <1>2 DEF RNext, RMain, Daemon, ListProjects, DiscoverPort, ProbeOnce, Pull, Missing, ComposeUp, ReadyPoll, ComposeDown,
                Instances, Boots, Interferes, World, Asks, Provisions, ServerInv, Project
  <2>2. Project \in Projects
    BY <2>1, ProjectIs
  <2>3. ASSUME UNCHANGED stacks, repo' \in {repo, repo + 1}, pc' \in RLabels \cup {"exited"}, ServerKnows', ServerTruth'
        PROVE  ServerInv'
    BY <2>1, <2>3 DEF ServerInv, OwnPorts, Busy
  <2>4. CASE Daemon
    BY <2>1, <2>3, <2>4 DEF Daemon, Asks, Reply, ServerKnows, ServerTruth
  <2>5. CASE ListProjects
    BY <2>1, <2>2, <2>3, <2>5 DEF ListProjects, Fine, Fault, Reply, ServerKnows, ServerTruth, Repositories, Busy
  <2>6. CASE DiscoverPort
    <3>1. Project \in Busy <=> stacks[Project] # NoStack
      BY <2>2 DEF Busy
    <3>2. OwnPorts
      BY DEF ServerInv
    <3> QED
      BY <2>1, <2>3, <2>6, <3>1, <3>2 DEF DiscoverPort, Provisions, Reply, ServerKnows, ServerTruth, OwnPorts, Busy
  <2>7. CASE ProbeOnce \/ ReadyPoll
    <3>1. Answering => stacks[Project].port = port /\ stacks[Project].live
      BY <2>1, <2>7 DEF Answering, ServerKnows, ProbeOnce, ReadyPoll
    <3> QED
      BY <2>1, <2>3, <2>7, <3>1 DEF ProbeOnce, ReadyPoll, Provisions, Reply, ServerKnows, ServerTruth
  <2>8. CASE Pull
    <3>1. repo \in Nat /\ (refused = repo \/ misread) /\ Repositories \in {1, 2} /\ repo < Repositories /\ Repositories' = Repositories
      BY <2>1, <2>8 DEF Pull, Provisions, ServerInv, ServerKnows, Repositories
    <3>2. ServerTruth'
      BY <2>1, <2>8, <3>1 DEF Pull, Missing, Provisions, Reply, ServerKnows, ServerTruth
    <3>3. ServerKnows'
      BY <2>1, <2>8, <3>1 DEF Pull, Missing, Provisions, Reply, ServerKnows
    <3> QED
      BY <2>3, <2>8, <3>2, <3>3 DEF Pull, Missing, Provisions, Reply
  <2>9. CASE ComposeUp
    <3>1. over' => blind' \/ others'
      BY <2>1, <2>2, <2>9 DEF ComposeUp, Provisions, ServerKnows, Busy
    <3>2. CASE UNCHANGED stacks /\ pc' = "exited" /\ code' = 2 /\ reply'.state = "failed"
      <4>1. ServerTruth' /\ ServerKnows'
        BY <2>9, <3>1, <3>2 DEF ServerKnows, ServerTruth
      <4> QED
        BY <2>3, <2>9, <3>2, <4>1 DEF ComposeUp
    <3>3. ASSUME NEW q \in Free, port' = q, pc' = "r.poll" \/ (pc' = "exited" /\ code' = 2 /\ reply'.state = "failed"),
                 stacks' = [stacks EXCEPT ![Project] = [ref |-> order.ref, port |-> q, live |-> FALSE]]
          PROVE  ServerInv'
      <4>1. stacks' \in [Projects -> Stacks] /\ OwnPorts' /\ \A p \in Busy' \ {Project} : stacks'[p].port # q
        BY <2>1, <2>2, <3>3, StackStarts
      <4>2. ServerTruth' /\ ServerKnows'
        BY <2>1, <2>9, <3>1, <3>3, <4>1 DEF ServerKnows, ServerTruth
      <4> QED
        BY <2>1, <2>9, <3>3, <4>1, <4>2 DEF ComposeUp, ServerInv
    <3> QED
      BY <2>9, <3>2, <3>3 DEF ComposeUp, Reply
  <2>10. CASE ComposeDown
    <3>1. CASE UNCHANGED stacks /\ Reply("failed", 2)
      <4>1. ServerTruth' /\ ServerKnows'
        BY <2>1, <2>10, <3>1 DEF ComposeDown, Provisions, Reply, ServerKnows, ServerTruth
      <4> QED
        BY <2>3, <2>10, <3>1, <4>1 DEF ComposeDown, Reply
    <3>2. CASE stacks' = [stacks EXCEPT ![Project] = NoStack] /\ Reply("torn_down", 0)
      <4>1. stacks'[Project] = NoStack
        BY <2>2, <3>2 DEF ServerInv
      <4>2. ServerTruth' /\ ServerKnows'
        BY <2>1, <2>10, <3>2, <4>1 DEF ComposeDown, Provisions, Reply, ServerKnows, ServerTruth
      <4> QED
        BY <2>1, <2>2, <2>10, <3>2, <4>2, StackStops DEF ComposeDown, Provisions, Reply, ServerInv
    <3> QED
      BY <2>10, <3>1, <3>2 DEF ComposeDown
  <2>11. CASE Instances
    BY <2>1, <2>3, <2>11 DEF Instances, Provisions, Reply, ServerKnows, ServerTruth
  <2>12. CASE Boots
    <3>1. PICK o \in Busy : stacks' = [stacks EXCEPT ![o].live = TRUE]
      BY <2>12 DEF Boots
    <3>2. stacks' \in [Projects -> Stacks] /\ o \in Projects
      BY <3>1 DEF ServerInv, Stacks, Busy
    <3>3. \A p \in Projects : stacks'[p].port = stacks[p].port /\ (p \in Busy' => p \in Busy)
      BY <3>1, <3>2 DEF ServerInv, Stacks, Busy
    <3>4. OwnPorts'
      BY <3>3 DEF ServerInv, OwnPorts, Busy
    <3> QED
      BY <2>1, <2>12, <3>2, <3>3, <3>4 DEF Boots, World, ServerInv, ServerKnows, ServerTruth, Busy, Repositories
  <2>13. CASE Interferes
    <3>1. CASE stacks' = [stacks EXCEPT ![Project] = NoStack] /\ UNCHANGED others
      <4>1. stacks'[Project] = NoStack
        BY <2>2, <3>1 DEF ServerInv
      <4>2. \A p \in Busy' : p \in Busy /\ stacks'[p] = stacks[p]
        BY <2>2, <3>1, StackStops DEF ServerInv, Busy
      <4> QED
        BY <2>1, <2>2, <2>13, <3>1, <4>1, <4>2, StackStops
        DEF Interferes, World, ServerInv, ServerKnows, ServerTruth, Repositories
    <3>2. ASSUME NEW q \in Free, others' = (pc # "r.list"),
                 stacks' = [stacks EXCEPT ![Project] = [ref |-> order.ref, port |-> q, live |-> FALSE]]
          PROVE  ServerInv'
      <4>1. \A p \in Busy' \ {Project} : p \in Busy /\ stacks'[p] = stacks[p]
        BY <2>2, <3>2 DEF ServerInv, Busy
      <4>2. stacks' \in [Projects -> Stacks] /\ OwnPorts'
        BY <2>1, <2>2, <3>2, StackStarts
      <4>3. pc' = pc /\ pc # "exited" /\ pc \notin {"r.docker"} /\ (pc # "r.list" => others')
        BY <2>13, <3>2 DEF Interferes, World
      <4>4. ServerTruth' /\ ServerKnows'
        BY <2>1, <2>13, <4>1, <4>3 DEF Interferes, World, ServerKnows, ServerTruth, Repositories
      <4> QED
        BY <2>1, <2>13, <4>2, <4>3, <4>4 DEF Interferes, World, ServerInv
    <3> QED
      BY <2>13, <3>1, <3>2 DEF Interferes
  <2> QED
    BY <1>2, <2>4, <2>5, <2>6, <2>7, <2>8, <2>9, <2>10, <2>11, <2>12, <2>13 DEF RNext, RMain
<1> QED
  BY <1>1, <1>2

\* What server-provision, server-teardown and server-list say is so, for any references,
\* ports and faults, whatever other processes do (commands/rc_server.py).
THEOREM ServersAreAsTold == Spec => []ServerTruth
<1>1. Init => ServerInv
  <2> SUFFICES ASSUME Init PROVE ServerInv
    OBVIOUS
  <2>1. stacks \in [Projects -> Stacks] /\ Busy = {}
    BY DEF Init, RInit, Stacks, NoStack, Busy
  <2> QED
    BY <2>1 DEF Init, ProcessInit, RInit, ServerInv, ServerTruth, OwnPorts, RLabels
<1>2. ServerInv /\ [Next]_vars => ServerInv'
  <2> SUFFICES ASSUME ServerInv, [Next]_vars PROVE ServerInv'
    OBVIOUS
  <2>1. CASE StartServer \/ RNext
    BY <2>1, ServerStep
  <2>2. CASE UNCHANGED rVars /\ Elsewhere(RLabels)
    <3>1. order = NoOrder \/ UNCHANGED <<pc, code>>
      BY <2>2 DEF Elsewhere, ServerInv
    <3>2. CASE UNCHANGED <<pc, code>>
      BY <2>2, <3>2 DEF rVars, ServerInv, ServerKnows, ServerTruth, OwnPorts, Busy, Project, Repositories
    <3>3. CASE order = NoOrder /\ pc' \notin RLabels
      BY <2>2, <3>3 DEF rVars, ServerInv, ServerTruth, OwnPorts, Busy, NoOrder, NoReply
    <3> QED
      BY <2>2, <3>1, <3>2, <3>3 DEF Elsewhere
  <2>3. CASE UNCHANGED vars
    BY <2>3 DEF vars, process, rVars, ServerInv, ServerKnows, ServerTruth, OwnPorts, Busy, Project, Repositories
  <2> QED
    BY <2>1, <2>2, <2>3, Apart
<1>3. ServerInv => ServerTruth
  BY DEF ServerInv
<1> QED
  BY <1>1, <1>2, <1>3, PTL DEF Spec

-----------------------------------------------------------------------------
(* wait_ready, ssh-bootstrap, vm-hygiene, preflight, doctor *)

ConsoleLabels   == {"h.lock", "h.search", "h.admin", "h.uac", "h.elevated", "h.lines"}
BootstrapLabels == ConsoleLabels \cup {"h.probe", "h.post", "h.ping", "h.agent"}
\* which command stands where
ReadyAt ==
  /\ verb = "none" => /\ pc \notin HLabels /\ typed = {} /\ written = {} /\ broken = {} /\ line = 0
                      /\ ~dry /\ ~failed /\ ~uncounted
  /\ verb # "none" => pc \in HLabels \cup {"exited", "hung"}
  /\ pc = "h.wait" => verb = "wait"
  /\ pc \in BootstrapLabels => verb = "bootstrap"
  /\ pc \in ConsoleLabels => os = "windows"
  /\ pc = "h.items" => verb = "hygiene"
  /\ pc = "h.checks" => verb \in {"preflight", "doctor"}
  /\ pc = "h.dry" => dry
  /\ dry => pc \in {"h.dry", "exited"}
CheckNames == {"yaml", "ssh", "cookie", "tools", "binary", "symbol", "userdata", "disk", "stale", "shell", "proxmox",
               "vlm", "session", "asar", "dirs"}
\* what the items and the checks that are behind have shown
ItemsKnow  == line \in 0..4 /\ (~failed => \A k \in 1..line : settings[Order[k]])
ChecksKnow == ~failed => /\ checks \in Seq(CheckNames) /\ "stale" \notin broken
                         /\ broken \subseteq WarnsOf(verb) \cup ToSet(checks)
                         /\ verb = "preflight" => ~running \/ uncounted \/ started \/ "stale" \in ToSet(checks)
ReadyInv == /\ keys \in Nat /\ settings \in [Items -> BOOLEAN]
            /\ verb \notin {"preflight", "doctor"} => broken = {}
            /\ ReadyAt /\ ReadyIsReady
            /\ pc = "h.items" => ItemsKnow
            /\ pc = "h.checks" => ChecksKnow

LEMMA FirstAndRest ==
  ASSUME NEW S, NEW s \in Seq(S), s # <<>>
  PROVE  Tail(s) \in Seq(S) /\ ToSet(s) = {Head(s)} \cup ToSet(Tail(s))
BY HeadAndTail DEF ToSetB, ToSet

LEMMA ChecksAre == \A v, system : Checks(v, system) \in Seq(CheckNames)
<1> USE DEF CheckNames
<1>1. <<"yaml", "ssh", "cookie", "tools", "binary", "symbol", "userdata", "disk", "stale", "shell">> \in Seq(CheckNames)
  OBVIOUS
<1>2. <<"yaml", "ssh", "binary", "symbol", "disk", "stale", "shell">> \in Seq(CheckNames)
  OBVIOUS
<1>3. <<"proxmox", "vlm", "ssh", "session", "cookie", "tools", "binary", "asar", "dirs", "disk", "stale">>
        \in Seq(CheckNames)
  OBVIOUS
<1>4. <<"proxmox", "vlm">> \in Seq(CheckNames) /\ <<>> \in Seq(CheckNames)
  OBVIOUS
<1> HIDE DEF CheckNames
<1> QED
  BY <1>1, <1>2, <1>3, <1>4 DEF Checks

LEMMA ReadyStep ==
  ASSUME ReadyInv, StartReadiness \/ HNext
  PROVE  ReadyInv'
<1> USE DEF Exit, Goto, At
<1>1. CASE StartReadiness
  <2>1. verb = "none" /\ verb' \in {"wait", "bootstrap", "hygiene", "preflight", "doctor"} /\ os' \in {"linux", "windows"}
    BY <1>1 DEF StartReadiness, ReadyInv, ReadyAt, HLabels
  <2>2. keys' \in {0, 1} /\ settings' \in [Items -> BOOLEAN] /\ UNCHANGED <<typed, written, line, failed, uncounted>>
    BY <1>1 DEF StartReadiness, Given, AllGood
  <2>3. ReadyAt'
    BY <1>1, <2>1, <2>2 DEF StartReadiness, ReadyInv, ReadyAt, HLabels, BootstrapLabels, ConsoleLabels
  <2>4. checks' = Checks(verb', os')
        /\ broken' \in {{}} \union {{c} : c \in ToSet(checks') \ {"stale"}}
        /\ running' \in (IF "stale" \in ToSet(checks') THEN BOOLEAN ELSE {FALSE})
    BY <1>1 DEF StartReadiness
  <2>5. checks' \in Seq(CheckNames)
    BY <2>4, ChecksAre
  <2>6. verb' \notin {"preflight", "doctor"} => checks' = <<>>
    BY <2>1, <2>4 DEF Checks
  <2>7. verb' \notin {"preflight", "doctor"} => broken' = {}
    BY <2>4, <2>6 DEF ToSet
  <2>8. ChecksKnow'
    BY <2>4, <2>5 DEF ChecksKnow
  <2>9. pc' = "h.items" => ItemsKnow'
    BY <1>1, <2>1, <2>2 DEF StartReadiness, ReadyInv, ReadyAt, ItemsKnow
  <2>10. ReadyIsReady'
    BY <1>1, <2>1, <2>2 DEF StartReadiness, ReadyInv, ReadyAt, ReadyIsReady
  <2> QED
    BY <2>2, <2>3, <2>7, <2>8, <2>9, <2>10 DEF ReadyInv
<1>2. CASE DryRun
  BY <1>2 DEF DryRun, hVars, ReadyInv, ReadyAt, ReadyIsReady, HLabels, BootstrapLabels, ConsoleLabels
<1>3. CASE WaitReady \/ ProbeKeys \/ PostProbe \/ PingAgent
  BY <1>3 DEF WaitReady, ProbeKeys, PostProbe, PingAgent, Console, Vm, Reachable, Hangs, ReadyInv, ReadyAt, ReadyIsReady,
              HLabels, BootstrapLabels, ConsoleLabels
<1>4. CASE AgentKey
  BY <1>4 DEF AgentKey, Vm, Hangs, ReadyInv, ReadyAt, ReadyIsReady, HLabels, BootstrapLabels, ConsoleLabels
<1>5. CASE LockCheck \/ Search \/ RunAsAdmin \/ UacYes \/ Elevated \/ ConsoleMoves
  BY <1>5 DEF LockCheck, Search, RunAsAdmin, UacYes, Elevated, ConsoleMoves, Shows, Stops, Aborts, Console, Vm,
              ReadyInv, ReadyAt, ReadyIsReady, HLabels, BootstrapLabels, ConsoleLabels
<1>6. CASE TypeLine
  BY <1>6 DEF TypeLine, Stops, Aborts, Vm, ReadyInv, ReadyAt, ReadyIsReady, HLabels, BootstrapLabels, ConsoleLabels
<1>7. CASE SshBoots
  BY <1>7 DEF SshBoots, Vm, process, ReadyInv, ReadyAt, ReadyIsReady, HLabels, BootstrapLabels, ConsoleLabels
<1>8. CASE Item
  <2>1. pc = "h.items" /\ verb = "hygiene" /\ os' = os /\ ~dry /\ broken = {} /\ ItemsKnow
        /\ settings \in [Items -> BOOLEAN]
    BY <1>8 DEF Item, ReadyInv, ReadyAt
  <2>2. /\ UNCHANGED <<verb, os, dry, sshd, keys, typed, broken, running, uncounted, checks>>
    BY <1>8 DEF Item
  <2>3. CASE line = Len(Order)
    <3>1. line = 4
      BY <2>3 DEF Order
    <3>2. ~failed => settings = AllGood
      BY <2>1, <3>1 DEF ItemsKnow, Order, Items, AllGood
    <3> QED
      BY <1>8, <2>1, <2>2, <2>3, <3>2 DEF Item, ReadyInv, ReadyAt, ReadyIsReady, HLabels, BootstrapLabels, ConsoleLabels
  <2>4. CASE line # Len(Order)
    <3>1. line \in 0..3 /\ Order[line + 1] \in Items /\ line' = line + 1 /\ pc' = "h.items"
      BY <1>8, <2>1, <2>4 DEF Item, ItemsKnow, Order, Items
    <3>2. settings' \in [Items -> BOOLEAN] /\ \A k \in 1..line : settings[Order[k]] => settings'[Order[k]]
      <4>1. settings' = settings \/ settings' = [settings EXCEPT ![Order[line + 1]] = TRUE]
        BY <1>8, <2>4 DEF Item
      <4>2. \A k \in 1..line : Order[k] \in Items
        BY <3>1 DEF Order, Items
      <4> QED
        BY <2>1, <3>1, <4>1, <4>2
    <3>3. ~failed' => ~failed /\ settings'[Order[line + 1]]
      BY <1>8, <2>1, <2>4, <3>1 DEF Item
    <3>4. ItemsKnow'
      BY <2>1, <3>1, <3>2, <3>3 DEF ItemsKnow
    <3> QED
      BY <1>8, <2>1, <2>2, <3>1, <3>2, <3>4 DEF ReadyInv, ReadyAt, ReadyIsReady, HLabels, BootstrapLabels, ConsoleLabels
  <2> QED
    BY <2>3, <2>4
<1>9. CASE Inspect
  <2>1. pc = "h.checks" /\ verb \in {"preflight", "doctor"} /\ ~dry /\ ChecksKnow
    BY <1>9 DEF Inspect, ReadyInv, ReadyAt
  <2>2. UNCHANGED <<verb, os, dry, sshd, keys, typed, settings, written, broken>>
    BY <1>9 DEF Inspect
  <2>3. CASE checks = <<>>
    <3>1. ToSet(checks) = {}
      BY <2>3 DEF ToSet
    <3> QED
      BY <1>9, <2>1, <2>2, <2>3, <3>1
      DEF Inspect, ReadyInv, ReadyAt, ReadyIsReady, ChecksKnow, HLabels, BootstrapLabels, ConsoleLabels
  <2>4. CASE checks # <<>>
    <3> DEFINE c == Head(checks)
    <3>1. PICK lost \in BOOLEAN :
            /\ failed' = (failed \/ (Finding(c, lost) /\ c \notin WarnsOf(verb)))
            /\ ~(c \in {"ssh", "yaml"} /\ Finding(c, lost)) => checks' = Tail(checks)
            /\ running' \in CASE c = "userdata" -> {lost} [] c = "shell" -> BOOLEAN [] OTHER -> {running}
            /\ started' = (started \/ (c = "shell" /\ running'))
            /\ uncounted' = (uncounted \/ (c = "stale" /\ lost))
            /\ pc' = "h.checks"
      BY <1>9, <2>4 DEF Inspect
    <3>2. ASSUME ~failed'
          PROVE  ChecksKnow'
      <4>1. ~failed /\ (c \in WarnsOf(verb) \/ ~Finding(c, lost))
        BY <3>1, <3>2 DEF ChecksKnow, ReadyInv
      <4>2. c \notin {"ssh", "yaml"} \/ ~Finding(c, lost)
        BY <4>1 DEF WarnsOf
      <4>3. checks' \in Seq(CheckNames) /\ ToSet(checks) = {c} \cup ToSet(checks')
        BY <2>1, <2>4, <3>1, <4>1, <4>2, FirstAndRest DEF ChecksKnow
      <4>4. broken' \subseteq WarnsOf(verb) \cup ToSet(checks')
        BY <2>1, <2>2, <4>1, <4>3 DEF ChecksKnow, Finding
      <4>5. verb = "preflight" => ~running' \/ uncounted' \/ started' \/ "stale" \in ToSet(checks')
        BY <2>1, <3>1, <4>1, <4>3 DEF ChecksKnow, Finding, WarnsOf
      <4> QED
        BY <2>1, <2>2, <4>1, <4>3, <4>4, <4>5 DEF ChecksKnow
    <3>3. ChecksKnow'
      BY <3>2 DEF ChecksKnow
    <3> QED
      BY <2>1, <2>2, <3>1, <3>3 DEF ReadyInv, ReadyAt, ReadyIsReady, HLabels, BootstrapLabels, ConsoleLabels
  <2> QED
    BY <2>3, <2>4
<1> QED
  BY <1>1, <1>2, <1>3, <1>4, <1>5, <1>6, <1>7, <1>8, <1>9 DEF HNext, HMain

\* A command that says that the VM is ready is right, for any number of faults and of
\* probes (wait_ready, ssh-bootstrap, vm-hygiene, preflight, doctor).
THEOREM ReadyMeansReady == Spec => []ReadyIsReady
<1>1. Init => ReadyInv
  BY DEF Init, ProcessInit, HInit, AllGood, ReadyInv, ReadyAt, ReadyIsReady, HLabels, BootstrapLabels, ConsoleLabels
<1>2. ReadyInv /\ [Next]_vars => ReadyInv'
  <2> SUFFICES ASSUME ReadyInv, [Next]_vars PROVE ReadyInv'
    OBVIOUS
  <2>1. CASE StartReadiness \/ HNext
    BY <2>1, ReadyStep
  <2>2. CASE UNCHANGED <<hVars, pc, code>>
    BY <2>2 DEF hVars, ReadyInv, ReadyAt, ReadyIsReady, ItemsKnow, ChecksKnow
  <2>3. CASE UNCHANGED hVars /\ verb = "none" /\ pc' \notin HLabels
    BY <2>3 DEF hVars, ReadyInv, ReadyAt, ReadyIsReady, HLabels, BootstrapLabels, ConsoleLabels
  <2>4. UNCHANGED hVars /\ Elsewhere(HLabels) => UNCHANGED <<hVars, pc, code>> \/ (verb = "none" /\ pc' \notin HLabels)
    BY DEF Elsewhere, ReadyInv, ReadyAt
  <2>5. UNCHANGED vars => UNCHANGED <<hVars, pc, code>>
    BY DEF vars, process
  <2> QED
    BY <2>1, <2>2, <2>3, <2>4, <2>5, Apart
<1>3. ReadyInv => ReadyIsReady
  BY DEF ReadyInv
<1> QED
  BY <1>1, <1>2, <1>3, PTL DEF Spec

-----------------------------------------------------------------------------
(* the scenarios of mosdat functional *)

\* With --from-phase and --until-phase the steps that run are those of the phases asked
\* for, for any scenario whose phases the schema accepts (_resolve_phases in main.py).
THEOREM PhasesAreSliced == Spec => []PhaseSlice
<1>1. Init => PhaseInv
  BY DEF Init, ProcessInit, CInit, PhaseInv, PhaseSlice, Loaded, IsSequence, ToSet, CLabels
<1>2. PhaseInv /\ [Next]_vars => PhaseInv'
  <2> SUFFICES ASSUME PhaseInv, [Next]_vars PROVE PhaseInv'
    OBVIOUS
  <2>1. CASE StartLoad \/ CNext
    BY <2>1, PhaseStep
  <2>2. CASE UNCHANGED <<cVars, pc, code>>
    BY <2>2 DEF cVars, PhaseInv, PhaseSlice, Loaded, At, PhaseOf, IsSequence
  <2>3. CASE UNCHANGED cVars /\ scenario = NoScenario /\ pc' \notin CLabels
    BY <2>3 DEF cVars, PhaseInv, PhaseSlice, Loaded, IsSequence, NoScenario
  <2>4. UNCHANGED cVars /\ Elsewhere(CLabels) => UNCHANGED <<cVars, pc, code>> \/ (scenario = NoScenario /\ pc' \notin CLabels)
    BY DEF Elsewhere, PhaseInv
  <2>5. UNCHANGED vars => UNCHANGED <<cVars, pc, code>>
    BY DEF vars, process
  <2> QED
    BY <2>1, <2>2, <2>3, <2>4, <2>5, Apart
<1>3. PhaseInv => PhaseSlice
  BY DEF PhaseInv
<1> QED
  BY <1>1, <1>2, <1>3, PTL DEF Spec

\* A scenario that loads is what its files say: every import and call is replaced by its
\* items in place, in whatever order that is done - but where an import is left in what the
\* loader makes of a routine or a then block - and no text shows a template, for any files,
\* nesting and variables (_expand_imports of runners/scenario_loader.py, expand_call of routines/runner.py,
\* render_steps of runners/var_subst.py).
THEOREM ScenariosAreExpanded == Spec => []LoadedIsExpansion
<1>1. Init => LoadInv
  BY DEF Init, ProcessInit, CInit, LoadInv, LoadedIsExpansion, Loaded, At, CLabels
<1>2. LoadInv /\ [Next]_vars => LoadInv'
  <2> SUFFICES ASSUME LoadInv, [Next]_vars PROVE LoadInv'
    OBVIOUS
  <2>1. CASE StartLoad \/ CNext
    BY <2>1, LoadStep
  <2>2. CASE UNCHANGED <<cVars, pc, code>>
    <3>1. UNCHANGED <<scenario, cli, work, done, replaced, pc, code>>
      BY <2>2 DEF cVars
    <3>2. Stands' = Stands /\ Pieces' = Pieces /\ Meaning' = Meaning /\ Merged' = Merged /\ ImportLeft' = ImportLeft
      BY <3>1, SameMeaning DEF Pieces, ImportLeft
    <3>3. Untemplated' = Untemplated
      BY <3>1, <3>2 DEF Untemplated
    <3>4. LoadedIsExpansion' = LoadedIsExpansion
      BY <3>1, <3>2 DEF LoadedIsExpansion, Loaded, At
    <3>5. Walking(Pieces, Stands)' = Walking(Pieces, Stands)
      BY <3>1, <3>2 DEF Walking
    <3> QED
      BY <3>1, <3>2, <3>3, <3>4, <3>5 DEF LoadInv, NoCalls
  <2>3. CASE UNCHANGED cVars /\ scenario = NoScenario /\ pc' \notin CLabels /\ (pc' # "main" \/ pc = "main")
    <3>1. UNCHANGED <<scenario, done, replaced>>
      BY <2>3 DEF cVars
    <3> QED
      BY <2>3, <3>1 DEF LoadInv, LoadedIsExpansion, Loaded, CLabels
  <2>4. UNCHANGED cVars /\ Elsewhere(CLabels) =>
          \/ UNCHANGED <<cVars, pc, code>>
          \/ scenario = NoScenario /\ pc' \notin CLabels /\ pc' # "main"
    BY DEF Elsewhere, LoadInv
  <2>5. UNCHANGED vars => UNCHANGED <<cVars, pc, code>>
    BY DEF vars, process
  <2> QED
    BY <2>1, <2>2, <2>3, <2>4, <2>5, Apart
<1>3. LoadInv => LoadedIsExpansion
  BY DEF LoadInv
<1> QED
  BY <1>1, <1>2, <1>3, PTL DEF Spec

=============================================================================
