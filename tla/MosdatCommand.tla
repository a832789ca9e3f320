--------------------------- MODULE MosdatCommand ---------------------------
(***************************************************************************)
(* main (src/automation/main.py): one process, one command.  The handlers  *)
(* are the modules below.  They share the process - where its main thread  *)
(* stands, its exit code, and the bound on the faults it meets - and       *)
(* nothing else, so a step of one leaves the variables of the others       *)
(* alone.  ui, vlm and api stand for the commands and the MCP tools that   *)
(* use these clients directly.                                             *)
(***************************************************************************)
EXTENDS ScenarioLoader, FunctionalCommand, LiveEvents, UiDriver, VlmClient, ApiClient,
        BuildCommand, RcServer, VmReadiness

vars == <<process, cVars, fVars, lVars, uVars, vVars, pVars, bVars, rVars, hVars>>

Init == ProcessInit /\ CInit /\ FInit /\ LInit /\ UInit /\ VInit /\ PInit /\ BInit /\ RInit /\ HInit

\* a step of one handler
Load       == UNCHANGED <<fVars, lVars, uVars, vVars, pVars, bVars, rVars, hVars>>
Functional == UNCHANGED <<cVars, lVars, uVars, vVars, pVars, bVars, rVars, hVars>>
Live       == UNCHANGED <<cVars, fVars, uVars, vVars, pVars, bVars, rVars, hVars>>
Ui         == UNCHANGED <<cVars, fVars, lVars, vVars, pVars, bVars, rVars, hVars>>
Vlm        == UNCHANGED <<cVars, fVars, lVars, uVars, pVars, bVars, rVars, hVars>>
Api        == UNCHANGED <<cVars, fVars, lVars, uVars, vVars, bVars, rVars, hVars>>
BuildOnly  == UNCHANGED <<cVars, fVars, lVars, uVars, vVars, pVars, rVars, hVars>>
Server     == UNCHANGED <<cVars, fVars, lVars, uVars, vVars, pVars, bVars, hVars>>
Readiness  == UNCHANGED <<cVars, fVars, lVars, uVars, vVars, pVars, bVars, rVars>>

\* args.command and its handler; no command: the help; validate and list-vms
Dispatch ==
  \/ StartLoad /\ Load
  \/ StartFunctional /\ Functional
  \/ StartLive /\ Live
  \/ StartClick /\ Ui
  \/ StartVlm /\ Vlm
  \/ StartApi /\ Api
  \/ StartBuild /\ BuildOnly
  \/ StartServer /\ Server
  \/ StartReadiness /\ Readiness
  \/ At("main") /\ Exit(0) /\ UNCHANGED <<faults, cVars>> /\ Load
\* a configuration that cannot be loaded
BadConfig == At("main") /\ Fault /\ Raise /\ UNCHANGED cVars /\ Load

\* the handler goes on
MainThread == \/ FMain /\ Functional
              \/ CNext /\ Load
              \/ UMain /\ Ui
              \/ VMain /\ Vlm
              \/ PMain /\ Api
              \/ BMain /\ BuildOnly
              \/ RMain /\ Server
              \/ HMain /\ Readiness
\* the threads and processes that it waits for
Beside == \/ FThread /\ Functional
          \/ Works /\ Ui
Next == \/ Dispatch
        \/ BadConfig
        \/ CNext /\ Load
        \/ FNext /\ Functional
        \/ LNext /\ Live
        \/ UNext /\ Ui
        \/ VNext /\ Vlm
        \/ PNext /\ Api
        \/ BNext /\ BuildOnly
        \/ RNext /\ Server
        \/ HNext /\ Readiness

\* the operating system runs the threads of this process, and a call out of it that
\* has a timeout returns or raises; one that has none may leave it in "hung"
Fairness == WF_vars(MainThread \/ Beside)
Spec == Init /\ [][Next]_vars /\ Fairness

-----------------------------------------------------------------------------
(* Properties *)

\* A command that was begun ends, with an exit code, whatever answers late or not at
\* all; but the live dashboard, which runs until it is interrupted, and a command that
\* waits for an answer of Proxmox, or for ffmpeg, without a timeout.
Lasting == {"main", "exited", "l.serving", "hung"}
CommandEnds == []<>(pc \in Lasting)
=============================================================================
