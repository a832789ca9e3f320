----------------------------- MODULE VmReadiness -----------------------------
(***************************************************************************)
(* What brings a VM into a state to be tested, and tells whether it is in  *)
(* one: wait_ready (commands/vm_lifecycle.py), ssh-bootstrap               *)
(* (ssh_bootstrap.py), vm-hygiene, preflight and doctor.                   *)
(***************************************************************************)
EXTENDS Process, SequencesExt

CONSTANT Waits     \* probes of wait_ready before its deadline

ASSUME ReadinessAssumption == Waits \in Nat \ {0}

VARIABLES
  verb,      \* the command
  os,        \* of the VM
  dry,
  sshd,      \* the VM answers SSH, for a key that is authorized
  keys,      \* times this host's key stands in authorized_keys
  console,   \* what the VNC console shows
  shot,      \* the screenshot in hand
  misled,    \* the console changed after the screenshot, or the model misread it (ghost)
  typed,     \* where something was typed (ghost)
  line,      \* of the commands that install the key; probes of wait_ready
  settings,  \* item of vm-hygiene -> is it as it should be?
  written,   \* items that were written (ghost)
  broken,    \* what is wrong with the VM, the scenario, the host
  running,   \* the app runs on the VM
  uncounted, \* the processes could not be counted (ghost)
  started,   \* a shell step of the scenario started the app, after they were counted (ghost)
  checks,    \* still to do
  failed     \* a check or an item failed

hVars == <<verb, os, dry, sshd, keys, console, shot, misled, typed, line, settings, written, broken, running, uncounted,
           started, checks, failed>>

Items == {"clock", "onedrive", "backup_nag", "news_widget"}
AllGood == [i \in Items |-> TRUE]
HInit == /\ verb = "none" /\ os = "linux" /\ dry = FALSE /\ sshd = TRUE /\ keys = 1 /\ console = "desktop" /\ shot = "none"
         /\ misled = FALSE /\ typed = {} /\ line = 0 /\ settings = AllGood /\ written = {} /\ broken = {}
         /\ running = FALSE /\ uncounted = FALSE /\ started = FALSE /\ checks = <<>> /\ failed = FALSE

\* the checks of preflight and of doctor, in their order
Checks(v, system) ==
  CASE v = "preflight" /\ system = "linux" ->
         <<"yaml", "ssh", "cookie", "tools", "binary", "symbol", "userdata", "disk", "stale", "shell">>
    [] v = "preflight" /\ system = "windows" -> <<"yaml", "ssh", "binary", "symbol", "disk", "stale", "shell">>
    [] v = "doctor" /\ system = "linux" ->
         <<"proxmox", "vlm", "ssh", "session", "cookie", "tools", "binary", "asar", "dirs", "disk", "stale">>
    [] v = "doctor" /\ system = "windows" -> <<"proxmox", "vlm">>
    [] OTHER -> <<>>
\* doctor warns of these, and exits with 0
WarnsOf(v) == IF v = "doctor" THEN {"session", "cookie", "asar", "dirs", "disk", "stale"} ELSE {}
Given == UNCHANGED <<faults, shot, misled, typed, line, written, uncounted, started, failed>>

StartReadiness ==
  /\ At("main") /\ Given
  /\ verb' \in {"wait", "bootstrap", "hygiene", "preflight", "doctor"} /\ os' \in {"linux", "windows"}
  /\ dry' \in IF verb' \in {"bootstrap", "hygiene"} THEN BOOLEAN ELSE {FALSE}
  /\ sshd' \in IF verb' \in {"wait", "bootstrap"} THEN BOOLEAN ELSE {TRUE}
  /\ keys' \in IF verb' = "bootstrap" THEN {0, 1} ELSE {1}
  /\ console' \in IF verb' = "bootstrap" /\ os' = "windows" THEN {"locked", "desktop"} ELSE {"desktop"}
  /\ settings' \in IF verb' = "hygiene" THEN [Items -> BOOLEAN] ELSE {AllGood}
  /\ LET todo == Checks(verb', os') IN
     /\ checks' = todo
     /\ broken' \in {{}} \union {{c} : c \in ToSet(todo) \ {"stale"}}
     /\ running' \in IF "stale" \in ToSet(todo) THEN BOOLEAN ELSE {FALSE}
  /\ CASE verb' = "wait"      -> Goto("h.wait")
       [] verb' = "bootstrap" -> Goto(IF dry' THEN "h.dry" ELSE "h.probe")
       [] verb' = "hygiene"   -> IF os' = "linux" THEN Exit(5) ELSE Goto(IF dry' THEN "h.dry" ELSE "h.items")
       [] OTHER               -> Goto("h.checks")
DryRun == At("h.dry") /\ Exit(0) /\ UNCHANGED <<faults, hVars>>

-----------------------------------------------------------------------------
(* wait_ready; _probe_ssh *)

Vm == UNCHANGED <<verb, os, dry, settings, written, broken, running, uncounted, started, checks, failed>>
SshBoots == /\ pc \in {"h.wait", "h.post"} /\ ~sshd /\ sshd' = TRUE
            /\ Vm /\ UNCHANGED <<process, keys, console, shot, misled, typed, line>>
Reachable  == sshd /\ keys > 0
\* mutant: there is no deadline
WaitReady_ever ==
  /\ At("h.wait") /\ Vm /\ UNCHANGED <<sshd, keys, console, shot, misled, typed, line>>
  /\ IF Reachable THEN Fine /\ Exit(0) ELSE Fine /\ Goto("h.wait")

WaitReady ==
  /\ At("h.wait") /\ Vm /\ UNCHANGED <<sshd, keys, console, shot, misled, typed>> /\ line' = line + 1
  /\ \/ Reachable /\ Fine /\ Exit(0)
     \/ (IF Reachable THEN Fault ELSE Fine) /\ IF line' < Waits THEN Goto("h.wait") ELSE Exit(1)

-----------------------------------------------------------------------------
(* ssh-bootstrap, Windows: the console *)

Console == UNCHANGED <<sshd, keys>> /\ Vm
ProbeKeys == /\ At("h.probe") /\ Fine /\ Console /\ UNCHANGED <<console, shot, misled, typed, line>>
         /\ IF Reachable THEN Exit(0) ELSE Goto(IF os = "windows" THEN "h.lock" ELSE "h.ping")
\* the screen locks, or something comes up over it
ConsoleMoves == /\ pc \in {"h.lock", "h.search", "h.admin", "h.uac", "h.elevated", "h.lines"} /\ Fault
                /\ console' \in {"locked", "other"} \ {console} /\ misled' = TRUE
                /\ UNCHANGED <<pc, code, shot, typed, line>> /\ Console
\* a screenshot is taken and the model asked whether it shows s: it says so, or misreads it
Shows(s, yes, no) == /\ shot' = console
                     /\ \/ Fine /\ UNCHANGED misled /\ IF console = s THEN yes ELSE no
                        \/ Fault /\ misled' = TRUE /\ IF console = s THEN no ELSE yes
Stops(c) == Exit(c) /\ UNCHANGED <<console, typed, line>>
Aborts   == Fault /\ Stops(2) /\ UNCHANGED <<shot, misled>>       \* VNC or the model fails

\* mutant: the screen is not looked at first
LockCheck_skipped == /\ At("h.lock") /\ Console /\ Fine /\ Goto("h.search")
                     /\ UNCHANGED <<console, shot, misled, typed, line>>

LockCheck == /\ At("h.lock") /\ Console
             /\ \/ Shows("locked", Stops(2), Goto("h.search") /\ UNCHANGED <<console, typed, line>>)
                \/ Aborts
\* the search box is clicked on that screenshot, and a name typed
Search  == /\ At("h.search") /\ Console
           /\ \/ /\ Fine /\ Goto("h.admin") /\ typed' = typed \union {console} /\ UNCHANGED <<shot, misled, line>>
                 /\ console' = IF console = "desktop" THEN "results" ELSE console
              \/ Aborts
RunAsAdmin == /\ At("h.admin") /\ Console
              /\ \/ /\ Shows("results", /\ console' \in {IF console = "results" THEN s ELSE console : s \in {"uac", "elevated"}}
                                        /\ Goto("h.uac") /\ UNCHANGED <<typed, line>>,
                                        Stops(2))
                 \/ Aborts
UacYes  == /\ At("h.uac") /\ Console
           /\ \/ Shows("uac", /\ console' = (IF console = "uac" THEN "elevated" ELSE console)
                              /\ Goto("h.elevated") /\ UNCHANGED <<typed, line>>,
                       Goto("h.elevated") /\ UNCHANGED <<console, typed, line>>)
              \/ Aborts
Elevated == /\ At("h.elevated") /\ Console
            /\ \/ Shows("elevated", Goto("h.lines") /\ UNCHANGED <<console, typed, line>>, Stops(2))
               \/ Aborts
\* five lines: the third and the fourth add the key to a file, the fifth sets the access
\* rights without which it is not accepted
InstallLines == 5
TypeLine == /\ At("h.lines") /\ Vm /\ UNCHANGED <<sshd, console>>
            /\ \/ /\ Fine /\ typed' = typed \union {console} /\ line' = line + 1 /\ UNCHANGED <<shot, misled>>
                  /\ keys' = IF line' = InstallLines /\ console = "elevated" /\ typed' \subseteq {"desktop", "elevated"} THEN keys + 1 ELSE keys
                  /\ Goto(IF line' = InstallLines THEN "h.post" ELSE "h.lines")
               \/ Aborts /\ UNCHANGED keys
\* and at the end, three more probes
PostProbe    == /\ At("h.post") /\ Fine /\ Console /\ UNCHANGED <<console, shot, misled, typed, line>>
           /\ Exit(IF Reachable THEN 0 ELSE 1)

(* ssh-bootstrap, Linux: the guest agent, over the Proxmox API, appends the key, unless it is there *)
PingAgent == /\ At("h.ping") /\ Console /\ UNCHANGED <<console, shot, misled, typed, line>>
             /\ \/ Fine /\ Goto("h.agent")
                \/ Fault /\ Exit(2)
                \/ Hangs
AgentKey  == /\ At("h.agent") /\ Vm /\ UNCHANGED <<sshd, console, shot, misled, typed, line>>
             /\ \/ Fine /\ keys' = (IF keys > 0 THEN keys ELSE 1) /\ Goto("h.post")
                \/ keys' \in {keys, IF keys > 0 THEN keys ELSE 1} /\ ((Fault /\ Exit(2)) \/ Hangs)

-----------------------------------------------------------------------------
(* vm-hygiene: each item is read, and written when it is not as it should be *)

Order == <<"clock", "onedrive", "backup_nag", "news_widget">>
Item == /\ At("h.items")
        /\ UNCHANGED <<verb, os, dry, sshd, keys, console, shot, misled, typed, broken, running, uncounted, started, checks>>
        /\ IF line = Len(Order) THEN Exit(IF failed THEN 2 ELSE 0) /\ Fine /\ UNCHANGED <<line, settings, written, failed>>
           ELSE LET i == Order[line + 1] IN
                /\ line' = line + 1 /\ Goto("h.items")
                /\ \/ settings[i] /\ Fine /\ UNCHANGED <<settings, written, failed>>
                   \/ ~settings[i] /\ Fine /\ settings' = [settings EXCEPT ![i] = TRUE] /\ written' = written \union {i} /\ UNCHANGED failed
                   \/ Fault /\ failed' = TRUE /\ UNCHANGED <<settings, written>>

-----------------------------------------------------------------------------
(* preflight, doctor *)

\* mutant: a check whose command fails is passed
Finding_seen(c, lost) == ~lost /\ IF c = "stale" THEN running ELSE c \in broken

\* a command over SSH that fails shows nothing: the check fails, but for the processes,
\* of which none is seen then.  The check of the user data kills the app, wipes its
\* directories, launches it, and kills it again.  The last "check" runs the first three
\* shell steps of the scenario, as they are: they may start the app, or stop it.
Finding(c, lost) == IF c = "stale" THEN running /\ ~lost ELSE lost \/ c \in broken
Inspect ==
  /\ At("h.checks") /\ UNCHANGED <<verb, os, dry, sshd, keys, console, shot, misled, typed, line, settings, written, broken>>
  /\ IF checks = <<>> THEN Exit(IF failed THEN 1 ELSE 0) /\ Fine /\ UNCHANGED <<running, uncounted, started, checks, failed>>
     ELSE LET c == Head(checks) IN
          \E lost \in BOOLEAN :
            /\ IF lost THEN Fault ELSE Fine
            /\ failed' = (failed \/ (Finding(c, lost) /\ c \notin WarnsOf(verb)))
            /\ checks' = IF c = "ssh" /\ Finding(c, lost) THEN <<>>        \* the others are skipped
                         ELSE IF c = "yaml" /\ Finding(c, lost) THEN SelectSeq(Tail(checks), LAMBDA x : x # "shell")
                         ELSE Tail(checks)
            /\ running' \in CASE c = "userdata" -> {lost} [] c = "shell" -> BOOLEAN [] OTHER -> {running}
            /\ started' = (started \/ (c = "shell" /\ running'))
            /\ uncounted' = (uncounted \/ (c = "stale" /\ lost))
            /\ Goto("h.checks")

HMain == \/ DryRun \/ WaitReady \/ ProbeKeys \/ LockCheck \/ Search \/ RunAsAdmin \/ UacYes \/ Elevated \/ TypeLine \/ PostProbe
         \/ PingAgent \/ AgentKey \/ Item \/ Inspect
HNext == HMain \/ SshBoots \/ ConsoleMoves

-----------------------------------------------------------------------------
(* Properties *)

\* ssh-bootstrap types only into the desktop's search box and into an elevated shell -
\* never at a lock screen - unless the console changed under it or the model misread it.
TypedToElevated == misled \/ typed \subseteq {"desktop", "elevated"}

\* A command that says the VM is ready is right.  After ssh-bootstrap and wait_ready SSH
\* lets this host in (and the agent has not added its key to a Linux VM twice); after vm-hygiene every item is as it should be, and
\* only what was not is written; after preflight and doctor no check that counts was
\* broken, and after preflight no app is left running, unless it could not be counted or
\* a shell step that preflight runs after counting started it.  A dry run changes nothing.
ReadyIsReady ==
  /\ pc = "exited" /\ code = 0 /\ ~dry =>
       /\ verb \in {"wait", "bootstrap"} => sshd /\ keys > 0
       /\ verb = "hygiene" => settings = AllGood
       /\ broken \subseteq WarnsOf(verb)
       /\ verb = "preflight" => ~running \/ uncounted \/ started
  /\ os = "linux" => keys <= 1
  /\ dry => typed = {} /\ written = {}
=============================================================================
