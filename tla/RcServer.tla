------------------------------ MODULE RcServer ------------------------------
(***************************************************************************)
(* mosdat server-provision, server-teardown and server-list                *)
(* (commands/rc_server.py): a Rocket.Chat server per reference, as a       *)
(* Compose project of the Docker daemon on this host.  Other processes -   *)
(* the MCP server, a second command - use the same daemon.                 *)
(***************************************************************************)
EXTENDS Process

CONSTANTS Refs,      \* reference -> [project, pr]: its Compose project; is it one of a pull request?
          Ports      \* ephemeral ports

VARIABLES
  order,     \* what is asked: "provision", "teardown" or "list", and of which reference
  docker,    \* "up", "down", or "hung" (until Docker Desktop is quit)
  stacks,    \* project -> [ref, port, live], or NoStack
  listed,    \* projects that docker compose ls showed
  blind,     \* the listing failed (ghost)
  others,    \* another process has started this project since it was listed (ghost)
  repo,      \* repositories tried
  refused,   \* of them, those that do not have the image (ghost)
  misread,   \* a pull that failed for another reason was taken for a missing image (ghost)
  port,      \* in the URL
  over,      \* compose up found the project there already (ghost)
  reply      \* [state, ref or port]: the result

rVars == <<order, docker, stacks, listed, blind, others, repo, refused, misread, port, over, reply>>

NoStack  == [ref |-> "none", port |-> 0, live |-> FALSE]
NoOrder  == [verb |-> "none", ref |-> "none"]
NoReply  == [state |-> "none", url |-> 0]
Projects == {Refs[r].project : r \in DOMAIN Refs}
Project  == Refs[order.ref].project

RInit == /\ order = NoOrder /\ docker = "up" /\ stacks = [p \in Projects |-> NoStack] /\ listed = {} /\ blind = FALSE
         /\ others = FALSE /\ repo = 0 /\ refused = 0 /\ misread = FALSE /\ port = 0 /\ over = FALSE /\ reply = NoReply

\* a server of an earlier provision may be there; Docker may be down
StartServer ==
  /\ At("main") /\ Goto("r.docker")
  /\ \E verb \in {"provision", "teardown", "list"}, r \in DOMAIN Refs : order' = [verb |-> verb, ref |-> r]
  /\ docker' \in {"up", "down", "hung"}
  /\ \E r \in DOMAIN Refs \union {"none"} :
       stacks' = [p \in Projects |-> IF r # "none" /\ Refs[r].project = p THEN [ref |-> r, port |-> 1, live |-> FALSE] ELSE NoStack]
  /\ UNCHANGED <<faults, listed, blind, others, repo, refused, misread, port, over, reply>>

Busy == {p \in Projects : stacks[p] # NoStack}
Free == Ports \ {stacks[p].port : p \in Busy}
Reply(state, c) == reply' = [state |-> state, url |-> port'] /\ Exit(c)

-----------------------------------------------------------------------------
(* the daemon, the containers, the other processes *)

World == UNCHANGED <<pc, code, order, docker, listed, blind, repo, refused, misread, port, over, reply>>
Boots == /\ pc \in {"r.probe", "r.poll", "r.instances"} /\ \E p \in Busy : ~stacks[p].live /\ stacks' = [stacks EXCEPT ![p].live = TRUE]
         /\ UNCHANGED <<faults, others>> /\ World
\* a second process provisions this reference or tears it down; the container dies
Interferes == /\ pc \in {"r.list", "r.pull", "r.up", "r.port", "r.probe", "r.poll", "r.down"} /\ Fault /\ World
              /\ \/ /\ stacks[Project] = NoStack
                    /\ \E q \in Free : stacks' = [stacks EXCEPT ![Project] = [ref |-> order.ref, port |-> q, live |-> FALSE]]
                    /\ others' = (pc # "r.list")
                 \/ stacks[Project] # NoStack /\ stacks' = [stacks EXCEPT ![Project] = NoStack] /\ UNCHANGED others

-----------------------------------------------------------------------------
(* _docker_daemon_running, ensure_docker *)

Asks == UNCHANGED <<faults, order, stacks, others, over>>
Daemon ==
  /\ At("r.docker") /\ Asks /\ UNCHANGED <<listed, blind, repo, refused, misread, port>>
  /\ \/ docker = "up" /\ Goto("r.list") /\ UNCHANGED <<docker, reply>>
     \/ \* opened; quit and opened again.  It may not come up in time.
        docker # "up" /\ order.verb = "provision" /\ docker' = "up" /\ Goto("r.list") /\ UNCHANGED reply
     \/ docker # "up" /\ Reply("failed", 5) /\ UNCHANGED docker

\* _list_managed_projects: when the listing fails there is none
ListProjects ==
  /\ At("r.list") /\ UNCHANGED <<order, docker, stacks, others, repo, refused, misread, over>>
  /\ \/ Fine /\ listed' = Busy /\ UNCHANGED blind
     \/ Fault /\ listed' = {} /\ blind' = TRUE
  /\ port' = 0
  /\ CASE order.verb = "list" -> Goto("r.instances") /\ UNCHANGED reply
       [] order.verb = "teardown" -> IF Project \in listed' THEN Goto("r.down") /\ UNCHANGED reply ELSE Reply("absent", 0)
       [] OTHER -> Goto(IF Project \in listed' THEN "r.port" ELSE "r.pull") /\ UNCHANGED reply

-----------------------------------------------------------------------------
(* provision_server *)

Provisions == UNCHANGED <<order, docker, listed, blind>>
\* path B: the port that the project has, one probe, no compose up
DiscoverPort ==
  /\ At("r.port") /\ Fine /\ Provisions /\ UNCHANGED <<stacks, others, repo, refused, misread, over>>
  /\ IF stacks[Project] = NoStack THEN port' = 0 /\ Reply("failed", 2)
     ELSE port' = stacks[Project].port /\ Goto("r.probe") /\ UNCHANGED reply
\* a server answers at the port of the URL
Answering == \E p \in Busy : stacks[p].port = port /\ stacks[p].live
ProbeOnce ==
  /\ At("r.probe") /\ Fine /\ Provisions /\ UNCHANGED <<stacks, others, repo, refused, misread, port, over>>
  /\ Reply(IF Answering THEN "ready" ELSE "starting", 0)

\* path A: GHCR, and Docker Hub unless the reference is a pull request
Repositories == IF Refs[order.ref].pr THEN 1 ELSE 2
\* docker pull.  _is_no_image_error takes any text with "not found" in it for the answer
\* that there is no such image: another failure - a name, a helper that is not found - may
\* have it too.  Only after that answer the next repository is tried.
Missing == IF repo' < Repositories THEN Goto("r.pull") /\ UNCHANGED reply ELSE Reply("failed", 1)
\* mutant: no failure is told from a missing image, whatever its text
Pull_missing ==
  /\ At("r.pull") /\ Fine /\ Provisions /\ UNCHANGED <<stacks, others, port, over>> /\ repo' = repo + 1
  /\ \/ Goto("r.up") /\ UNCHANGED <<refused, misread, reply>>
     \/ UNCHANGED <<refused, misread>> /\ Missing
     \/ refused' = refused + 1 /\ UNCHANGED misread /\ Missing
     \/ UNCHANGED refused /\ misread' = TRUE /\ Missing

Pull ==
  /\ At("r.pull") /\ Fine /\ Provisions /\ UNCHANGED <<stacks, others, port, over>> /\ repo' = repo + 1
  /\ \/ Goto("r.up") /\ UNCHANGED <<refused, misread, reply>>
     \/ UNCHANGED <<refused, misread>> /\ Reply("failed", 2)
     \/ refused' = refused + 1 /\ UNCHANGED misread /\ Missing
     \/ UNCHANGED refused /\ misread' = TRUE /\ Missing
\* _pick_free_port; compose up, which makes the containers anew when the project is there
ComposeUp ==
  /\ At("r.up") /\ Provisions /\ UNCHANGED <<others, repo, refused, misread>>
  /\ \E q \in Free :
       /\ port' = q
       /\ \/ /\ Fine /\ stacks' = [stacks EXCEPT ![Project] = [ref |-> order.ref, port |-> q, live |-> FALSE]]
             /\ over' = (Project \in Busy) /\ Goto("r.poll") /\ UNCHANGED reply
          \/ \* the port is taken after all; it fails, perhaps with containers up
             /\ Fault /\ (UNCHANGED stacks \/ stacks' = [stacks EXCEPT ![Project] = [ref |-> order.ref, port |-> q, live |-> FALSE]])
             /\ over' = (Project \in Busy) /\ Reply("failed", 2)
\* every two seconds until the deadline; a container that runs is "starting" still
ReadyPoll ==
  /\ At("r.poll") /\ Fine /\ Provisions /\ UNCHANGED <<stacks, others, repo, refused, misread, port, over>>
  /\ \/ Answering /\ Reply("ready", 0)
     \/ ~Answering /\ IF stacks[Project] # NoStack THEN Reply("starting", 0) ELSE Reply("failed", 2)

-----------------------------------------------------------------------------
(* teardown_server, list_instances *)

ComposeDown ==
  /\ At("r.down") /\ Provisions /\ UNCHANGED <<others, repo, refused, misread, port, over>>
  /\ \/ Fine /\ stacks' = [stacks EXCEPT ![Project] = NoStack] /\ Reply("torn_down", 0)
     \/ Fault /\ UNCHANGED stacks /\ Reply("failed", 2)
Instances ==
  /\ At("r.instances") /\ Fine /\ Provisions /\ UNCHANGED <<stacks, others, repo, refused, misread, port, over>> /\ Reply("listed", 0)

RMain == Daemon \/ ListProjects \/ DiscoverPort \/ ProbeOnce \/ Pull \/ ComposeUp \/ ReadyPoll \/ ComposeDown \/ Instances
RNext == RMain \/ Boots \/ Interferes

-----------------------------------------------------------------------------
(* Properties *)

\* What the server commands say is so, with the exceptions named.  Exit 1 means that each
\* repository asked said it has no such image - or that a pull failed for another reason
\* with "not found" in its text, which the docstring of _pull_first_available ("an auth or
\* network error is never reported as a missing image") rules out and the code does not.
\* Ready means that the server of this reference's project answers at the URL.  Torn down
\* or absent means that it is not there, unless the listing failed.  And a server that was
\* there is not started over, unless the listing failed or another process started it
\* after the listing: the race that the docstring of the module says is avoided.
ServerTruth ==
  pc = "exited" =>
    /\ code = 1 /\ order.verb = "provision" => refused = Repositories \/ misread
    /\ reply.state = "ready" => stacks[Project].port = reply.url /\ stacks[Project].live
    /\ reply.state \in {"torn_down", "absent"} /\ ~blind => stacks[Project] = NoStack
    /\ over => blind \/ others
=============================================================================
