----------------------------- MODULE ApiClient -----------------------------
(***************************************************************************)
(* ProxmoxAPI (proxmox/api.py): the session with its ticket, _request with *)
(* its retries of GET, and agent_exec, which starts a process in the guest *)
(* and polls for its end.  A request may be lost on the way, or be         *)
(* executed and have its answer lost; no request has a timeout, so one     *)
(* without any answer is waited for without end.  The ticket grows old.    *)
(***************************************************************************)
EXTENDS Process

CONSTANT Polls     \* bound on the polls that agent_exec makes before its deadline

ASSUME ApiAssumption == Polls \in Nat \ {0}

VARIABLES
  ticket,    \* "none", "good", or "old" (the server no longer takes it)
  request,   \* [method, for] that _request works at
  attempts,  \* made for it
  sent,      \* times the server executed it (ghost)
  answer,    \* what _request came to: "none", "ok", "error" (the server), "lost" (the network)
  goal,      \* the method of ProxmoxAPI that was called
  guest,     \* the process in the guest: "none", "runs", "exited", "reaped"
  polls,     \* exec-status requests of agent_exec
  outcome    \* what the method returned

pVars == <<ticket, request, attempts, sent, answer, goal, guest, polls, outcome>>

NoRequest == [method |-> "none", for |-> "none"]
PInit == /\ ticket = "none" /\ request = NoRequest /\ attempts = 0 /\ sent = 0 /\ answer = "none"
         /\ goal = "none" /\ guest = "none" /\ polls = 0 /\ outcome = "none"

Get(for)  == [method |-> "GET", for |-> for]
Post(for) == [method |-> "POST", for |-> for]
Issue(r)  == request' = r /\ attempts' = 0 /\ sent' = 0 /\ answer' = "none" /\ Goto("p.request")

\* start_vm, set_vm_config, ... are one POST or PUT; get_vm_status, wait_for_status,
\* wait_for_ip, ... are GETs; agent_ping asks with a POST
StartApi == /\ At("main")
            /\ \E g \in {"read", "write", "agent_ping", "agent_exec"} :
                 /\ goal' = g
                 /\ Issue(CASE g = "read" -> Get("state") [] g = "agent_exec" -> Post("exec") [] OTHER -> Post("change"))
            /\ UNCHANGED <<faults, ticket, guest, polls, outcome>>

-----------------------------------------------------------------------------
(* _ensure_auth, _request *)

Wire == UNCHANGED <<request, goal, polls, outcome>>
Authenticate == /\ At("p.request") /\ ticket = "none"
                /\ \/ Fine /\ ticket' = "good" /\ Goto("p.request") /\ UNCHANGED answer
                   \/ Fault /\ answer' \in {"error", "lost"} /\ Goto("p.done") /\ UNCHANGED ticket
                   \/ Hangs /\ UNCHANGED <<ticket, answer>>
                /\ Wire /\ UNCHANGED <<attempts, sent, guest>>
\* a ticket is good for two hours, and is never renewed
TicketAges   == /\ pc \notin {"main", "exited"} /\ ticket = "good" /\ Fault /\ ticket' = "old"
                /\ UNCHANGED <<pc, code, attempts, sent, answer, guest>> /\ Wire

Idempotent  == request.method = "GET"
\* mutant: every request is tried again
MaxAttempts_always == 3

MaxAttempts == IF Idempotent THEN 3 ELSE 1
\* the server executes the request: starting the process, and telling its end once
Executes == /\ sent' = sent + 1
            /\ guest' = CASE request.for = "exec" -> "runs"
                          [] request.for = "exec-status" /\ guest = "exited" -> "reaped"
                          [] OTHER -> guest
Refuses  == \/ ticket = "old"
            \/ request.for = "exec-status" /\ guest = "reaped"
Attempt  == /\ At("p.request") /\ ticket # "none" /\ attempts < MaxAttempts /\ attempts' = attempts + 1
            /\ UNCHANGED ticket /\ Wire
            /\ \/ \* 4xx, or a 5xx that stays one: the last error is raised in the end
                  /\ Refuses /\ Fine /\ UNCHANGED <<sent, guest>>
                  /\ IF ticket # "old" /\ attempts' < MaxAttempts THEN Goto("p.request") /\ UNCHANGED answer
                     ELSE Goto("p.done") /\ answer' = "error"
               \/ ~Refuses /\ Fine /\ Executes /\ Goto("p.done")
                  /\ answer' = IF request.for = "exec-status" /\ guest = "exited" THEN "exited" ELSE "ok"
               \/ \* 5xx, a broken connection, or no answer at all: with or without its effect
                  /\ UNCHANGED <<sent, guest>> \/ (~Refuses /\ Executes)
                  /\ \/ Fault /\ attempts' < MaxAttempts /\ Goto("p.request") /\ UNCHANGED answer
                     \/ \* no attempt left, no time for one, or a certificate refused
                        Fault /\ Goto("p.done") /\ answer' \in {"error", "lost"}
                     \/ Hangs /\ UNCHANGED answer

-----------------------------------------------------------------------------
(* the methods *)

Returned(o) == outcome' = o /\ Exit(IF o = "raised" THEN 1 ELSE 0)
               /\ UNCHANGED <<request, attempts, sent, answer, polls>>
Done ==
  /\ At("p.done") /\ UNCHANGED <<faults, ticket, goal, guest>>
  /\ CASE goal \in {"read", "write"} ->
            Returned(IF answer = "ok" THEN "ok" ELSE "raised")
       [] goal = "agent_ping" ->                                \* only an answer of the server is a no
            Returned(CASE answer = "ok" -> "true" [] answer = "error" -> "false" [] OTHER -> "raised")
       [] goal = "agent_exec" /\ request.for = "exec" ->
            IF answer = "ok" THEN polls' = 1 /\ Issue(Get("exec-status")) /\ UNCHANGED outcome
            ELSE Returned("raised")
       [] OTHER ->                                              \* agent_exec, which polls
            CASE answer = "exited" -> Returned("exited")
              [] answer = "ok" -> \/ /\ polls < Polls /\ polls' = polls + 1
                                     /\ Issue(Get("exec-status")) /\ UNCHANGED outcome
                                  \/ Returned("running")        \* the deadline
              [] OTHER -> Returned("raised")

GuestExits == /\ pc # "exited" /\ guest = "runs" /\ guest' = "exited"
              /\ UNCHANGED <<process, ticket, request, attempts, sent, answer, goal, polls, outcome>>

PMain == Authenticate \/ Attempt \/ Done
PNext == PMain \/ TicketAges \/ GuestExits

-----------------------------------------------------------------------------
(* Properties *)

\* A request that changes something is executed by the server once at most, whatever
\* is lost; a method that returns has had its request executed, and agent_exec says
\* that the process has exited only when it has.
WritesOnce == /\ request.method = "POST" => sent <= 1
              /\ outcome \in {"ok", "true"} => sent >= 1
              /\ outcome = "exited" => guest = "reaped"
=============================================================================
