---------------------------- MODULE ClientProofs ----------------------------
(***************************************************************************)
(* The invariants of the clients of a mosdat process, and that their own   *)
(* steps keep them: of the Proxmox API (ApiClient), of the workers on a VM *)
(* (UiDriver), of the vision model (VlmClient), and of the live dashboard  *)
(* (LiveEvents), whose browsers are clients too.  That the other commands  *)
(* keep them as well is in MosdatCommandProofs.                            *)
(***************************************************************************)
EXTENDS ApiClient, UiDriver, VlmClient, LiveEvents, FunctionalCommandProofs

(* a request is executed once *)

\* the server executes no more than the attempts that were made, and those are limited
CountInv  == /\ sent \in Nat /\ attempts \in Nat
             /\ sent <= attempts /\ attempts <= MaxAttempts
\* an answer was given for an execution; while _request works there is none
AnswerInv == /\ At("p.request") => answer = "none"
             /\ answer \in {"ok", "exited"} => sent >= 1
             /\ answer = "exited" => guest = "reaped"
\* a method that has returned issues no request any more
ReturnInv == /\ outcome # "none" => At("exited")
             /\ outcome \in {"ok", "true"} => sent >= 1
             /\ outcome = "exited" => guest = "reaped"
OnceInv == CountInv /\ AnswerInv /\ ReturnInv

LEMMA OnceInit == ProcessInit /\ PInit => OnceInv
  BY DEF ProcessInit, PInit, NoRequest, OnceInv, CountInv, AnswerInv, ReturnInv, At, MaxAttempts, Idempotent

LEMMA OnceImplies == OnceInv => WritesOnce
<1> SUFFICES ASSUME OnceInv PROVE WritesOnce
  OBVIOUS
<1>1. request.method = "POST" => sent <= 1
  BY DEF OnceInv, CountInv, MaxAttempts, Idempotent
<1> QED
  BY <1>1 DEF OnceInv, ReturnInv, WritesOnce

\* Issue begins to count anew
LEMMA OnceIssue ==
  ASSUME NEW r, Issue(r), outcome = "none", UNCHANGED outcome
  PROVE  OnceInv'
BY DEF Issue, Goto, OnceInv, CountInv, AnswerInv, ReturnInv, At, MaxAttempts, Idempotent

LEMMA OnceAttempt ==
  ASSUME OnceInv, Attempt
  PROVE  OnceInv'
<1>1. /\ answer = "none" /\ outcome = "none" /\ UNCHANGED <<request, outcome>>
      /\ attempts \in Nat /\ sent \in Nat /\ sent <= attempts
      /\ attempts < MaxAttempts /\ attempts' = attempts + 1
  BY DEF Attempt, Wire, At, OnceInv, CountInv, AnswerInv, ReturnInv
<1>2. sent' = sent \/ sent' = sent + 1
  BY DEF Attempt, Executes
<1>3. CountInv'
  BY <1>1, <1>2 DEF CountInv, MaxAttempts, Idempotent
<1>4. AnswerInv'
  <2>1. CASE Refuses /\ Fine /\ UNCHANGED <<sent, guest>> /\ answer' \in {"none", "error"}
    BY <1>1, <2>1 DEF AnswerInv, At, Attempt, Goto
  <2> QED
    BY <1>1, <2>1 DEF AnswerInv, At, Attempt, Goto, Executes
<1>5. ReturnInv'
  BY <1>1 DEF ReturnInv
<1> QED
  BY <1>3, <1>4, <1>5 DEF OnceInv

LEMMA OnceDone ==
  ASSUME OnceInv, Done
  PROVE  OnceInv'
<1>1. outcome = "none" /\ UNCHANGED guest
  BY DEF OnceInv, ReturnInv, Done, At
<1>2. ASSUME NEW r, Issue(r), UNCHANGED outcome
      PROVE  OnceInv'
  BY <1>1, <1>2, OnceIssue
<1>3. ASSUME NEW o, Returned(o), o \in {"ok", "true"} => answer = "ok", o = "exited" => answer = "exited"
      PROVE  OnceInv'
  BY <1>1, <1>3 DEF Returned, Exit, OnceInv, CountInv, AnswerInv, ReturnInv, At, MaxAttempts, Idempotent
<1>4. CASE goal \in {"read", "write"}
  BY <1>3, <1>4 DEF Done
<1>5. CASE goal = "agent_ping"
  BY <1>3, <1>5 DEF Done
<1>6. CASE goal = "agent_exec" /\ request.for = "exec"
  BY <1>2, <1>3, <1>6 DEF Done
<1>7. CASE goal \notin {"read", "write", "agent_ping"} /\ ~(goal = "agent_exec" /\ request.for = "exec")
  BY <1>2, <1>3, <1>7 DEF Done
<1> QED
  BY <1>4, <1>5, <1>6, <1>7

LEMMA OnceStep == OnceInv /\ (StartApi \/ PNext) => OnceInv'
<1> SUFFICES ASSUME OnceInv, StartApi \/ PNext PROVE OnceInv'
  OBVIOUS
<1>1. CASE StartApi
  <2>1. outcome = "none"
    BY <1>1 DEF StartApi, OnceInv, ReturnInv, At
  <2>2. PICK g \in {"read", "write", "agent_ping", "agent_exec"} :
          /\ goal' = g
          /\ Issue(CASE g = "read" -> Get("state") [] g = "agent_exec" -> Post("exec") [] OTHER -> Post("change"))
    BY <1>1 DEF StartApi
  <2> QED
    BY <1>1, <2>1, <2>2, OnceIssue DEF StartApi, Post
<1>2. CASE Authenticate
  BY <1>2 DEF Authenticate, Wire, Goto, Fine, OnceInv, CountInv, AnswerInv, ReturnInv, At, MaxAttempts, Idempotent
<1>3. CASE Attempt
  BY <1>3, OnceAttempt
<1>4. CASE Done
  BY <1>4, OnceDone
<1>5. CASE TicketAges
  BY <1>5 DEF TicketAges, Wire, OnceInv, CountInv, AnswerInv, ReturnInv, At, MaxAttempts, Idempotent
<1>6. CASE GuestExits
  BY <1>6 DEF GuestExits, process, OnceInv, CountInv, AnswerInv, ReturnInv, At, MaxAttempts, Idempotent
<1> QED
  BY <1>1, <1>2, <1>3, <1>4, <1>5, <1>6 DEF PNext, PMain

\* a step of another command neither is, nor goes, where the client works
LEMMA OnceAside ==
  ASSUME OnceInv, UNCHANGED pVars,
         UNCHANGED pc \/ (pc # "exited" /\ pc' \notin {"p.request", "p.done"})
  PROVE  OnceInv'
BY DEF pVars, OnceInv, CountInv, AnswerInv, ReturnInv, At, MaxAttempts, Idempotent
-----------------------------------------------------------------------------
(* the operations of a call are begun once *)

Kinds     == {"find", "find_all", "check", "click", "act"}
OpsLeft   == {<<>>, <<"find">>, <<"find_all">>, <<"move", "at">>, <<"at">>, <<"click">>, <<"find", "do">>,
              <<"find", "move", "do">>, <<"move", "do">>, <<"do">>}
JobFields == {"call", "ops", "arg", "found", "all", "at", "done", "new"}

JobsKnown ==
  /\ call \in Nat /\ begun \subseteq 0..call
  /\ IsSequence(jobs)
  /\ \A i \in DOMAIN jobs : DOMAIN jobs[i] = JobFields /\ jobs[i].ops \in OpsLeft /\ jobs[i].call \in 0..call
  /\ pc \in {"u.send", "u.wait"} => batch.kind \in Kinds
\* nothing of a call that is about to be sent is on its way; two commands for one call
\* are there only after status 255
SentOnce ==
  /\ pc = "u.send" => call \notin begun /\ \A i \in DOMAIN jobs : jobs[i].call # call
  /\ \A i, k \in DOMAIN jobs : jobs[i].call = jobs[k].call => i = k \/ jobs[i].call \in cut
  /\ \A i \in DOMAIN jobs : jobs[i].new /\ jobs[i].call \in begun => jobs[i].call \in cut
BegunInv == JobsKnown /\ SentOnce /\ OncePerCall

LEMMA OpsTails ==
  ASSUME NEW o \in OpsLeft \ {<<>>}
  PROVE  /\ Tail(o) \in OpsLeft
         /\ Head(o) \in {"find", "find_all", "at", "move", "click", "do"}
         /\ Head(o) = "click" => o = <<"click">>
<1>1. CASE o \in {<<"find">>, <<"find_all">>, <<"at">>, <<"click">>, <<"do">>}
  <2>1. ASSUME NEW x, o = <<x>> PROVE Tail(o) = <<>> /\ Head(o) = x
    BY <2>1
  <2> QED
    BY <1>1, <2>1 DEF OpsLeft
<1>2. CASE o \in {<<"move", "at">>, <<"find", "do">>, <<"move", "do">>}
  <2>1. ASSUME NEW x, NEW y, o = <<x, y>> PROVE Tail(o) = <<y>> /\ Head(o) = x
    BY <2>1
  <2> QED
    BY <1>2, <2>1 DEF OpsLeft
<1>3. CASE o = <<"find", "move", "do">>
  <2>1. Tail(o) = <<"move", "do">> /\ Head(o) = "find"
    BY <1>3
  <2> QED
    BY <1>3, <2>1 DEF OpsLeft
<1> QED
  BY <1>1, <1>2, <1>3 DEF OpsLeft

LEMMA Operated ==
  ASSUME NEW b, NEW j, DOMAIN j = JobFields, j.ops \in OpsLeft \ {<<>>}
  PROVE  LET k == Operate(b, j).job
         IN  DOMAIN k = JobFields /\ k.ops = Tail(j.ops) /\ k.call = j.call /\ k.new = FALSE /\ k.arg = j.arg
<1> DEFINE k == [j EXCEPT !.ops = Tail(@), !.new = FALSE]
<1>1. DOMAIN k = JobFields /\ k.ops = Tail(j.ops) /\ k.call = j.call /\ k.new = FALSE /\ k.arg = j.arg
  BY DEF JobFields
<1> HIDE DEF k
<1>2. \/ Operate(b, j).job = k
      \/ Operate(b, j).job = [k EXCEPT !.done = TRUE]
      \/ \E x : Operate(b, j).job \in {[k EXCEPT !.found = x], [k EXCEPT !.all = x], [k EXCEPT !.at = x]}
  <2>1. CASE Head(j.ops) = "find"
    BY <2>1 DEF Operate, k
  <2>2. CASE Head(j.ops) = "find_all"
    BY <2>2 DEF Operate, k
  <2>3. CASE Head(j.ops) = "at"
    BY <2>3 DEF Operate, k
  <2>4. CASE Head(j.ops) = "move"
    BY <2>4 DEF Operate, k
  <2>5. CASE Head(j.ops) = "click"
    BY <2>5 DEF Operate, k
  <2>6. CASE Head(j.ops) = "do"
    BY <2>6 DEF Operate, k, _op_do_action
  <2> QED
    BY <2>1, <2>2, <2>3, <2>4, <2>5, <2>6, OpsTails
<1> QED
  BY <1>1, <1>2 DEF JobFields

LEMMA BegunAside ==
  ASSUME BegunInv, UNCHANGED uVars, UNCHANGED pc \/ pc' \notin {"u.send", "u.wait"}
  PROVE  BegunInv'
<1>1. UNCHANGED <<call, begun, twice, cut, jobs, batch>>
  BY DEF uVars, client, vm_ui
<1> QED
  BY <1>1 DEF BegunInv, JobsKnown, SentOnce, OncePerCall

\* the jobs that are left, or some of them
Fewer == /\ IsSequence(jobs')
         /\ \E f \in [DOMAIN jobs' -> DOMAIN jobs] :
              /\ \A i, k \in DOMAIN jobs' : f[i] = f[k] => i = k
              /\ \A i \in DOMAIN jobs' : jobs'[i] = jobs[f[i]]

LEMMA FewerIf ==
  ASSUME IsSequence(jobs)
  PROVE  /\ UNCHANGED jobs => Fewer
         /\ jobs' = <<>> => Fewer
         /\ \A i \in DOMAIN jobs : jobs' = RemoveAt(jobs, i) => Fewer
<1>1. ASSUME UNCHANGED jobs PROVE Fewer
  <2>1. [k \in DOMAIN jobs |-> k] \in [DOMAIN jobs' -> DOMAIN jobs]
    BY <1>1
  <2> QED
    BY <1>1, <2>1 DEF Fewer
<1>2. ASSUME jobs' = <<>> PROVE Fewer
  <2>1. IsSequence(<<>>)
    BY DEF IsSequence, ToSet
  <2>2. [k \in DOMAIN jobs' |-> k] \in [DOMAIN jobs' -> DOMAIN jobs] /\ DOMAIN jobs' = {}
    BY <1>2
  <2> QED
    BY <1>2, <2>1, <2>2 DEF Fewer
<1>3. ASSUME NEW i \in DOMAIN jobs, jobs' = RemoveAt(jobs, i) PROVE Fewer
  <2>1. Len(jobs) \in Nat /\ DOMAIN jobs = 1..Len(jobs)
    BY DEF IsSequence
  <2>2. /\ IsSequence(jobs') /\ DOMAIN jobs' = 1..(Len(jobs) - 1)
        /\ \A k \in DOMAIN jobs' : jobs'[k] = jobs[IF k < i THEN k ELSE k + 1]
    <3>1. PICK s : s = jobs
      OBVIOUS
    <3>2. PICK n \in DOMAIN s : n = i
      BY <3>1
    <3>3. /\ IsSequence(RemoveAt(s, n)) /\ DOMAIN RemoveAt(s, n) = 1..(Len(s) - 1)
          /\ \A k \in DOMAIN RemoveAt(s, n) : RemoveAt(s, n)[k] = s[IF k < n THEN k ELSE k + 1]
      BY <3>1, RemoveAtIs
    <3> QED
      BY <1>3, <3>1, <3>2, <3>3
  <2> DEFINE f == [k \in DOMAIN jobs' |-> IF k < i THEN k ELSE k + 1]
  <2>3. f \in [DOMAIN jobs' -> DOMAIN jobs]
    BY <2>1, <2>2
  <2>4. \A k, m \in DOMAIN jobs' : f[k] = f[m] => k = m
    BY <2>1, <2>2
  <2>5. \A k \in DOMAIN jobs' : jobs'[k] = jobs[f[k]]
    BY <2>2
  <2> HIDE DEF f
  <2> QED
    BY <2>2, <2>3, <2>4, <2>5 DEF Fewer
<1> QED
  BY <1>1, <1>2, <1>3

\* a step that hands nothing to the worker and begins nothing
LEMMA BegunQuiet ==
  ASSUME BegunInv, Fewer, UNCHANGED <<begun, twice, cut>>,
         \/ UNCHANGED <<call, batch, pc>>
         \/ UNCHANGED <<call, batch>> /\ pc' = "u.send" /\ pc = "u.send"
         \/ UNCHANGED call /\ pc' \notin {"u.send", "u.wait"}
         \/ call' = call + 1 /\ batch'.kind \in Kinds
  PROVE  BegunInv'
<1>1. PICK f \in [DOMAIN jobs' -> DOMAIN jobs] :
        /\ \A i, k \in DOMAIN jobs' : f[i] = f[k] => i = k
        /\ \A i \in DOMAIN jobs' : jobs'[i] = jobs[f[i]]
  BY DEF Fewer
<1>2. call \in Nat /\ call' \in Nat /\ call' \in {call, call + 1}
  BY DEF BegunInv, JobsKnown
<1>3. \A i \in DOMAIN jobs' : /\ DOMAIN jobs'[i] = JobFields /\ jobs'[i].ops \in OpsLeft /\ jobs'[i].call \in 0..call
  BY <1>1 DEF BegunInv, JobsKnown
<1>4. pc' \in {"u.send", "u.wait"} => batch'.kind \in Kinds
  BY DEF BegunInv, JobsKnown
<1>5. JobsKnown'
  BY <1>2, <1>3, <1>4 DEF BegunInv, JobsKnown, Fewer
<1>6. pc' = "u.send" => call' \notin begun' /\ \A i \in DOMAIN jobs' : jobs'[i].call # call'
  <2>1. CASE call' = call + 1
    BY <1>2, <1>3, <2>1 DEF BegunInv, JobsKnown
  <2>2. CASE pc' = "u.send" /\ pc = "u.send" /\ UNCHANGED call
    BY <1>1, <2>2 DEF BegunInv, SentOnce
  <2>3. CASE pc' # "u.send"
    BY <2>3
  <2> QED
    BY <2>1, <2>2, <2>3
<1>7. \A i, k \in DOMAIN jobs' : jobs'[i].call = jobs'[k].call => i = k \/ jobs'[i].call \in cut'
  BY <1>1 DEF BegunInv, SentOnce
<1>8. \A i \in DOMAIN jobs' : jobs'[i].new /\ jobs'[i].call \in begun' => jobs'[i].call \in cut'
  BY <1>1 DEF BegunInv, SentOnce
<1> QED
  BY <1>5, <1>6, <1>7, <1>8 DEF BegunInv, SentOnce, OncePerCall

\* a command with the operations of the call, which were not begun
LEMMA BegunSends ==
  ASSUME BegunInv, jobs' = Append(jobs, Job), UNCHANGED <<begun, twice, call, batch>>, pc' = "u.wait",
         \/ pc = "u.send" /\ UNCHANGED cut
         \/ pc = "u.wait" /\ cut' = cut \cup {call}
  PROVE  BegunInv'
<1>1. IsSequence(jobs) /\ Len(jobs) \in Nat /\ DOMAIN jobs = 1..Len(jobs)
  BY DEF BegunInv, JobsKnown, IsSequence
<1>2. IsSequence(jobs') /\ DOMAIN jobs' = 1..Len(jobs) + 1 /\ jobs'[Len(jobs) + 1] = Job /\ \A i \in DOMAIN jobs : jobs'[i] = jobs[i]
  <2>1. PICK s, j : s = jobs /\ j = Job
    OBVIOUS
  <2>2. IsSequence(Append(s, j))
    BY <1>1, <2>1, AppendIsSequence
  <2>3. DOMAIN Append(s, j) = 1..Len(s) + 1 /\ Append(s, j)[Len(s) + 1] = j /\ \A i \in DOMAIN s : Append(s, j)[i] = s[i]
    BY <1>1, <2>1 DEF IsSequence
  <2> QED
    BY <2>1, <2>2, <2>3
<1>3. DOMAIN Job = JobFields /\ Job.call = call /\ Job.ops \in OpsLeft
  <2>1. batch.kind \in Kinds
    BY DEF BegunInv, JobsKnown
  <2>2. OpsOf(batch.kind) \in OpsLeft
    <3>1. OpsOf(batch.kind) \in {<<"find">>, <<"find_all">>, <<"move", "at">>, <<"at">>, <<"click">>, <<"find", "move", "do">>, <<"find", "do">>}
      BY <2>1 DEF OpsOf, Kinds
    <3> QED
      BY <3>1 DEF OpsLeft
  <2> HIDE DEF OpsOf
  <2> QED
    BY <2>2 DEF Job, JobFields
<1> HIDE DEF Job
<1>4. call \in Nat /\ JobsKnown'
  BY <1>1, <1>2, <1>3 DEF BegunInv, JobsKnown
<1>5. \/ cut' = cut /\ call \notin begun /\ \A i \in DOMAIN jobs : jobs[i].call # call
      \/ call \in cut' /\ cut \subseteq cut'
  BY DEF BegunInv, SentOnce
<1>6. \A i, k \in DOMAIN jobs' : jobs'[i].call = jobs'[k].call => i = k \/ jobs'[i].call \in cut'
  <2> SUFFICES ASSUME NEW i \in DOMAIN jobs', NEW k \in DOMAIN jobs', jobs'[i].call = jobs'[k].call, i # k
               PROVE  jobs'[i].call \in cut'
    OBVIOUS
  <2>1. CASE i \in DOMAIN jobs /\ k \in DOMAIN jobs
    BY <1>2, <1>5, <2>1 DEF BegunInv, SentOnce
  <2>2. CASE i = Len(jobs) + 1 \/ k = Len(jobs) + 1
    BY <1>1, <1>2, <1>3, <1>5, <2>2
  <2> QED
    BY <1>1, <1>2, <2>1, <2>2
<1>7. \A i \in DOMAIN jobs' : jobs'[i].new /\ jobs'[i].call \in begun' => jobs'[i].call \in cut'
  <2> SUFFICES ASSUME NEW i \in DOMAIN jobs', jobs'[i].new, jobs'[i].call \in begun' PROVE jobs'[i].call \in cut'
    OBVIOUS
  <2>1. CASE i \in DOMAIN jobs
    BY <1>2, <1>5, <2>1 DEF BegunInv, SentOnce
  <2>2. CASE i = Len(jobs) + 1
    BY <1>2, <1>3, <1>5, <2>2
  <2> QED
    BY <1>1, <1>2, <2>1, <2>2
<1> QED
  BY <1>4, <1>5, <1>6, <1>7 DEF BegunInv, SentOnce, OncePerCall

\* the worker begins a command, or goes on with it
LEMMA BegunWorks ==
  ASSUME BegunInv, Works
  PROVE  BegunInv'
<1>1. PICK i \in DOMAIN jobs :
        /\ way = "daemon" => \A k \in 1..(i - 1) : jobs[k].ops = <<>>
        /\ run_batch(backend, i)
        /\ begun' = begun \cup {jobs[i].call}
        /\ twice' = IF jobs[i].new /\ jobs[i].call \in begun THEN twice \cup {jobs[i].call} ELSE twice
  BY DEF Works
<1> DEFINE c == jobs[i].call
           j == Operate(backend, jobs[i]).job
<1>2. UNCHANGED <<pc, call, batch, cut>>
  BY DEF Works, process
<1>3. jobs[i].ops # <<>> /\ jobs' = [jobs EXCEPT ![i] = j]
  BY <1>1 DEF run_batch
<1>4. DOMAIN jobs[i] = JobFields /\ jobs[i].ops \in OpsLeft \ {<<>>} /\ c \in 0..call /\ IsSequence(jobs)
  BY <1>3 DEF BegunInv, JobsKnown
<1>5. DOMAIN j = JobFields /\ j.ops \in OpsLeft /\ j.call = c /\ j.new = FALSE
  <2>1. PICK old : old = jobs[i]
    OBVIOUS
  <2>2. LET k == Operate(backend, old).job
        IN  DOMAIN k = JobFields /\ k.ops = Tail(old.ops) /\ k.call = old.call /\ k.new = FALSE
    <3>1. DOMAIN old = JobFields /\ old.ops \in OpsLeft \ {<<>>}
      BY <1>4, <2>1
    <3> QED
      BY <3>1, Operated, Zenon
  <2>3. Tail(old.ops) \in OpsLeft
    BY <1>4, <2>1, OpsTails
  <2> QED
    BY <2>1, <2>2, <2>3
<1> HIDE DEF j
<1>6. DOMAIN jobs' = DOMAIN jobs /\ jobs'[i] = j /\ \A k \in DOMAIN jobs : k # i => jobs'[k] = jobs[k]
  BY <1>3
<1>7. \A k \in DOMAIN jobs : jobs'[k].call = jobs[k].call /\ (jobs'[k].new => jobs[k].new /\ k # i)
  BY <1>5, <1>6
<1>8. IsSequence(jobs')
  <2>1. PICK s : s = jobs
    OBVIOUS
  <2>2. PICK k \in DOMAIN s : k = i
    BY <2>1
  <2>3. PICK e : e = j
    OBVIOUS
  <2>4. IsSequence([s EXCEPT ![k] = e])
    BY <1>4, <2>1, ExceptIsSequence
  <2> QED
    BY <1>3, <2>1, <2>2, <2>3, <2>4
<1>9. JobsKnown'
  BY <1>1, <1>2, <1>4, <1>5, <1>6, <1>8 DEF BegunInv, JobsKnown
<1>10. pc' = "u.send" => call' \notin begun' /\ \A k \in DOMAIN jobs' : jobs'[k].call # call'
  BY <1>1, <1>2, <1>6, <1>7 DEF BegunInv, SentOnce
<1>11. \A m, k \in DOMAIN jobs' : jobs'[m].call = jobs'[k].call => m = k \/ jobs'[m].call \in cut'
  BY <1>2, <1>6, <1>7 DEF BegunInv, SentOnce
<1>12. \A k \in DOMAIN jobs' : jobs'[k].new /\ jobs'[k].call \in begun' => jobs'[k].call \in cut'
  BY <1>1, <1>2, <1>6, <1>7 DEF BegunInv, SentOnce
<1>13. twice' \subseteq cut'
  BY <1>1, <1>2 DEF BegunInv, SentOnce, OncePerCall
<1> QED
  BY <1>9, <1>10, <1>11, <1>12, <1>13 DEF BegunInv, SentOnce, OncePerCall

LEMMA BegunStep ==
  ASSUME BegunInv, StartClick \/ UNext
  PROVE  BegunInv'
<1> USE DEF At, Goto, Exit, Sending, Same, process, client, vm_ui
<1>0. IsSequence(jobs)
  BY DEF BegunInv, JobsKnown
<1>1. \A b, v : FirstBatch(b, v).kind \in Kinds
  BY DEF FirstBatch, Kinds
<1>2. ASSUME NEW b, Call(b), b.kind \in Kinds, UNCHANGED <<begun, twice, cut>>, Fewer PROVE BegunInv'
  BY <1>2, BegunQuiet DEF Call
<1>3. CASE StartClick
  <2>1. PICK b \in {"uia", "atspi"}, w \in {"daemon", "session1", "ssh"}, v \in {"pointer", "action", "hint", "query"} :
          /\ b = "atspi" => w = "ssh"
          /\ backend' = b /\ way' = w /\ via' = v /\ Call(FirstBatch(b, v))
    BY <1>3 DEF StartClick
  <2>2. UNCHANGED <<begun, twice, cut, jobs>>
    BY <1>3 DEF StartClick
  <2> QED
    BY <1>0, <1>1, <1>2, <2>1, <2>2, FewerIf
<1>4. CASE UError
  <2>1. StepFails /\ UNCHANGED <<begun, twice, cut, jobs>>
    BY <1>4 DEF UError
  <2>2. CASE try > 0
    <3>1. Call(FirstBatch(backend, via))
      BY <2>1, <2>2 DEF StepFails
    <3> QED
      BY <1>0, <1>1, <1>2, <2>1, <3>1, FewerIf
  <2>3. CASE ~(try > 0)
    BY <1>0, <2>1, <2>3, FewerIf, BegunQuiet DEF StepFails
  <2> QED
    BY <2>2, <2>3
<1>5. CASE EnsureSetup \/ Refused \/ Deploy \/ NeverReady
  <2>1. /\ pc = "u.send" /\ pc' \in {"u.send", "u.error"} /\ UNCHANGED <<call, batch, begun, twice, cut>>
        /\ jobs' = <<>> \/ UNCHANGED jobs
    BY <1>5 DEF EnsureSetup, Refused, Deploy, NeverReady
  <2> QED
    BY <1>0, <2>1, FewerIf, BegunQuiet
<1>6. CASE Connect \/ RunRemote \/ Status255
  <2>1. /\ UNCHANGED <<begun, twice, call, batch>>
        /\ \/ jobs' = Append(jobs, Job) /\ pc' = "u.wait" /\ pc = "u.send" /\ UNCHANGED cut
           \/ jobs' = Append(jobs, Job) /\ pc' = "u.wait" /\ pc = "u.wait" /\ cut' = cut \cup {call}
           \/ UNCHANGED <<jobs, cut>> /\ pc' = "u.error"
    BY <1>6 DEF Connect, RunRemote, Status255
  <2>2. CASE jobs' = Append(jobs, Job)
    BY <2>1, <2>2, BegunSends
  <2>3. CASE UNCHANGED <<jobs, cut>> /\ pc' = "u.error"
    BY <1>0, <2>1, <2>3, FewerIf, BegunQuiet
  <2> QED
    BY <2>1, <2>2, <2>3
<1>7. CASE NoAnswer \/ PressButton
  <2>1. UNCHANGED <<call, begun, twice, cut, jobs>> /\ pc' \in {"u.error", "exited"}
    BY <1>7 DEF NoAnswer, PressButton, StepDone
  <2> QED
    BY <1>0, <2>1, FewerIf, BegunQuiet
<1>8. CASE Lost \/ Changes
  <2>1. UNCHANGED <<pc, call, batch, begun, twice, cut>> /\ (jobs' = <<>> \/ UNCHANGED jobs)
    BY <1>8 DEF Lost, Changes, TreeChanges
  <2> QED
    BY <1>0, <2>1, FewerIf, BegunQuiet
<1>9. ASSUME NEW i \in DOMAIN jobs, Found(i) \/ FoundAll(i) \/ Checked(i) \/ Clicked(i) \/ Acted(i)
      PROVE  BegunInv'
  <2>1. Answers(i)
    BY <1>9 DEF Found, FoundAll, Checked, Clicked, Acted
  <2>2. Fewer /\ UNCHANGED <<begun, twice, cut>>
    BY <1>0, <2>1, FewerIf DEF Answers
  <2>3. \A c, x : CheckPoint(c, x).kind \in Kinds
    BY DEF CheckPoint, Kinds
  <2>4. Act.kind \in Kinds
    BY DEF Act, Kinds
  <2>5. ASSUME StepDone \/ NoTarget PROVE BegunInv'
    BY <2>2, <2>5, BegunQuiet DEF StepDone, NoTarget
  <2>6. ASSUME NEW b, More(b), b.kind \in Kinds PROVE BegunInv'
    BY <1>2, <2>2, <2>6 DEF More
  <2>7. ASSUME NEW cs, TryNext(cs) PROVE BegunInv'
    BY <2>3, <2>5, <2>6, <2>7 DEF TryNext
  <2>8. CASE Found(i)
    <3> DEFINE f == jobs[i].found
    <3>1. CASE via = "query"
      BY <2>5, <2>8, <3>1 DEF Found
    <3>2. CASE via # "query" /\ ~f.ok
      BY <2>5, <2>8, <3>2 DEF Found
    <3>3. CASE f.ok /\ via = "hint"
      <4>1. NoTarget \/ More(Act)
        BY <2>8, <3>3 DEF Found
      <4> QED
        BY <2>4, <2>5, <2>6, <4>1
    <3>4. CASE f.ok /\ via \notin {"query", "hint"}
      <4>1. NoTarget \/ More(CheckPoint(f, batch.arg # Nothing))
        BY <2>8, <3>4 DEF Found
      <4> QED
        BY <2>3, <2>5, <2>6, <4>1
    <3> QED
      BY <3>1, <3>2, <3>3, <3>4
  <2>9. CASE FoundAll(i)
    BY <2>7, <2>9 DEF FoundAll
  <2>10. CASE Checked(i)
    <3>1. \/ TryNext(cands) \/ NoTarget
          \/ \E x : More([kind |-> "find", arg |-> x]) \/ More([kind |-> "click", arg |-> x])
          \/ pc' = "u.press" /\ UNCHANGED call
      BY <2>10 DEF Checked
    <3>2. \A x : [kind |-> "find", arg |-> x].kind \in Kinds /\ [kind |-> "click", arg |-> x].kind \in Kinds
      BY DEF Kinds
    <3>3. CASE pc' = "u.press" /\ UNCHANGED call
      BY <2>2, <3>3, BegunQuiet
    <3> QED
      BY <2>5, <2>6, <2>7, <3>1, <3>2, <3>3
  <2>11. CASE Clicked(i) \/ Acted(i)
    BY <2>5, <2>11 DEF Clicked, Acted
  <2> QED
    BY <1>9, <2>8, <2>9, <2>10, <2>11
<1>10. CASE Works
  BY <1>10, BegunWorks
<1> QED
  BY <1>3, <1>4, <1>5, <1>6, <1>7, <1>8, <1>9, <1>10 DEF UNext, UMain

-----------------------------------------------------------------------------
(* what a click reaches *)

Paths  == Seq(Nat)
Screen == UNION {DOMAIN t.shown : t \in Trees}
Walked == {n \in Widget(Paths) : n.point \in Screen \cup {NoPoint}}
Held   == [ok : {TRUE}, node : Walked, when : Nat]
Alike(node, target) == node.match \/ Related(node, target) \/ node.passive

CheckArg(a) == a.target \in Walked /\ a.point = a.target.point /\ a.point \in Screen
\* what was checked is still there, or the tree has changed
ClickOk(a)  == /\ a.when \in 0..changes
               /\ a.checked /\ a.when = changes /\ tree.shown[a.point] # Nothing
                    => Alike(tree.shown[a.point], a.target) \/ a.alike
AtOk(j)     == \/ j.at \in {Nothing, Failed}
               \/ /\ j.at.ok = TRUE /\ j.at.when \in 0..changes
                  /\ j.at.when = changes => tree.shown[j.arg.point] = j.at.node
JobOk(j)    == /\ j.found = Nothing \/ j.found \in Held
               /\ j.all \in Seq(Held)
               /\ j.ops \in {<<"move", "at">>, <<"at">>} => CheckArg(j.arg)
               /\ j.ops = <<"click">> => ClickOk(j.arg)
               /\ AtOk(j)
BatchOk(b)  == /\ b.kind = "check" => CheckArg(b.arg)
               /\ b.kind = "click" => ClickOk(b.arg)

TreeKnown == /\ changes \in Nat
             /\ pc = "main" => call = 0
             /\ pc \in {"u.send", "u.wait", "u.error", "u.press"} => call # 0
             /\ IF call = 0 THEN jobs = <<>> ELSE tree \in Trees
CandsKnown == cands \in Seq(Held) /\ \A k \in DOMAIN cands : cands[k].node.point # NoPoint
JobsOk     == \A i \in DOMAIN jobs : JobOk(jobs[i])
BatchKnown == /\ pc \in {"u.send", "u.wait", "u.press"} => BatchOk(batch)
              /\ pc = "u.press" => batch.kind = "click"
              /\ pc = "u.wait" => \A i \in DOMAIN jobs : Mine(i) => jobs[i].arg = batch.arg
StrangerInv == TreeKnown /\ CandsKnown /\ JobsOk /\ BatchKnown /\ StrangersAlike

LEMMA TreesAre ==
  ASSUME NEW t \in Trees
  PROVE  /\ t.nodes \in Seq(Walked)
         /\ \A p \in Screen : t.shown[p] \in {Nothing} \cup Widget(Paths \cup {NoPath})
<1>1. DOMAIN t.shown = Screen
  BY UiWorkerAssumption DEF Screen
<1>2. t.nodes \in Seq(Widget(Paths)) /\ \A p \in DOMAIN t.shown : t.shown[p] \in {Nothing} \cup Widget(Paths \cup {NoPath})
  BY UiWorkerAssumption DEF Paths
<1>3. \A k \in DOMAIN t.nodes : t.nodes[k].point \in Screen \cup {NoPoint}
  BY <1>1, UiWorkerAssumption
<1> HIDE DEF Paths, Widget
<1>4. \A k \in 1..Len(t.nodes) : t.nodes[k] \in Walked
  BY <1>2, <1>3 DEF Walked
<1>5. t.nodes \in Seq(Walked)
  BY <1>2, <1>4
<1> QED
  BY <1>1, <1>2, <1>5

LEMMA PickedIs ==
  ASSUME NEW S, NEW s \in Seq(S), NEW ns \in SUBSET DOMAIN s
  PROVE  Picked(s, ns) \in Seq({s[k] : k \in ns}) /\ Picked(s, ns) \in Seq(S)
<1>1. Len(s) \in Nat /\ ns \in SUBSET (1..Len(s))
  OBVIOUS
<1>2. InOrder(ns) \in [1..Cardinality(ns) -> ns]
  BY <1>1, InOrderEnumerates
<1>3. Cardinality(ns) \in Nat
  <2>1. 1 \in Int /\ Len(s) \in Int
    BY <1>1
  <2>2. IsFiniteSet(1..Len(s))
    BY <2>1, FS_Interval
  <2>3. IsFiniteSet(ns)
    BY <1>1, <2>2, FS_Subset
  <2> QED
    BY <2>3, FS_CardinalityType
<1> DEFINE c == Cardinality(ns)
           o == InOrder(ns)
<1> HIDE DEF c, o
<1>4. c \in Nat /\ o \in [1..c -> ns]
  BY <1>2, <1>3 DEF c, o
<1>5. Picked(s, ns) = [k \in 1..c |-> s[o[k]]]
  BY <1>4 DEF Picked, o
<1>6. \A k \in 1..c : s[o[k]] \in {s[m] : m \in ns} /\ s[o[k]] \in S
  BY <1>1, <1>4
<1> QED
  BY <1>4, <1>5, <1>6

LEMMA FindsWalked ==
  ASSUME NEW t \in Trees
  PROVE  /\ _find_all(t) \in Seq(Walked)
         /\ \A b : \/ _find_first(b, t) = Nothing
                  \/ _find_first(b, t) \in [ok : {TRUE}, node : Walked]
<1>1. t.nodes \in Seq(Walked)
  BY TreesAre
<1>2. Matching(t) \in SUBSET DOMAIN t.nodes
  BY DEF Matching
<1>3. PICK s : s = t.nodes
  OBVIOUS
<1>4. \A ns \in SUBSET DOMAIN s : Picked(s, ns) \in Seq(Walked)
  BY <1>1, <1>3, PickedIs
<1>5. /\ Picked(t.nodes, Matching(t)) \in Seq(Walked)
      /\ Picked(t.nodes, Matching(t) \ Off(t)) \in Seq(Walked)
      /\ Picked(t.nodes, Matching(t) \cap Off(t)) \in Seq(Walked)
  BY <1>2, <1>3, <1>4
<1> HIDE DEF Walked
<1>6. _find_all(t) \in Seq(Walked)
  BY <1>5 DEF _find_all
<1>7. ASSUME NEW q \in Seq(Walked)
      PROVE  LET f == IF q = <<>> THEN Nothing ELSE [ok |-> TRUE, node |-> Head(q)]
             IN  f = Nothing \/ f \in [ok : {TRUE}, node : Walked]
  <2>1. q # <<>> => Head(q) \in Walked
    OBVIOUS
  <2> QED
    BY <2>1
<1>8. ASSUME NEW b
      PROVE  _find_first(b, t) = Nothing \/ _find_first(b, t) \in [ok : {TRUE}, node : Walked]
  <2>1. CASE b = "uia"
    BY <1>6, <1>7, <2>1 DEF _find_first
  <2>2. CASE b # "uia"
    BY <1>5, <1>7, <2>2 DEF _find_first
  <2> QED
    BY <2>1, <2>2
<1> QED
  BY <1>6, <1>8

LEMMA PrefixOfItself ==
  ASSUME NEW S, NEW p \in Seq(S)
  PROVE  IsPrefix(p, p)
BY DEF IsPrefix

\* a widget that passes the check is the one that was asked for, or near it, or their
\* paths read alike
LEMMA MatchesAlike ==
  ASSUME NEW v, NEW target, Matches(v, target)
  PROVE  Alike(v.node, target) \/ (TextsMatch(v.told, target.path) /\ ~Related(v.node, target))
BY DEF Matches, Alike

LEMMA StrangerAside ==
  ASSUME StrangerInv, UNCHANGED uVars, UNCHANGED pc \/ pc' \notin {"main", "u.send", "u.wait", "u.error", "u.press"}
  PROVE  StrangerInv'
<1>1. UNCHANGED <<call, cands, jobs, batch, tree, changes, hits>>
  BY DEF uVars, client, vm_ui
<1>2. (TreeKnown /\ CandsKnown /\ StrangersAlike)'
  BY <1>1 DEF StrangerInv, TreeKnown, CandsKnown, StrangersAlike
<1>3. JobsOk'
  BY <1>1 DEF StrangerInv, JobsOk, JobOk, AtOk, ClickOk, CheckArg
<1>4. BatchKnown'
  <2>1. CASE UNCHANGED pc
    BY <1>1, <2>1 DEF StrangerInv, BatchKnown, BatchOk, ClickOk, CheckArg, Mine
  <2>2. CASE pc' \notin {"u.send", "u.wait", "u.press"}
    BY <2>2 DEF BatchKnown
  <2> QED
    BY <2>1, <2>2
<1> QED
  BY <1>2, <1>3, <1>4 DEF StrangerInv

\* a step that leaves the tree alone, hands nothing to the worker and activates nothing
LEMMA StrangerQuiet ==
  ASSUME BegunInv, StrangerInv, Fewer, UNCHANGED <<tree, changes, hits>>, CandsKnown',
         call # 0 \/ (UNCHANGED <<call, pc>> /\ jobs' = <<>>),
         \/ UNCHANGED <<call, batch>> /\ (UNCHANGED pc \/ (pc = "u.send" /\ pc' = "u.send"))
         \/ UNCHANGED call /\ pc' \notin {"main", "u.send", "u.wait", "u.press"}
         \/ call' = call + 1 /\ pc' = "u.send" /\ BatchOk(batch)'
         \/ UNCHANGED call /\ pc' = "u.press" /\ BatchOk(batch)' /\ batch'.kind = "click"
  PROVE  StrangerInv'
<1>1. PICK f \in [DOMAIN jobs' -> DOMAIN jobs] : \A i \in DOMAIN jobs' : jobs'[i] = jobs[f[i]]
  BY DEF Fewer
<1>2. call \in Nat /\ call' \in Nat /\ (call # 0 => call' # 0)
  BY DEF BegunInv, JobsKnown
<1>3. TreeKnown'
  BY <1>2 DEF StrangerInv, TreeKnown
<1>4. JobsOk'
  <2> SUFFICES ASSUME NEW i \in DOMAIN jobs' PROVE JobOk(jobs[i])'
    BY DEF JobsOk
  <2>1. f[i] \in DOMAIN jobs /\ jobs'[i] = jobs[f[i]]
    BY <1>1
  <2>2. PICK j : j = jobs[f[i]]
    OBVIOUS
  <2>3. JobOk(j)
    BY <2>1, <2>2 DEF StrangerInv, JobsOk
  <2>4. JobOk(j)'
    BY <2>3 DEF JobOk, AtOk, ClickOk, CheckArg
  <2>5. jobs'[i] = j
    BY <2>1, <2>2
  <2> QED
    BY <2>4, <2>5 DEF JobOk, AtOk, ClickOk, CheckArg
<1>5. StrangersAlike'
  BY DEF StrangerInv, StrangersAlike
<1>6. BatchKnown'
  <2>1. CASE UNCHANGED <<call, batch>> /\ (UNCHANGED pc \/ (pc = "u.send" /\ pc' = "u.send"))
    <3>1. BatchOk(batch)' <=> BatchOk(batch)
      BY <2>1 DEF BatchOk, ClickOk, CheckArg
    <3>2. pc' \in {"u.send", "u.wait", "u.press"} => BatchOk(batch)'
      BY <2>1, <3>1 DEF StrangerInv, BatchKnown
    <3>3. pc' = "u.wait" => \A k \in DOMAIN jobs' : jobs'[k].call = call' => jobs'[k].arg = batch'.arg
      BY <1>1, <2>1 DEF StrangerInv, BatchKnown, Mine
    <3>4. pc' = "u.press" => batch'.kind = "click"
      BY <2>1 DEF StrangerInv, BatchKnown
    <3> HIDE DEF BatchOk
    <3> QED
      BY <3>2, <3>3, <3>4 DEF BatchKnown, Mine
  <2>2. CASE pc' \notin {"u.send", "u.wait", "u.press"}
    BY <2>2 DEF BatchKnown
  <2>3. CASE pc' \in {"u.send", "u.press"} /\ BatchOk(batch)' /\ (pc' = "u.press" => batch'.kind = "click")
    BY <2>3 DEF BatchKnown
  <2> QED
    BY <2>1, <2>2, <2>3
<1> QED
  BY <1>3, <1>4, <1>5, <1>6 DEF StrangerInv

\* what is handed over is the batch of the call
LEMMA StrangerSends ==
  ASSUME BegunInv, StrangerInv, call # 0, jobs' = Append(jobs, Job), UNCHANGED <<tree, changes, hits, cands, call, batch>>,
         pc \in {"u.send", "u.wait"}, pc' = "u.wait"
  PROVE  StrangerInv'
<1>1. IsSequence(jobs) /\ Len(jobs) \in Nat /\ DOMAIN jobs = 1..Len(jobs)
  BY DEF BegunInv, JobsKnown, IsSequence
<1>2. DOMAIN jobs' = 1..Len(jobs) + 1 /\ jobs'[Len(jobs) + 1] = Job /\ \A i \in DOMAIN jobs : jobs'[i] = jobs[i]
  <2>1. PICK s, j : s = jobs /\ j = Job
    OBVIOUS
  <2>2. DOMAIN Append(s, j) = 1..Len(s) + 1 /\ Append(s, j)[Len(s) + 1] = j /\ \A i \in DOMAIN s : Append(s, j)[i] = s[i]
    BY <1>1, <2>1 DEF IsSequence
  <2> QED
    BY <2>1, <2>2
<1>3. BatchOk(batch) /\ batch.kind \in Kinds
  BY DEF StrangerInv, BatchKnown, BegunInv, JobsKnown
<1>4. JobOk(Job)
  <2>1. OpsOf(batch.kind) \in {<<"move", "at">>, <<"at">>} => batch.kind = "check"
    BY <1>3 DEF OpsOf, Kinds
  <2>2. OpsOf(batch.kind) = <<"click">> => batch.kind = "click"
    BY <1>3 DEF OpsOf, Kinds
  <2>3. <<>> \in Seq(Held)
    OBVIOUS
  <2>4. Job.found = Nothing /\ Job.all = <<>> /\ Job.at = Nothing /\ Job.ops = OpsOf(batch.kind) /\ Job.arg = batch.arg
    BY DEF Job
  <2> HIDE DEF Job, Held, OpsOf, Nothing
  <2> QED
    BY <1>3, <2>1, <2>2, <2>3, <2>4 DEF JobOk, AtOk, BatchOk
<1>5. Job.call = call /\ Job.arg = batch.arg
  BY DEF Job
<1>6. PICK job : job = Job
  OBVIOUS
<1> HIDE DEF Job
<1>7. \A i \in DOMAIN jobs : JobOk(jobs[i])
  BY DEF StrangerInv, JobsOk
<1>8. JobsOk'
  <2> SUFFICES ASSUME NEW i \in DOMAIN jobs' PROVE JobOk(jobs[i])'
    BY DEF JobsOk
  <2>1. CASE i \in DOMAIN jobs
    BY <1>2, <1>7, <2>1 DEF JobOk, AtOk, ClickOk, CheckArg
  <2>2. CASE i = Len(jobs) + 1
    BY <1>2, <1>4, <2>2 DEF JobOk, AtOk, ClickOk, CheckArg
  <2> QED
    BY <1>1, <1>2, <2>1, <2>2
<1>9. BatchKnown'
  <2>1. BatchOk(batch)'
    BY <1>3 DEF BatchOk, ClickOk, CheckArg
  <2>2. \A i \in DOMAIN jobs : jobs[i].call = call => jobs[i].arg = batch.arg
    BY DEF StrangerInv, BatchKnown, Mine, BegunInv, SentOnce
  <2>3. ASSUME NEW i \in DOMAIN jobs', jobs'[i].call = call' PROVE jobs'[i].arg = batch'.arg
    <3>1. CASE i \in DOMAIN jobs
      BY <1>2, <2>2, <2>3, <3>1
    <3>2. CASE i = Len(jobs) + 1
      BY <1>2, <1>5, <3>2
    <3> QED
      BY <1>1, <1>2, <3>1, <3>2
  <2> HIDE DEF BatchOk
  <2> QED
    BY <2>1, <2>3 DEF BatchKnown, Mine
<1>10. (TreeKnown /\ CandsKnown /\ StrangersAlike)'
  BY DEF StrangerInv, TreeKnown, CandsKnown, StrangersAlike
<1> QED
  BY <1>8, <1>9, <1>10 DEF StrangerInv

\* the application changes its tree: nothing that was held is of the new one
LEMMA StrangerChanges ==
  ASSUME BegunInv, StrangerInv, Changes
  PROVE  StrangerInv'
<1>1. call # 0 /\ tree' \in Trees /\ changes' = changes + 1 /\ UNCHANGED <<pc, jobs, hits, cands, call, batch>>
  BY DEF Changes, TreeChanges, process, client, BegunInv, JobsKnown
<1>2. changes \in Nat /\ \A w \in 0..changes : w \in 0..changes' /\ w # changes'
  BY <1>1 DEF StrangerInv, TreeKnown
<1>3. \A j : AtOk(j) => AtOk(j)'
  BY <1>2 DEF AtOk
<1>4. \A a : ClickOk(a) => ClickOk(a)'
  BY <1>2 DEF ClickOk
<1>5. JobsOk'
  <2> SUFFICES ASSUME NEW i \in DOMAIN jobs PROVE JobOk(jobs[i])'
    BY <1>1 DEF JobsOk
  <2>1. PICK j : j = jobs[i]
    OBVIOUS
  <2>2. JobOk(j)
    BY <2>1 DEF StrangerInv, JobsOk
  <2>3. JobOk(j)'
    BY <1>3, <1>4, <2>2 DEF JobOk, CheckArg
  <2>4. jobs'[i] = j
    BY <1>1, <2>1
  <2> QED
    BY <2>3, <2>4 DEF JobOk, AtOk, ClickOk, CheckArg
<1>6. BatchKnown'
  <2>1. PICK b : b = batch
    OBVIOUS
  <2>2. BatchOk(b) => BatchOk(b)'
    BY <1>4 DEF BatchOk, CheckArg
  <2>3. pc \in {"u.send", "u.wait", "u.press"} => BatchOk(b)
    BY <2>1 DEF StrangerInv, BatchKnown
  <2>4. BatchOk(b)' => BatchOk(batch)'
    BY <1>1, <2>1 DEF BatchOk, ClickOk, CheckArg
  <2> HIDE DEF BatchOk
  <2> QED
    BY <1>1, <2>2, <2>3, <2>4 DEF BatchKnown, StrangerInv, Mine
<1> QED
  BY <1>1, <1>2, <1>5, <1>6 DEF StrangerInv, TreeKnown, CandsKnown, StrangersAlike

-----------------------------------------------------------------------------
(* the worker goes on *)

LEMMA OpsRest ==
  ASSUME NEW o \in OpsLeft \ {<<>>}
  PROVE  /\ Tail(o) # <<"click">>
         /\ Tail(o) # <<"move", "at">>
         /\ Tail(o) = <<"at">> => o = <<"move", "at">>
         /\ Head(o) = "at" => o = <<"at">>
<1>1. CASE o \in {<<"find">>, <<"find_all">>, <<"at">>, <<"click">>, <<"do">>}
  <2>1. ASSUME NEW x, o = <<x>> PROVE Tail(o) = <<>> /\ Head(o) = x
    BY <2>1
  <2> QED
    BY <1>1, <2>1 DEF OpsLeft
<1>2. CASE o \in {<<"move", "at">>, <<"find", "do">>, <<"move", "do">>}
  <2>1. ASSUME NEW x, NEW y, o = <<x, y>> PROVE Tail(o) = <<y>> /\ Head(o) = x
    BY <2>1
  <2> QED
    BY <1>2, <2>1 DEF OpsLeft
<1>3. CASE o = <<"find", "move", "do">>
  <2>1. Tail(o) = <<"move", "do">> /\ Head(o) = "find"
    BY <1>3
  <2> QED
    BY <1>3, <2>1 DEF OpsLeft
<1> QED
  BY <1>1, <1>2, <1>3 DEF OpsLeft

Innocent(h) == h.stranger => h.stale \/ ~h.checked \/ h.alike

\* a click whose target was checked in this tree reaches what was checked
LEMMA PressInnocent ==
  ASSUME NEW a, ClickOk(a), NEW c
  PROVE  \A h \in Press(c, a) : h \in hits \/ Innocent(h)
<1>1. CASE tree.shown[a.point] = Nothing
  BY <1>1 DEF Press
<1>2. CASE tree.shown[a.point] # Nothing
  <2> DEFINE node == tree.shown[a.point]
             l    == Landed(c, node, a.target, a.when, a.checked, a.alike)
  <2>1. Press(c, a) = hits \cup {l}
    BY <1>2 DEF Press
  <2>2. /\ l.stale <=> a.when # changes
        /\ l.checked = a.checked /\ l.alike = a.alike
        /\ l.stranger <=> ~Alike(node, a.target)
    BY DEF Landed, Alike
  <2>3. a.checked /\ a.when = changes => Alike(node, a.target) \/ a.alike
    BY <1>2 DEF ClickOk
  <2> HIDE DEF l, node
  <2> QED
    BY <2>1, <2>2, <2>3 DEF Innocent
<1> QED
  BY <1>1, <1>2

\* an action goes to the path that the find of the batch answered
LEMMA ActInnocent ==
  ASSUME NEW j, j.found = Nothing \/ j.found \in Held
  PROVE  \A h \in _op_do_action(j).hits : h \in hits \/ Innocent(h)
<1> DEFINE there == IF j.found.ok THEN NodesAt(tree, j.found.node.path) ELSE {}
           n     == CHOOSE n \in there : TRUE
           l     == Landed(j.call, n, j.found.node, j.found.when, TRUE, FALSE)
<1>1. CASE there = {}
  BY <1>1 DEF _op_do_action
<1>2. CASE there # {}
  <2>1. j.found.ok /\ n \in NodesAt(tree, j.found.node.path)
    BY <1>2
  <2>2. n.path = j.found.node.path
    BY <2>1 DEF NodesAt
  <2>3. j.found.node.path \in Paths
    <3>1. j.found \in Held
      BY <2>1 DEF Nothing
    <3>2. j.found.node \in Widget(Paths)
      BY <3>1 DEF Held, Walked
    <3> QED
      BY <3>2 DEF Widget
  <2>4. Related(n, j.found.node)
    BY <2>2, <2>3, PrefixOfItself DEF Related, Paths
  <2>5. _op_do_action(j).hits = hits \cup {l}
    BY <1>2 DEF _op_do_action
  <2>6. l.stranger = FALSE
    BY <2>4 DEF Landed
  <2> HIDE DEF l
  <2> QED
    BY <2>5, <2>6 DEF Innocent
<1> QED
  BY <1>1, <1>2

\* a widget that is told is the one that the screen shows now
LEMMA LookedUp ==
  ASSUME changes \in Nat, NEW b, NEW p
  PROVE  LET x == _op_get_at_point(b, p)
         IN  x \in {Nothing, Failed} \/ (x.ok = TRUE /\ x.when \in 0..changes /\ tree.shown[p] = x.node)
<1> DEFINE path == _walk_path_to_app(b, tree, tree.shown[p])
<1>1. _op_get_at_point(b, p) \in {Nothing, Failed, [ok |-> TRUE, node |-> tree.shown[p], when |-> changes, told |-> path]}
  BY DEF _op_get_at_point
<1> HIDE DEF path
<1> QED
  BY <1>1

LEMMA OperateOk ==
  ASSUME tree \in Trees, changes \in Nat,
         NEW b, NEW j, DOMAIN j = JobFields, j.ops \in OpsLeft \ {<<>>}, JobOk(j)
  PROVE  /\ JobOk(Operate(b, j).job)
         /\ \A h \in Operate(b, j).hits : h \in hits \/ Innocent(h)
<1> DEFINE k == [j EXCEPT !.ops = Tail(@), !.new = FALSE]
<1>1. /\ DOMAIN k = JobFields /\ k.ops = Tail(j.ops) /\ k.arg = j.arg
      /\ k.found = j.found /\ k.all = j.all /\ k.at = j.at
  BY DEF JobFields
<1> HIDE DEF k
<1>2. CheckArg(k.arg) \/ k.ops \notin {<<"move", "at">>, <<"at">>, <<"click">>}
  BY <1>1, OpsRest DEF JobOk
<1>3. k.ops # <<"click">>
  BY <1>1, OpsRest
<1>4. JobOk(k)
  BY <1>1, <1>2, <1>3 DEF JobOk, AtOk
<1>5. ASSUME NEW x, x = Nothing \/ x \in Held PROVE JobOk([k EXCEPT !.found = x])
  BY <1>1, <1>4, <1>5 DEF JobOk, AtOk, JobFields
<1>6. ASSUME NEW x \in Seq(Held) PROVE JobOk([k EXCEPT !.all = x])
  BY <1>1, <1>4, <1>6 DEF JobOk, AtOk, JobFields
<1>7. JobOk([k EXCEPT !.done = TRUE])
  BY <1>1, <1>4 DEF JobOk, AtOk, JobFields
<1>8. CASE Head(j.ops) = "find"
  <2>1. _op_find(b) = Nothing \/ _op_find(b) \in Held
    <3>1. _find_first(b, tree) = Nothing \/ _find_first(b, tree) \in [ok : {TRUE}, node : Walked]
      BY FindsWalked
    <3>2. PICK f : f = _find_first(b, tree)
      OBVIOUS
    <3>3. CASE f = Nothing
      BY <3>2, <3>3 DEF _op_find, Nothing
    <3>4. CASE f \in [ok : {TRUE}, node : Walked]
      <4>1. f.ok = TRUE /\ f.node \in Walked
        BY <3>4
      <4>2. _op_find(b) = Hold(f.node)
        BY <3>2, <4>1 DEF _op_find
      <4> HIDE DEF Walked
      <4> QED
        BY <4>1, <4>2 DEF Hold, Held
    <3> QED
      BY <3>1, <3>2, <3>3, <3>4
  <2>2. PICK x : x = _op_find(b)
    OBVIOUS
  <2>3. JobOk([k EXCEPT !.found = x])
    BY <1>5, <2>1, <2>2
  <2>4. Operate(b, j) = [job |-> [k EXCEPT !.found = x], hits |-> hits]
    BY <1>8, <2>2 DEF Operate, k
  <2> QED
    BY <2>3, <2>4
<1>9. CASE Head(j.ops) = "find_all"
  <2>1. PICK s : s = _find_all(tree)
    OBVIOUS
  <2>2. s \in Seq(Walked)
    BY <2>1, FindsWalked
  <2>3. [i \in DOMAIN s |-> Hold(s[i])] \in Seq(Held)
    <3>1. \A i \in 1..Len(s) : Hold(s[i]) \in Held
      BY <2>2 DEF Hold, Held
    <3> HIDE DEF Held
    <3> QED
      BY <2>2, <3>1
  <2>4. Operate(b, j) = [job |-> [k EXCEPT !.all = [i \in DOMAIN s |-> Hold(s[i])]], hits |-> hits]
    BY <1>9, <2>1 DEF Operate, k
  <2> QED
    BY <1>6, <2>3, <2>4
<1>10. CASE Head(j.ops) = "at"
  <2> DEFINE x == _op_get_at_point(b, j.arg.point)
  <2>2. x \in {Nothing, Failed} \/ (x.ok = TRUE /\ x.when \in 0..changes /\ tree.shown[j.arg.point] = x.node)
    BY LookedUp
  <2>3. Operate(b, j) = [job |-> [k EXCEPT !.at = x], hits |-> hits]
    BY <1>10 DEF Operate, k
  <2> HIDE DEF x
  <2>4. JobOk([k EXCEPT !.at = x])
    <3>1. PICK m : m = [k EXCEPT !.at = x]
      OBVIOUS
    <3>2. m.at = x /\ m.arg = j.arg /\ m.found = k.found /\ m.all = k.all /\ m.ops = k.ops
      BY <1>1, <3>1 DEF JobFields
    <3>3. AtOk(m)
      BY <2>2, <3>2 DEF AtOk
    <3> HIDE DEF AtOk, CheckArg, ClickOk
    <3> QED
      BY <1>1, <1>4, <3>1, <3>2, <3>3 DEF JobOk
  <2> QED
    BY <2>3, <2>4
<1>11. CASE Head(j.ops) = "move"
  <2>1. Operate(b, j) = [job |-> k, hits |-> hits]
    BY <1>11 DEF Operate, k
  <2> QED
    BY <1>4, <2>1
<1>12. CASE Head(j.ops) = "click"
  <2>1. Operate(b, j) = [job |-> [k EXCEPT !.done = TRUE], hits |-> Press(j.call, j.arg)]
    BY <1>12 DEF Operate, k
  <2>2. ClickOk(j.arg)
    BY <1>12, OpsTails DEF JobOk
  <2>3. PICK a, c : a = j.arg /\ c = j.call
    OBVIOUS
  <2>4. \A h \in Press(c, a) : h \in hits \/ Innocent(h)
    BY <2>2, <2>3, PressInnocent
  <2> QED
    BY <1>7, <2>1, <2>3, <2>4
<1>13. CASE Head(j.ops) = "do"
  <2>1. Operate(b, j) = _op_do_action(k)
    BY <1>13 DEF Operate, k
  <2>2. _op_do_action(k).job \in {k, [k EXCEPT !.done = TRUE]}
    BY DEF _op_do_action
  <2>3. k.found = Nothing \/ k.found \in Held
    BY <1>1 DEF JobOk
  <2>4. \A h \in _op_do_action(k).hits : h \in hits \/ Innocent(h)
    BY <2>3, ActInnocent
  <2> QED
    BY <1>4, <1>7, <2>1, <2>2, <2>4
<1> QED
  BY <1>8, <1>9, <1>10, <1>11, <1>12, <1>13, OpsTails

\* the worker goes on with a batch
LEMMA StrangerWorks ==
  ASSUME BegunInv, StrangerInv, Works
  PROVE  StrangerInv'
<1>1. PICK i \in DOMAIN jobs : run_batch(backend, i)
  BY DEF Works
<1> DEFINE j == Operate(backend, jobs[i]).job
<1>2. UNCHANGED <<pc, call, batch, cands, tree, changes>>
  BY <1>1 DEF Works, process, run_batch
<1>3. jobs[i].ops # <<>> /\ jobs' = [jobs EXCEPT ![i] = j] /\ hits' = Operate(backend, jobs[i]).hits
  BY <1>1 DEF run_batch
<1>4. DOMAIN jobs[i] = JobFields /\ jobs[i].ops \in OpsLeft \ {<<>>}
  BY <1>3 DEF BegunInv, JobsKnown
<1>5. tree \in Trees /\ changes \in Nat /\ JobOk(jobs[i]) /\ call # 0
  <2>1. jobs # <<>>
    BY <1>1
  <2> QED
    BY <2>1 DEF StrangerInv, TreeKnown, JobsOk
<1>6. JobOk(j) /\ \A h \in hits' : h \in hits \/ Innocent(h)
  BY <1>3, <1>4, <1>5, OperateOk
<1>7. j.call = jobs[i].call /\ j.arg = jobs[i].arg
  <2>1. PICK old : old = jobs[i]
    OBVIOUS
  <2>2. LET k == Operate(backend, old).job IN k.call = old.call /\ k.arg = old.arg
    <3>1. DOMAIN old = JobFields /\ old.ops \in OpsLeft \ {<<>>}
      BY <1>4, <2>1
    <3> QED
      BY <3>1, Operated, Zenon
  <2> QED
    BY <2>1, <2>2
<1> HIDE DEF j
<1>8. DOMAIN jobs' = DOMAIN jobs /\ jobs'[i] = j /\ \A k \in DOMAIN jobs : k # i => jobs'[k] = jobs[k]
  BY <1>3
<1>9. JobsOk'
  <2> SUFFICES ASSUME NEW k \in DOMAIN jobs PROVE JobOk(jobs[k])'
    BY <1>8 DEF JobsOk
  <2>1. PICK m : m = IF k = i THEN j ELSE jobs[k]
    OBVIOUS
  <2>2. JobOk(m)
    BY <1>6, <2>1 DEF StrangerInv, JobsOk
  <2>3. JobOk(m)'
    BY <1>2, <2>2 DEF JobOk, AtOk, ClickOk, CheckArg
  <2>4. jobs'[k] = m
    BY <1>8, <2>1
  <2> QED
    BY <2>3, <2>4 DEF JobOk, AtOk, ClickOk, CheckArg
<1>10. BatchKnown'
  <2>1. BatchOk(batch) <=> BatchOk(batch)'
    BY <1>2 DEF BatchOk, ClickOk, CheckArg
  <2>2. \A k \in DOMAIN jobs : jobs'[k].call = jobs[k].call /\ jobs'[k].arg = jobs[k].arg
    BY <1>7, <1>8
  <2> HIDE DEF BatchOk
  <2> QED
    BY <1>2, <1>8, <2>1, <2>2 DEF BatchKnown, StrangerInv, Mine
<1>11. StrangersAlike'
  BY <1>6 DEF StrangerInv, StrangersAlike, Innocent
<1>12. TreeKnown' /\ CandsKnown'
  BY <1>2, <1>5 DEF StrangerInv, TreeKnown, CandsKnown
<1> QED
  BY <1>9, <1>10, <1>11, <1>12 DEF StrangerInv

-----------------------------------------------------------------------------
(* the answers *)

\* a widget with a point on the screen can be checked
LEMMA CheckPointOk ==
  ASSUME NEW c \in Held, c.node.point # NoPoint, NEW x
  PROVE  BatchOk(CheckPoint(c, x))
BY DEF Held, Walked, CheckPoint, BatchOk, CheckArg

\* what was at the point when it was checked is what a click will reach
ClickOf(v, a) ==
  [point |-> a.point, target |-> a.target, when |-> IF v.ok THEN v.when ELSE changes, checked |-> v.ok,
   alike |-> v.ok /\ TextsMatch(v.told, a.target.path) /\ ~Related(v.node, a.target)]

LEMMA CheckedOk ==
  ASSUME BegunInv, StrangerInv, NEW i \in DOMAIN jobs, Mine(i), pc = "u.wait", batch.kind = "check",
         jobs[i].at # Failed, jobs[i].at.ok => Matches(jobs[i].at, batch.arg.target)
  PROVE  ClickOk(ClickOf(jobs[i].at, batch.arg))
<1>1. PICK v, a : v = jobs[i].at /\ a = batch.arg
  OBVIOUS
<1>2. PICK click : click = ClickOf(v, a)
  OBVIOUS
<1>3. jobs[i].arg = a /\ AtOk(jobs[i]) /\ changes \in Nat
  BY <1>1 DEF StrangerInv, BatchKnown, JobsOk, JobOk, TreeKnown
<1>4. CASE v = Nothing
  <2>1. v.ok = FALSE /\ changes \in 0..changes
    BY <1>3, <1>4 DEF Nothing
  <2>2. click.when = changes /\ click.checked = FALSE
    BY <1>2, <2>1 DEF ClickOf
  <2> QED
    BY <1>1, <1>2, <2>1, <2>2 DEF ClickOk
<1>5. CASE v # Nothing
  <2>1. v.ok = TRUE /\ v.when \in 0..changes /\ (v.when = changes => tree.shown[a.point] = v.node)
    BY <1>1, <1>3, <1>5 DEF AtOk
  <2>2. Alike(v.node, a.target) \/ (TextsMatch(v.told, a.target.path) /\ ~Related(v.node, a.target))
    BY <1>1, <2>1, MatchesAlike
  <2>3. click.when = v.when /\ click.point = a.point /\ click.target = a.target
    BY <1>2, <2>1 DEF ClickOf
  <2>4. click.alike <=> TextsMatch(v.told, a.target.path) /\ ~Related(v.node, a.target)
    BY <1>2, <2>1 DEF ClickOf
  <2>5. click.when = changes => Alike(tree.shown[click.point], click.target) \/ click.alike
    BY <2>1, <2>2, <2>3, <2>4
  <2> QED
    BY <1>1, <1>2, <2>1, <2>3, <2>5 DEF ClickOk
<1> QED
  BY <1>4, <1>5

LEMMA StrangerStep ==
  ASSUME BegunInv, StrangerInv, StartClick \/ UNext
  PROVE  StrangerInv'
<1> USE DEF At, Goto, Exit, Sending, Same, process, client, vm_ui
<1>0. IsSequence(jobs) /\ call \in Nat /\ changes \in Nat
  BY DEF BegunInv, JobsKnown, StrangerInv, TreeKnown
<1>1. \A b, v, c : FirstBatch(b, v).kind \notin {"check", "click"} /\ BatchOk(FirstBatch(b, v))
  BY DEF FirstBatch, BatchOk
<1>2. ASSUME UNCHANGED cands PROVE CandsKnown'
  BY <1>2 DEF StrangerInv, CandsKnown
<1>3. ASSUME NEW b, Call(b), BatchOk(b), Fewer, UNCHANGED <<tree, changes, hits>>, CandsKnown', call # 0
      PROVE  StrangerInv'
  <2>1. call' = call + 1 /\ pc' = "u.send" /\ batch' = b
    BY <1>3 DEF Call
  <2>2. BatchOk(batch)'
    BY <1>3, <2>1 DEF BatchOk, ClickOk, CheckArg
  <2> QED
    BY <1>3, <2>1, <2>2, StrangerQuiet
<1>4. CASE StartClick
  <2>1. PICK b \in {"uia", "atspi"}, w \in {"daemon", "session1", "ssh"}, v \in {"pointer", "action", "hint", "query"} :
          /\ b = "atspi" => w = "ssh"
          /\ backend' = b /\ way' = w /\ via' = v /\ Call(FirstBatch(b, v))
    BY <1>4 DEF StartClick
  <2>2. pc = "main" /\ tree' \in Trees /\ UNCHANGED <<jobs, hits, cands, changes>>
    BY <1>4 DEF StartClick
  <2>3. call = 0 /\ jobs = <<>>
    BY <2>2 DEF StrangerInv, TreeKnown
  <2>4. pc' = "u.send" /\ call' = 1 /\ batch' = FirstBatch(b, v)
    BY <2>1, <2>3 DEF Call
  <2>5. TreeKnown'
    BY <1>0, <2>2, <2>4 DEF TreeKnown
  <2>6. JobsOk'
    BY <2>2, <2>3 DEF JobsOk
  <2>7. BatchKnown'
    <3>1. batch'.kind \notin {"check", "click"}
      BY <1>1, <2>4
    <3>2. BatchOk(batch)'
      BY <3>1 DEF BatchOk
    <3> QED
      BY <2>4, <3>2 DEF BatchKnown
  <2>8. StrangersAlike' /\ CandsKnown'
    BY <1>2, <2>2 DEF StrangerInv, StrangersAlike
  <2> QED
    BY <2>5, <2>6, <2>7, <2>8 DEF StrangerInv
<1>5. CASE UError
  <2>1. StepFails /\ UNCHANGED <<jobs, tree, changes, hits>> /\ pc = "u.error"
    BY <1>5 DEF UError
  <2>2. Fewer /\ call # 0
    BY <1>0, <2>1, FewerIf DEF StrangerInv, TreeKnown
  <2>3. CASE try > 0
    <3>1. Call(FirstBatch(backend, via)) /\ cands' = <<>>
      BY <2>1, <2>3 DEF StepFails
    <3>2. CandsKnown'
      <4>1. <<>> \in Seq(Held) /\ DOMAIN cands' = {}
        BY <3>1
      <4> QED
        BY <3>1, <4>1 DEF CandsKnown
    <3> QED
      BY <1>1, <1>3, <2>1, <2>2, <3>1, <3>2
  <2>4. CASE ~(try > 0)
    <3>1. UNCHANGED <<cands, call>> /\ pc' = "exited"
      BY <2>1, <2>4 DEF StepFails
    <3> QED
      BY <1>2, <2>1, <2>2, <3>1, StrangerQuiet
  <2> QED
    BY <2>3, <2>4
<1>6. CASE EnsureSetup \/ Refused \/ Deploy \/ NeverReady
  <2>1. /\ pc = "u.send" /\ pc' \in {"u.send", "u.error"} /\ UNCHANGED <<call, batch, cands, tree, changes, hits>>
        /\ jobs' = <<>> \/ UNCHANGED jobs
    BY <1>6 DEF EnsureSetup, Refused, Deploy, NeverReady
  <2>2. Fewer /\ call # 0
    BY <1>0, <2>1, FewerIf DEF StrangerInv, TreeKnown
  <2> QED
    BY <1>2, <2>1, <2>2, StrangerQuiet
<1>7. CASE Connect \/ RunRemote \/ Status255
  <2>1. /\ UNCHANGED <<call, batch, cands, tree, changes, hits>> /\ pc \in {"u.send", "u.wait"}
        /\ \/ jobs' = Append(jobs, Job) /\ pc' = "u.wait"
           \/ UNCHANGED jobs /\ pc' = "u.error"
    BY <1>7 DEF Connect, RunRemote, Status255
  <2>2. call # 0
    BY <2>1 DEF StrangerInv, TreeKnown
  <2>3. CASE jobs' = Append(jobs, Job) /\ pc' = "u.wait"
    BY <2>1, <2>2, <2>3, StrangerSends
  <2>4. CASE UNCHANGED jobs /\ pc' = "u.error"
    BY <1>0, <1>2, <2>1, <2>2, <2>4, FewerIf, StrangerQuiet
  <2> QED
    BY <2>1, <2>3, <2>4
<1>8. CASE NoAnswer
  <2>1. pc = "u.wait" /\ pc' = "u.error" /\ UNCHANGED <<call, cands, jobs, tree, changes, hits>>
    BY <1>8 DEF NoAnswer
  <2>2. Fewer /\ call # 0
    BY <1>0, <2>1, FewerIf DEF StrangerInv, TreeKnown
  <2> QED
    BY <1>2, <2>1, <2>2, StrangerQuiet
<1>9. CASE PressButton
  <2>1. pc = "u.press" /\ pc' = "exited" /\ UNCHANGED <<call, batch, cands, jobs, tree, changes>> /\ hits' = Press(call, batch.arg)
    BY <1>9 DEF PressButton, StepDone
  <2>2. ClickOk(batch.arg)
    BY <2>1 DEF StrangerInv, BatchKnown, BatchOk
  <2>3. PICK a, c : a = batch.arg /\ c = call
    OBVIOUS
  <2>4. \A h \in Press(c, a) : h \in hits \/ Innocent(h)
    BY <2>2, <2>3, PressInnocent
  <2>5. StrangersAlike'
    BY <2>1, <2>3, <2>4 DEF StrangerInv, StrangersAlike, Innocent
  <2>6. BatchKnown' /\ TreeKnown' /\ CandsKnown'
    BY <1>2, <2>1 DEF BatchKnown, TreeKnown, StrangerInv
  <2>7. JobsOk'
    BY <2>1 DEF StrangerInv, JobsOk, JobOk, AtOk, ClickOk, CheckArg
  <2> QED
    BY <2>5, <2>6, <2>7 DEF StrangerInv
<1>10. CASE Lost
  <2>1. UNCHANGED <<pc, call, batch, cands, tree, changes, hits>> /\ (jobs' = <<>> \/ UNCHANGED jobs)
    BY <1>10 DEF Lost
  <2>2. Fewer
    BY <1>0, <2>1, FewerIf
  <2>3. call # 0 \/ jobs' = <<>>
    BY <2>1 DEF StrangerInv, TreeKnown
  <2> QED
    BY <1>2, <2>1, <2>2, <2>3, StrangerQuiet
<1>11. ASSUME NEW i \in DOMAIN jobs, Found(i) \/ FoundAll(i) \/ Checked(i) \/ Clicked(i) \/ Acted(i)
       PROVE  StrangerInv'
  <2>1. Answers(i)
    BY <1>11 DEF Found, FoundAll, Checked, Clicked, Acted
  <2>2. pc = "u.wait" /\ Mine(i) /\ UNCHANGED <<tree, changes, hits>> /\ Fewer /\ call # 0
    BY <1>0, <2>1, FewerIf DEF Answers, StrangerInv, TreeKnown
  <2>3. JobOk(jobs[i])
    BY DEF StrangerInv, JobsOk
  <2>4. ASSUME StepDone \/ NoTarget PROVE StrangerInv'
    BY <1>2, <2>2, <2>4, StrangerQuiet DEF StepDone, NoTarget
  <2>5. ASSUME NEW b, More(b), BatchOk(b), CandsKnown' PROVE StrangerInv'
    BY <1>3, <2>2, <2>5 DEF More
  <2>6. ASSUME NEW cs \in Seq(Held), \A k \in DOMAIN cs : cs[k].node.point # NoPoint, TryNext(cs)
        PROVE  StrangerInv'
    <3>1. CASE cs = <<>>
      BY <2>4, <2>6, <3>1 DEF TryNext
    <3>2. CASE cs # <<>>
      <4>1. Head(cs) \in Held /\ Head(cs).node.point # NoPoint
        BY <2>6, <3>2
      <4>2. More(CheckPoint(Head(cs), FALSE)) /\ cands' = Tail(cs)
        BY <2>6, <3>2 DEF TryNext
      <4>3. CandsKnown'
        <5>1. Tail(cs) \in Seq(Held) /\ \A k \in DOMAIN Tail(cs) : k + 1 \in DOMAIN cs /\ Tail(cs)[k] = cs[k + 1]
          BY <3>2
        <5> QED
          BY <2>6, <4>2, <5>1 DEF CandsKnown
      <4> QED
        BY <2>5, <4>1, <4>2, <4>3, CheckPointOk
    <3> QED
      BY <3>1, <3>2
  <2>7. \A x : BatchOk([kind |-> "find", arg |-> x]) /\ BatchOk(Act)
    BY DEF BatchOk, Act
  <2>8. CASE Found(i)
    <3> DEFINE f == jobs[i].found
    <3>1. CASE via = "query"
      BY <2>4, <2>8, <3>1 DEF Found
    <3>2. CASE via # "query" /\ ~f.ok
      BY <2>4, <2>8, <3>2 DEF Found
    <3>3. CASE f.ok /\ via = "hint"
      <4>1. NoTarget \/ (More(Act) /\ UNCHANGED cands)
        BY <2>8, <3>3 DEF Found
      <4> QED
        BY <1>2, <2>4, <2>5, <2>7, <4>1
    <3>4. CASE f.ok /\ via \notin {"query", "hint"}
      <4>1. NoTarget \/ (f.node.point # NoPoint /\ More(CheckPoint(f, batch.arg # Nothing)) /\ UNCHANGED cands)
        BY <2>8, <3>4 DEF Found
      <4>2. f \in Held
        BY <2>3, <3>4 DEF JobOk, Nothing
      <4>3. f.node.point # NoPoint => BatchOk(CheckPoint(f, batch.arg # Nothing))
        BY <4>2, CheckPointOk
      <4> HIDE DEF f
      <4> QED
        BY <1>2, <2>4, <2>5, <4>1, <4>3
    <3> QED
      BY <3>1, <3>2, <3>3, <3>4
  <2>9. CASE FoundAll(i)
    <3>1. PICK all : all = jobs[i].all
      OBVIOUS
    <3>2. all \in Seq(Held)
      BY <2>3, <3>1 DEF JobOk
    <3> DEFINE ns == {k \in DOMAIN all : all[k].node.point # NoPoint}
    <3>3. TryNext(Picked(all, ns))
      BY <2>9, <3>1 DEF FoundAll
    <3>4. Picked(all, ns) \in Seq({all[k] : k \in ns}) /\ Picked(all, ns) \in Seq(Held)
      BY <3>2, PickedIs
    <3>5. PICK cs : cs = Picked(all, ns)
      OBVIOUS
    <3>6. \A k \in DOMAIN cs : cs[k] \in {all[m] : m \in ns}
      <4>1. PICK S : S = {all[m] : m \in ns}
        OBVIOUS
      <4>2. cs \in Seq(S)
        BY <3>4, <3>5, <4>1
      <4>3. \A k \in DOMAIN cs : cs[k] \in S
        BY <4>2
      <4> QED
        BY <4>1, <4>3
    <3>7. \A k \in DOMAIN cs : cs[k].node.point # NoPoint
      BY <3>6
    <3> HIDE DEF ns
    <3> QED
      BY <2>6, <3>3, <3>4, <3>5, <3>7
  <2>10. CASE Checked(i)
    <3> DEFINE v     == jobs[i].at
               click == ClickOf(v, batch.arg)
    <3>1. batch.kind = "check"
      BY <2>10 DEF Checked
    <3>2. CASE v = Failed \/ (v.ok /\ ~Matches(v, batch.arg.target))
      <4>1. \/ TryNext(cands) \/ NoTarget
            \/ More([kind |-> "find", arg |-> [second |-> TRUE]]) /\ UNCHANGED cands
        BY <2>10, <3>2 DEF Checked
      <4>2. cands \in Seq(Held) /\ \A k \in DOMAIN cands : cands[k].node.point # NoPoint
        BY DEF StrangerInv, CandsKnown
      <4> QED
        BY <1>2, <2>4, <2>5, <2>6, <2>7, <4>1, <4>2
    <3>3. CASE v # Failed /\ (v.ok => Matches(v, batch.arg.target))
      <4>1. \/ More([kind |-> "click", arg |-> click]) /\ UNCHANGED cands
            \/ pc' = "u.press" /\ batch' = [kind |-> "click", arg |-> click] /\ UNCHANGED <<call, cands>>
        BY <2>10, <3>3 DEF Checked, ClickOf
      <4>2. ClickOk(click)
        BY <2>2, <3>1, <3>3, CheckedOk
      <4>3. PICK a : a = click
        OBVIOUS
      <4>4. BatchOk([kind |-> "click", arg |-> a])
        BY <4>2, <4>3 DEF BatchOk
      <4> HIDE DEF click
      <4>5. CASE More([kind |-> "click", arg |-> click]) /\ UNCHANGED cands
        BY <1>2, <2>5, <4>3, <4>4, <4>5
      <4>6. CASE pc' = "u.press" /\ batch' = [kind |-> "click", arg |-> click] /\ UNCHANGED <<call, cands>>
        <5>1. batch' = [kind |-> "click", arg |-> a]
          BY <4>3, <4>6
        <5>2. BatchOk([kind |-> "click", arg |-> a])'
          BY <2>2, <4>4 DEF BatchOk, ClickOk, CheckArg
        <5>3. BatchOk(batch)' /\ batch'.kind = "click"
          BY <5>1, <5>2 DEF BatchOk, ClickOk, CheckArg
        <5> QED
          BY <1>2, <2>2, <4>6, <5>3, StrangerQuiet
      <4> QED
        BY <4>1, <4>5, <4>6
    <3> QED
      BY <3>2, <3>3
  <2>11. CASE Clicked(i) \/ Acted(i)
    BY <2>4, <2>11 DEF Clicked, Acted
  <2> QED
    BY <1>11, <2>8, <2>9, <2>10, <2>11
<1>12. CASE Works
  BY <1>12, StrangerWorks
<1>13. CASE Changes
  BY <1>13, StrangerChanges
<1> QED
  BY <1>4, <1>5, <1>6, <1>7, <1>8, <1>9, <1>10, <1>11, <1>12, <1>13 DEF UNext, UMain

-----------------------------------------------------------------------------
(* the vision model *)

Endings == {"verdict", "success", "votes", "point", "error"}
VPlaces == {"v.lookup", "v.call", "v.reply", "v.raised", "v.point", "v.nopoint", "v.verdict", "v.turn", "v.settle"}

\* what is under way at each place
Placed == /\ pc = "main" => samples = <<>>
          /\ pc \in {"v.lookup", "v.verdict"} => mode \in {"verify", "crop", "agent"}
          /\ pc \in {"v.point", "v.nopoint"}  => mode \in {"localize", "localize_verified", "agent"}
          /\ pc \in {"v.turn", "v.settle"}    => mode = "agent"
          /\ pc \in VPlaces => image \in Images
          /\ result.kind \in Endings => pc = "exited"
\* votes, and points of the screen
Sampling == /\ mode = "localize_consistent" => samples \in Seq(0..Width)
            /\ mode = "verify_consistent"   => samples \in Seq(BOOLEAN)
Pointing == point \in 0..Width /\ (result.kind = "point" => OnScreen(result.x))
Voting   == result.kind = "votes" => Cardinality({i \in 1..3 : result.votes[i] = result.verdict}) >= 2
\* a row of the cache is no younger than the answer that it holds
Recent(i, v) == given[i][v] >= 0 /\ given[i][v] >= hour - TTL
Row(i)   == /\ cache[i].verdict \in BOOLEAN /\ cache[i].at \in 0..hour
            /\ given[i][cache[i].verdict] >= cache[i].at
Rows     == /\ hour \in Nat /\ DOMAIN cache = Images /\ given \in [Images -> [BOOLEAN -> Int]]
            /\ \A i \in Images : cache[i] = NoVerdict \/ Row(i)
Saying   == /\ pc = "v.verdict" => Said \in BOOLEAN /\ Recent(image, Said)
            /\ result.kind \in {"verdict", "success"} => Recent(result.image, result.verdict)
\* after q rounds over the endpoints and r more attempts: those of this round failed once more
Asked(r) == {(primary + k) % Endpoints : k \in 0..(r - 1)}
TriedSoFar(q, r) == \A e \in 0..(Endpoints - 1) : tried[e] = IF e \in Asked(r) THEN q + 1 ELSE q
Rounds   == \E q \in 0..3, r \in 0..(Endpoints - 1) :
               tries = q * Endpoints + r /\ (q = 3 => r = 0) /\ TriedSoFar(q, r)
Thrice   == [e \in 0..(Endpoints - 1) |-> 3]
Trying   == /\ primary \in 0..(Endpoints - 1) /\ tried \in [0..(Endpoints - 1) -> Nat]
            /\ pc = "v.call" => Rounds
            /\ pc \in {"main"} \cup (VPlaces \ {"v.call"}) => tries = 0
            /\ pc \in {"main"} \cup (VPlaces \ {"v.call", "v.raised"}) => tried = Untried
            /\ pc = "v.raised" => tried \in {Untried, Thrice}
            /\ result.kind = "error" /\ result.why = "exhausted" => tried = Thrice
SoundInv == Placed /\ Sampling /\ Pointing /\ Voting /\ Rows /\ Saying /\ Trying

LEMMA PlacedStep ==
  ASSUME Placed, StartVlm \/ VNext
  PROVE  Placed'
<1> USE DEF At, Goto, Exit, Placed, Store, counters, process, Endings, VPlaces
<1>1. CASE StartVlm
  BY <1>1 DEF StartVlm, Modes, First
<1>2. CASE Lookup \/ Replies \/ FailsOver \/ RaisesVlm \/ GivesUp
  BY <1>2 DEF Lookup, Replies, FailsOver, RaisesVlm, GivesUp, Asking
<1>3. CASE PointAnswered \/ PointRaises
  BY <1>3 DEF PointAnswered, PointRaises, Localizing, Shoot, Again
<1>4. CASE Localized \/ NotLocalized
  BY <1>4 DEF Localized, NotLocalized, Ends, NoResult
<1>5. CASE Sampled \/ Voted
  BY <1>5 DEF Sampled, Voted, Ends
<1>6. CASE Answered
  BY <1>6 DEF Answered, Verifying
<1>7. CASE Decided \/ Raised
  BY <1>7 DEF Decided, Raised, Ends, NoResult
<1>8. CASE Turn \/ Chosen \/ Settle
  BY <1>8 DEF Turn, Chosen, Settle, Agent, Ends, NoResult
<1>9. CASE OtherPuts \/ TimeGoesOn
  BY <1>9 DEF OtherPuts, TimeGoesOn
<1> QED
  BY <1>1, <1>2, <1>3, <1>4, <1>5, <1>6, <1>7, <1>8, <1>9 DEF VNext, VMain

LEMMA PixelIs ==
  ASSUME NEW x \in Coords
  PROVE  OnScreen(Pixel(x)) => Pixel(x) \in 0..Width
<1>1. x \in Int /\ Width \in Nat
  BY VlmAssumption
<1>2. Pixel(x) \in Int
  <2>1. x * Width \in Int /\ -x * Width \in Int
    BY <1>1
  <2> DEFINE a == x * Width
             b == -x * Width
  <2>2. a \in Int /\ b \in Int
    BY <2>1
  <2> HIDE DEF a, b
  <2>3. a \div 1000 \in Int /\ -(b \div 1000) \in Int
    BY <2>2
  <2> QED
    BY <1>1, <2>3 DEF Pixel, a, b
<1> QED
  BY <1>1, <1>2 DEF OnScreen

\* the third sample of a round: a centroid, another round, or the end
LEMMA SampledIs ==
  ASSUME Sampled, Sampling
  PROVE  /\ mode = "localize_consistent" /\ UNCHANGED mode
         /\ samples' \in Seq(0..Width)
         /\ \/ UNCHANGED <<point, result>>
            \/ result' = [kind |-> "error", why |-> "point"] /\ UNCHANGED point
            \/ point' \in 0..Width /\ result' = [kind |-> "point", x |-> point']
<1>1. mode = "localize_consistent" /\ UNCHANGED mode
  BY DEF Sampled
<1>2. samples \in Seq(0..Width) /\ <<>> \in Seq(0..Width)
  BY <1>1 DEF Sampling
<1>3. PICK x \in Coords :
       IF ~OnScreen(Pixel(x)) THEN Ends([kind |-> "error", why |-> "point"]) /\ UNCHANGED <<samples, round, point>>
       ELSE IF Len(samples) < 2 THEN samples' = Append(samples, Pixel(x)) /\ Goto("v.call") /\ UNCHANGED <<round, point, result>>
       ELSE LET all   == Append(samples, Pixel(x))
                mean  == (all[1] + all[2] + all[3]) \div 3
                close == \A p \in ToSet(all) : p - mean <= 50 /\ mean - p <= 50 IN
            IF close THEN point' = mean /\ Ends([kind |-> "point", x |-> mean]) /\ samples' = <<>> /\ UNCHANGED round
            ELSE IF round = 0 THEN samples' = <<>> /\ round' = 1 /\ Goto("v.call") /\ UNCHANGED <<point, result>>
            ELSE samples' = <<>> /\ Ends([kind |-> "error", why |-> "point"]) /\ UNCHANGED <<point, round>>
  BY DEF Sampled
<1>4. CASE ~OnScreen(Pixel(x))
  BY <1>1, <1>2, <1>3, <1>4 DEF Ends
<1>5. CASE OnScreen(Pixel(x))
  <2> DEFINE all  == Append(samples, Pixel(x))
             mean == (all[1] + all[2] + all[3]) \div 3
  <2>1. all \in Seq(0..Width) /\ Len(all) = Len(samples) + 1
    BY <1>2, <1>5, PixelIs
  <2>2. CASE Len(samples) < 2
    BY <1>1, <1>3, <1>5, <2>1, <2>2
  <2>3. CASE ~(Len(samples) < 2)
    <3>1. mean \in 0..Width
      <4>1. all[1] \in 0..Width /\ all[2] \in 0..Width /\ all[3] \in 0..Width
        <5>1. Len(all) >= 3 /\ Len(samples) \in Nat
          BY <1>2, <2>1, <2>3
        <5>2. PICK s, S : s = all /\ S = 0..Width
          OBVIOUS
        <5>3. s \in Seq(S) /\ Len(s) >= 3
          BY <2>1, <5>1, <5>2
        <5>4. s[1] \in S /\ s[2] \in S /\ s[3] \in S
          BY <5>3
        <5> QED
          BY <5>2, <5>4
      <4> HIDE DEF all
      <4>2. PICK a, b, c : a = all[1] /\ b = all[2] /\ c = all[3]
        OBVIOUS
      <4>3. a \in Nat /\ a <= Width /\ b \in Nat /\ b <= Width /\ c \in Nat /\ c <= Width /\ Width \in Nat
        BY <4>1, <4>2, VlmAssumption
      <4>4. (a + b + c) \div 3 \in 0..Width
        BY <4>3
      <4> QED
        BY <4>2, <4>4
    <3>2. \/ point' = mean /\ result' = [kind |-> "point", x |-> mean] /\ samples' = <<>>
          \/ samples' = <<>> /\ UNCHANGED <<point, result>>
          \/ samples' = <<>> /\ result' = [kind |-> "error", why |-> "point"] /\ UNCHANGED point
      BY <1>3, <1>5, <2>3 DEF Ends
    <3> HIDE DEF mean
    <3> QED
      BY <1>1, <1>2, <3>1, <3>2
  <2> QED
    BY <2>2, <2>3
<1> QED
  BY <1>4, <1>5

LEMMA SamplingStep ==
  ASSUME Placed, Sampling, StartVlm \/ VNext
  PROVE  Sampling'
<1> USE DEF At, Placed, Sampling, Store, counters, process
<1>0. <<>> \in Seq(0..Width) /\ <<>> \in Seq(BOOLEAN)
  OBVIOUS
<1>1. CASE StartVlm
  BY <1>0, <1>1 DEF StartVlm
<1>2. CASE Lookup
  BY <1>2 DEF Lookup
<1>3. CASE Replies \/ FailsOver \/ RaisesVlm \/ GivesUp
  BY <1>3 DEF Replies, FailsOver, RaisesVlm, GivesUp, Asking
<1>4. CASE PointAnswered \/ PointRaises
  BY <1>4 DEF PointAnswered, PointRaises, Localizing, Shoot, Again
<1>5. CASE Localized \/ NotLocalized
  BY <1>5 DEF Localized, NotLocalized
<1>6. CASE Sampled
  BY <1>6, SampledIs
<1>7. CASE Voted
  <2>1. mode = "verify_consistent" /\ mode' = mode /\ samples \in Seq(BOOLEAN)
    BY <1>7 DEF Voted
  <2>2. PICK v \in BOOLEAN : samples' = Append(samples, v) \/ samples' = <<>>
    BY <1>7 DEF Voted
  <2>3. Append(samples, v) \in Seq(BOOLEAN)
    BY <2>1
  <2>4. samples' \in Seq(BOOLEAN)
    BY <1>0, <2>2, <2>3
  <2> QED
    BY <2>1, <2>4
<1>8. CASE Answered \/ Decided
  <2>1. mode \in {"verify", "crop", "agent"} /\ mode' = mode
    BY <1>8 DEF Answered, Decided, Verifying
  <2> QED
    BY <2>1
<1>9. CASE Raised \/ Turn \/ Chosen \/ Settle \/ OtherPuts \/ TimeGoesOn
  BY <1>9 DEF Raised, Turn, Chosen, Settle, Agent, OtherPuts, TimeGoesOn
<1> QED
  BY <1>1, <1>2, <1>3, <1>4, <1>5, <1>6, <1>7, <1>8, <1>9 DEF VNext, VMain

LEMMA PointingStep ==
  ASSUME Placed, Sampling, Pointing, StartVlm \/ VNext
  PROVE  Pointing'
<1> USE DEF At, Pointing, Store, counters, process
<1>1. CASE Sampled
  BY <1>1, SampledIs, VlmAssumption DEF OnScreen
<1>2. CASE PointAnswered
  <2>1. UNCHANGED point \/ \E x \in Coords : OnScreen(Pixel(x)) /\ point' = Pixel(x)
    BY <1>2 DEF PointAnswered
  <2>2. UNCHANGED result
    BY <1>2 DEF PointAnswered, Shoot, Again
  <2> QED
    BY <2>1, <2>2, PixelIs
<1>3. CASE PointRaises
  BY <1>3 DEF PointRaises, Shoot, Again
<1>4. CASE StartVlm \/ Lookup \/ Replies \/ FailsOver \/ RaisesVlm \/ GivesUp \/ Answered \/ OtherPuts \/ TimeGoesOn
  BY <1>4 DEF StartVlm, Lookup, Replies, FailsOver, RaisesVlm, GivesUp, Asking, Answered, OtherPuts, TimeGoesOn
<1>5. CASE Localized \/ NotLocalized \/ Decided \/ Raised \/ Turn \/ Chosen \/ Settle \/ Voted
  <2>1. UNCHANGED point
    BY <1>5 DEF Localized, NotLocalized, Decided, Raised, Turn, Chosen, Settle, Agent, Voted
  <2>2. result' = result \/ result'.kind # "point" \/ result' = [kind |-> "point", x |-> point]
    <3>1. CASE Localized \/ NotLocalized \/ Raised
      BY <3>1 DEF Localized, NotLocalized, Raised, Ends, NoResult
    <3>2. CASE Turn \/ Chosen \/ Settle
      BY <3>2 DEF Turn, Chosen, Settle, Agent, Ends, NoResult
    <3>3. CASE Decided
      BY <3>3 DEF Decided, Ends, NoResult
    <3>4. CASE Voted
      BY <3>4 DEF Voted, Ends
    <3> QED
      BY <1>5, <3>1, <3>2, <3>3, <3>4
  <2>3. OnScreen(point)
    BY VlmAssumption DEF OnScreen
  <2> QED
    BY <2>1, <2>2, <2>3
<1> QED
  BY <1>1, <1>2, <1>3, <1>4, <1>5 DEF VNext, VMain

LEMMA Majority ==
  ASSUME NEW v, \A i \in 1..3 : v[i] \in BOOLEAN
  PROVE  LET yes == Cardinality({i \in 1..3 : v[i]})
             no  == Cardinality({i \in 1..3 : ~v[i]})
         IN  Cardinality({i \in 1..3 : v[i] = (yes > no)}) >= 2
<1> DEFINE Y == {i \in 1..3 : v[i]}
           N == {i \in 1..3 : ~v[i]}
<1>1. 1 \in Int /\ 3 \in Int
  OBVIOUS
<1>2. IsFiniteSet(1..3) /\ Cardinality(1..3) = 3
  <2>1. IsFiniteSet(1..3) /\ Cardinality(1..3) = IF 1 > 3 THEN 0 ELSE 3 - 1 + 1
    BY <1>1, FS_Interval
  <2> QED
    BY <2>1
<1>3. IsFiniteSet(Y) /\ IsFiniteSet(N)
  BY <1>2, FS_Subset
<1>4. Y \cup N = 1..3 /\ Y \cap N = {}
  OBVIOUS
<1>5. Cardinality(Y \cup N) = Cardinality(Y) + Cardinality(N) - Cardinality(Y \cap N)
  BY <1>3, FS_Union
<1>6. Cardinality(Y) \in Nat /\ Cardinality(N) \in Nat /\ Cardinality({}) = 0
  BY <1>3, FS_CardinalityType, FS_EmptySet
<1>8. {i \in 1..3 : v[i] = TRUE} = Y
  OBVIOUS
<1>9. {i \in 1..3 : v[i] = FALSE} = N
  OBVIOUS
<1> DEFINE y == Cardinality(Y)
           n == Cardinality(N)
<1> HIDE DEF Y, N
<1>7. y + n = 3
  <2>1. Cardinality(Y \cup N) = 3
    BY <1>2, <1>4
  <2>2. Cardinality(Y \cap N) = 0
    BY <1>4, <1>6
  <2>3. y \in Nat /\ n \in Nat
    BY <1>6
  <2> QED
    BY <1>5, <2>1, <2>2, <2>3
<1>10. CASE y > n
  <2>1. (y > n) = TRUE
    BY <1>10
  <2>2. y >= 2
    BY <1>6, <1>7, <1>10
  <2>3. {i \in 1..3 : v[i] = (y > n)} = Y
    BY <1>8, <2>1
  <2> QED
    BY <2>2, <2>3 DEF Y, N
<1>11. CASE ~(y > n)
  <2>1. (y > n) = FALSE
    BY <1>11
  <2>2. n >= 2
    BY <1>6, <1>7, <1>11
  <2>3. {i \in 1..3 : v[i] = (y > n)} = N
    BY <1>9, <2>1
  <2> QED
    BY <2>2, <2>3 DEF Y, N
<1> QED
  BY <1>10, <1>11

LEMMA VotingStep ==
  ASSUME Placed, Sampling, Voting, StartVlm \/ VNext
  PROVE  Voting'
<1> USE DEF At, Store, counters, process
<1>1. CASE Voted
  <2>1. PICK v \in BOOLEAN :
          LET votes == Append(samples, v) IN
          IF Len(votes) < 3 THEN samples' = votes /\ Goto("v.call") /\ UNCHANGED result
          ELSE /\ samples' = <<>>
               /\ Ends([kind |-> "votes", votes |-> votes,
                        verdict |-> Cardinality({i \in 1..3 : votes[i]}) > Cardinality({i \in 1..3 : ~votes[i]})])
    BY <1>1 DEF Voted
  <2>2. samples \in Seq(BOOLEAN)
    BY <1>1 DEF Voted, Sampling
  <2>3. PICK votes : votes = Append(samples, v)
    OBVIOUS
  <2>4. votes \in Seq(BOOLEAN)
    BY <2>2, <2>3
  <2>5. CASE Len(votes) < 3
    BY <2>1, <2>3, <2>5 DEF Voting
  <2>6. CASE ~(Len(votes) < 3)
    <3> DEFINE yes == Cardinality({i \in 1..3 : votes[i]})
               no  == Cardinality({i \in 1..3 : ~votes[i]})
    <3>1. \A i \in 1..3 : votes[i] \in BOOLEAN
      BY <2>4, <2>6
    <3>2. Cardinality({i \in 1..3 : votes[i] = (yes > no)}) >= 2
      BY <3>1, Majority
    <3>3. result' = [kind |-> "votes", votes |-> votes, verdict |-> yes > no]
      BY <2>1, <2>3, <2>6 DEF Ends
    <3> HIDE DEF yes, no
    <3>4. result'.votes = votes /\ result'.verdict = (yes > no)
      BY <3>3
    <3> QED
      BY <3>2, <3>4 DEF Voting
  <2> QED
    BY <2>5, <2>6
<1>2. CASE StartVlm \/ Lookup \/ Replies \/ FailsOver \/ RaisesVlm \/ GivesUp \/ Answered \/ OtherPuts \/ TimeGoesOn
  BY <1>2 DEF StartVlm, Lookup, Replies, FailsOver, RaisesVlm, GivesUp, Asking, Answered, OtherPuts, TimeGoesOn, Voting
<1>3. CASE PointAnswered \/ PointRaises
  BY <1>3 DEF PointAnswered, PointRaises, Shoot, Again, Voting
<1>4. CASE Localized \/ NotLocalized \/ Decided \/ Raised \/ Turn \/ Chosen \/ Settle \/ Sampled
  <2>1. result' = result \/ result'.kind # "votes"
    BY <1>4, SampledIs DEF Localized, NotLocalized, Decided, Raised, Turn, Chosen, Settle, Agent, Ends, NoResult
  <2> QED
    BY <2>1 DEF Voting
<1> QED
  BY <1>1, <1>2, <1>3, <1>4 DEF VNext, VMain

\* a verdict is given now, and put into the cache
LEMMA GivenNow ==
  ASSUME Rows, NEW i \in Images, NEW v \in BOOLEAN, UNCHANGED hour,
         cache' = [cache EXCEPT ![i] = [verdict |-> v, at |-> hour]], Told(i, v, hour)
  PROVE  Rows' /\ Recent(i, v)'
<1>1. hour \in 0..hour
  BY DEF Rows
<1>2. given' = [given EXCEPT ![i][v] = hour]
  BY DEF Told
<1>3. given' \in [Images -> [BOOLEAN -> Int]] /\ given'[i][v] = hour
  BY <1>1, <1>2 DEF Rows
<1>4. \A j \in Images, w \in BOOLEAN : given'[j][w] = IF j = i /\ w = v THEN hour ELSE given[j][w]
  BY <1>2 DEF Rows
<1>5. ASSUME NEW j \in Images PROVE cache'[j] = NoVerdict \/ Row(j)'
  <2>1. CASE j = i
    BY <1>1, <1>3, <2>1 DEF Rows, Row
  <2>2. CASE j # i
    BY <1>4, <2>2 DEF Rows, Row
  <2> QED
    BY <2>1, <2>2
<1>6. Rows'
  BY <1>1, <1>3, <1>5 DEF Rows
<1> QED
  BY <1>1, <1>3, <1>6, VlmAssumption DEF Recent, Rows

LEMMA SayingStep ==
  ASSUME Placed, Sampling, Rows, Saying, StartVlm \/ VNext
  PROVE  Rows' /\ Saying'
<1> USE DEF At, Goto, Exit, Store, counters, process
<1>0. pc \in VPlaces \cup {"main"} => result.kind \notin Endings
  BY DEF Placed, VPlaces
<1>1. ASSUME UNCHANGED <<hour, cache, given>> PROVE Rows'
  BY <1>1 DEF Rows, Row
<1>2. ASSUME UNCHANGED <<hour, cache, given, result>>, pc' # "v.verdict" PROVE Rows' /\ Saying'
  BY <1>1, <1>2 DEF Saying, Recent
<1>3. ASSUME UNCHANGED <<hour, cache, given>>, pc' # "v.verdict", result'.kind \notin {"verdict", "success"} PROVE Rows' /\ Saying'
  BY <1>1, <1>3 DEF Saying
<1>4. CASE StartVlm \/ Replies \/ FailsOver \/ RaisesVlm \/ GivesUp
  BY <1>2, <1>4 DEF StartVlm, Modes, First, Replies, FailsOver, RaisesVlm, GivesUp, Asking
<1>5. CASE PointAnswered \/ PointRaises
  BY <1>2, <1>5 DEF PointAnswered, PointRaises, Shoot, Again
<1>6. CASE Localized \/ NotLocalized \/ Raised \/ Turn \/ Chosen \/ Settle \/ Sampled \/ Voted
  <2>1. UNCHANGED <<hour, cache, given>> /\ pc' # "v.verdict"
    BY <1>6 DEF Localized, NotLocalized, Raised, Turn, Chosen, Settle, Agent, Sampled, Voted, Ends
  <2>2. result' = result \/ result'.kind \notin {"verdict", "success"}
    <3>1. CASE Localized \/ NotLocalized \/ Raised
      BY <3>1 DEF Localized, NotLocalized, Raised, Ends, NoResult
    <3>2. CASE Turn \/ Chosen \/ Settle
      BY <3>2 DEF Turn, Chosen, Settle, Agent, Ends, NoResult
    <3>3. CASE Sampled
      BY <3>3, SampledIs
    <3>4. CASE Voted
      BY <3>4 DEF Voted, Ends
    <3> QED
      BY <1>6, <3>1, <3>2, <3>3, <3>4
  <2> QED
    BY <1>2, <1>3, <2>1, <2>2
<1>7. CASE Lookup
  <2>1. /\ image \in Images /\ UNCHANGED <<image, hour, cache, given, result>> /\ result.kind \notin Endings
        /\ pc' = "v.verdict" => Young(cache[image]) /\ samples' = <<cache[image].verdict>>
    BY <1>0, <1>7 DEF Lookup, Placed, VPlaces
  <2>2. Rows'
    BY <1>1, <2>1
  <2>3. ASSUME pc' = "v.verdict" PROVE Said' \in BOOLEAN /\ Recent(image, Said)'
    <3>1. cache[image] # NoVerdict /\ cache[image].at >= hour - TTL
      BY <2>1, <2>3 DEF Young
    <3>2. Row(image)
      BY <2>1, <3>1 DEF Rows
    <3>3. Said' = cache[image].verdict
      BY <2>1, <2>3 DEF Said
    <3>4. given[image][cache[image].verdict] \in Int
      BY <2>1, <3>2 DEF Rows, Row
    <3>5. Recent(image, cache[image].verdict)
      BY <3>1, <3>2, <3>4, VlmAssumption DEF Row, Recent, Rows
    <3> QED
      BY <2>1, <3>2, <3>3, <3>5 DEF Row, Recent
  <2> QED
    BY <2>1, <2>2, <2>3 DEF Saying, Endings
<1>8. CASE Answered
  <2>1. PICK v \in BOOLEAN : /\ samples' = <<v>>
                            /\ cache' = [cache EXCEPT ![image] = [verdict |-> v, at |-> hour]]
                            /\ Told(image, v, hour)
    BY <1>8 DEF Answered
  <2>2. UNCHANGED <<image, hour, result>> /\ image \in Images /\ result.kind \notin Endings
    BY <1>0, <1>8 DEF Answered, Placed, VPlaces
  <2>3. PICK i \in Images : i = image
    BY <2>2
  <2>4. Rows' /\ Recent(i, v)'
    BY <2>1, <2>2, <2>3, GivenNow
  <2>5. Said' = v
    BY <2>1 DEF Said
  <2> QED
    BY <2>2, <2>3, <2>4, <2>5 DEF Saying, Endings, Recent
<1>9. CASE OtherPuts
  <2>1. PICK v \in BOOLEAN : cache' = [cache EXCEPT ![image] = [verdict |-> v, at |-> hour]] /\ Told(image, v, hour)
    BY <1>9 DEF OtherPuts
  <2>2. UNCHANGED <<image, hour, result, pc>> /\ image \in Images /\ result.kind \notin Endings /\ pc # "v.verdict"
    BY <1>0, <1>9 DEF OtherPuts, Placed, VPlaces
  <2>3. PICK i \in Images : i = image
    BY <2>2
  <2>4. Rows'
    BY <2>1, <2>2, <2>3, GivenNow
  <2> QED
    BY <2>2, <2>4 DEF Saying, Endings
<1>10. CASE TimeGoesOn
  <2>1. hour' = hour + 1 /\ UNCHANGED <<result, pc, cache, given>> /\ result.kind \notin Endings /\ pc # "v.verdict"
    BY <1>0, <1>10 DEF TimeGoesOn, VPlaces
  <2>2. Rows'
    BY <2>1 DEF Rows, Row
  <2> QED
    BY <2>1, <2>2 DEF Saying, Endings
<1>11. CASE Decided
  <2>1. pc = "v.verdict" /\ pc' # "v.verdict" /\ UNCHANGED <<hour, cache, given>>
    BY <1>11 DEF Decided, Ends
  <2>2. \/ result'.kind \notin {"verdict", "success"}
        \/ result'.verdict = Said /\ result'.image = image
        \/ Said /\ result'.verdict = TRUE /\ result'.image = image
    BY <1>11 DEF Decided, Ends, NoResult
  <2>3. Said \in BOOLEAN /\ Recent(image, Said)
    BY <2>1 DEF Saying
  <2>4. result'.kind \in {"verdict", "success"} => result'.verdict = Said /\ result'.image = image
    BY <2>2, <2>3
  <2> QED
    BY <1>1, <2>1, <2>3, <2>4 DEF Saying, Recent
<1> QED
  BY <1>4, <1>5, <1>6, <1>7, <1>8, <1>9, <1>10, <1>11 DEF VNext, VMain

-----------------------------------------------------------------------------
(* the endpoints in turn *)

LEMMA Around ==
  ASSUME NEW N \in Nat \ {0}, NEW p \in 0..(N - 1), NEW k \in 0..(N - 1)
  PROVE  (p + k) % N = IF p + k < N THEN p + k ELSE p + k - N
OBVIOUS

LEMMA Division ==
  ASSUME NEW N \in Nat \ {0}, NEW b \in Nat
  PROVE  /\ b % N \in 0..(N - 1) /\ b \div N \in Int
         /\ b = N * (b \div N) + (b % N)
<1>1. N \in Int /\ N > 0 /\ b \in Int
  OBVIOUS
<1>2. b % N \in 0..(N - 1)
  BY <1>1
<1>3. b \div N \in Int
  BY <1>1
<1>4. b = N * (b \div N) + (b % N)
  BY <1>1, Z3
<1> QED
  BY <1>2, <1>3, <1>4

LEMMA Unique ==
  ASSUME NEW N \in Nat \ {0}, NEW c \in Int, NEW f \in Int, NEW d \in 0..(N - 1), NEW g \in 0..(N - 1),
         N * c + d = N * f + g
  PROVE  d = g
<1>1. CASE c = f
  BY <1>1
<1>2. CASE c > f
  <2>1. PICK x \in Nat : c = f + 1 + x
    <3>1. c - f - 1 \in Nat /\ c = f + 1 + (c - f - 1)
      BY <1>2
    <3> QED
      BY <3>1
  <2>2. N * c = N * f + N + N * x
    BY <2>1
  <2>3. N * x >= 0 /\ N * x \in Int /\ N * f \in Int
    OBVIOUS
  <2> QED
    BY <2>2, <2>3
<1>3. CASE f > c
  <2>1. PICK x \in Nat : f = c + 1 + x
    <3>1. f - c - 1 \in Nat /\ f = c + 1 + (f - c - 1)
      BY <1>3
    <3> QED
      BY <3>1
  <2>2. N * f = N * c + N + N * x
    BY <2>1
  <2>3. N * x >= 0 /\ N * x \in Int /\ N * c \in Int
    OBVIOUS
  <2> QED
    BY <2>2, <2>3
<1> QED
  BY <1>1, <1>2, <1>3

LEMMA Multiple ==
  ASSUME NEW N \in Nat \ {0}, NEW a \in Nat, NEW q \in 0..3
  PROVE  (a + q * N) % N = a % N
<1>1. ASSUME NEW b \in Nat PROVE (b + N) % N = b % N
  <2>1. b + N \in Nat
    OBVIOUS
  <2>2. PICK c, d : c = b \div N /\ d = (b + N) \div N
    OBVIOUS
  <2>3. /\ c \in Int /\ b = N * c + (b % N) /\ b % N \in 0..(N - 1)
        /\ d \in Int /\ b + N = N * d + ((b + N) % N) /\ (b + N) % N \in 0..(N - 1)
    BY <2>1, <2>2, Division
  <2>4. c + 1 \in Int /\ N * (c + 1) = N * c + N
    BY <2>3
  <2>5. N * (c + 1) + (b % N) = N * d + ((b + N) % N)
    BY <2>3, <2>4
  <2> QED
    BY <2>3, <2>4, <2>5, Unique
<1>2. /\ (a + N) % N = a % N
      /\ (a + N + N) % N = (a + N) % N
      /\ (a + N + N + N) % N = (a + N + N) % N
  <2>1. a + N \in Nat /\ a + N + N \in Nat
    OBVIOUS
  <2> QED
    BY <1>1, <2>1
<1>3. q \in {0, 1, 2, 3}
  OBVIOUS
<1>4. a + 0 * N = a /\ a + 1 * N = a + N /\ a + 2 * N = a + N + N /\ a + 3 * N = a + N + N + N
  OBVIOUS
<1> QED
  BY <1>2, <1>3, <1>4

LEMMA Circle ==
  ASSUME NEW N \in Nat \ {0}, NEW p \in 0..(N - 1)
  PROVE  /\ \A k \in 0..(N - 1) : (p + k) % N \in 0..(N - 1)
         /\ \A k, m \in 0..(N - 1) : (p + k) % N = (p + m) % N => k = m
         /\ \A e \in 0..(N - 1) : \E k \in 0..(N - 1) : (p + k) % N = e
<1>1. \A k \in 0..(N - 1) : (p + k) % N = IF p + k < N THEN p + k ELSE p + k - N
  BY Around
<1>2. ASSUME NEW e \in 0..(N - 1) PROVE \E k \in 0..(N - 1) : (p + k) % N = e
  <2>1. CASE e >= p
    <3>1. e - p \in 0..(N - 1) /\ p + (e - p) = e /\ e < N
      BY <2>1
    <3> QED
      BY <1>1, <3>1
  <2>2. CASE e < p
    <3>1. e - p + N \in 0..(N - 1) /\ p + (e - p + N) = e + N /\ ~(e + N < N) /\ e + N - N = e
      BY <2>2
    <3> QED
      BY <1>1, <3>1
  <2> QED
    BY <2>1, <2>2
<1> QED
  BY <1>1, <1>2

LEMMA NothingTried ==
  ASSUME tries' = 0, tried' = Untried
  PROVE  Rounds'
<1>1. 0 \in 0..3 /\ 0 \in 0..(Endpoints - 1) /\ 0 = 0 * Endpoints + 0
  BY VlmAssumption
<1>2. TriedSoFar(0, 0)'
  <2>1. 0..(0 - 1) = {}
    OBVIOUS
  <2> QED
    BY <2>1 DEF TriedSoFar, Asked, Untried
<1> QED
  BY <1>1, <1>2 DEF Rounds

\* one endpoint more has failed in this round, or the round is over
LEMMA OneMore ==
  ASSUME Trying, pc = "v.call", FailsOver
  PROVE  Rounds' /\ tried' \in [0..(Endpoints - 1) -> Nat]
<1>1. ~(tries >= 3 * Endpoints) /\ tries' = tries + 1 /\ tried' = [tried EXCEPT ![Endpoint] = @ + 1] /\ UNCHANGED primary
  BY DEF FailsOver, Exhausted
<1>2. Endpoints \in Nat \ {0} /\ primary \in 0..(Endpoints - 1) /\ tried \in [0..(Endpoints - 1) -> Nat]
  BY VlmAssumption DEF Trying
<1>3. PICK q \in 0..3, r \in 0..(Endpoints - 1) : tries = q * Endpoints + r /\ (q = 3 => r = 0) /\ TriedSoFar(q, r)
  BY DEF Trying, Rounds
<1>4. q \in 0..2
  BY <1>1, <1>2, <1>3
<1> DEFINE x == (primary + r) % Endpoints
<1>5. Endpoint = x
  <2>1. primary + tries = (primary + r) + q * Endpoints /\ primary + r \in Nat
    BY <1>2, <1>3
  <2>2. PICK a : a = primary + r
    OBVIOUS
  <2>3. (a + q * Endpoints) % Endpoints = a % Endpoints
    BY <1>2, <2>1, <2>2, Multiple
  <2> QED
    BY <2>1, <2>2, <2>3 DEF Endpoint
<1>6. /\ \A k \in 0..(Endpoints - 1) : (primary + k) % Endpoints \in 0..(Endpoints - 1)
      /\ \A k, m \in 0..(Endpoints - 1) : (primary + k) % Endpoints = (primary + m) % Endpoints => k = m
      /\ \A e \in 0..(Endpoints - 1) : \E k \in 0..(Endpoints - 1) : (primary + k) % Endpoints = e
  <2>1. PICK p : p = primary
    OBVIOUS
  <2> QED
    BY <1>2, <2>1, Circle
<1>7. x \in 0..(Endpoints - 1) /\ x \notin Asked(r)
  <2>1. \A k \in 0..(r - 1) : k \in 0..(Endpoints - 1) /\ k # r
    BY <1>2
  <2> QED
    BY <1>6, <2>1 DEF Asked
<1>8. Asked(r + 1) = Asked(r) \cup {x}
  <2>1. 0..(r + 1 - 1) = (0..(r - 1)) \cup {r}
    OBVIOUS
  <2> QED
    BY <2>1 DEF Asked
<1> HIDE DEF x
<1>9. /\ tried' \in [0..(Endpoints - 1) -> Nat]
      /\ \A e \in 0..(Endpoints - 1) : tried'[e] = IF e \in Asked(r + 1) THEN q + 1 ELSE q
  <2>1. \A e \in 0..(Endpoints - 1) : tried[e] = IF e \in Asked(r) THEN q + 1 ELSE q
    BY <1>3 DEF TriedSoFar
  <2>2. tried' = [tried EXCEPT ![x] = tried[x] + 1] /\ tried[x] = q
    BY <1>1, <1>5, <1>7, <2>1
  <2> QED
    BY <1>2, <1>7, <1>8, <2>1, <2>2
<1>10. CASE r + 1 < Endpoints
  <2>1. q \in 0..3 /\ r + 1 \in 0..(Endpoints - 1) /\ tries' = q * Endpoints + (r + 1) /\ q # 3
    BY <1>1, <1>2, <1>3, <1>4, <1>10
  <2>2. TriedSoFar(q, r + 1)'
    BY <1>1, <1>9 DEF TriedSoFar, Asked
  <2> QED
    BY <1>9, <2>1, <2>2 DEF Rounds
<1>11. CASE ~(r + 1 < Endpoints)
  <2>1. q + 1 \in 0..3 /\ 0 \in 0..(Endpoints - 1) /\ tries' = (q + 1) * Endpoints + 0 /\ r + 1 = Endpoints
    BY <1>1, <1>2, <1>3, <1>4, <1>11
  <2>2. \A e \in 0..(Endpoints - 1) : e \in Asked(r + 1)
    BY <1>6, <2>1 DEF Asked
  <2>3. TriedSoFar(q + 1, 0)'
    <3>1. 0..(0 - 1) = {}
      OBVIOUS
    <3> QED
      BY <1>9, <2>2, <3>1 DEF TriedSoFar, Asked
  <2> QED
    BY <1>9, <2>1, <2>3 DEF Rounds
<1> QED
  BY <1>10, <1>11

LEMMA TryingStep ==
  ASSUME Placed, Sampling, Trying, StartVlm \/ VNext
  PROVE  Trying'
<1> USE DEF At, Goto, Exit, Store, counters, process
<1>0. /\ pc \in VPlaces \cup {"main"} => result.kind \notin Endings
      /\ primary \in 0..(Endpoints - 1) /\ Untried \in [0..(Endpoints - 1) -> Nat]
      /\ Thrice \in [0..(Endpoints - 1) -> Nat]
  BY DEF Placed, VPlaces, Trying, Untried, Thrice
<1>1. ASSUME primary' \in 0..(Endpoints - 1), tries' = 0, tried' = Untried, pc' # "v.raised" \/ pc' = "v.raised",
             ~(result'.kind = "error" /\ result'.why = "exhausted")
      PROVE  Trying'
  BY <1>0, <1>1, NothingTried DEF Trying
<1>2. ASSUME pc \in (VPlaces \cup {"main"}) \ {"v.call", "v.raised"}, UNCHANGED <<primary, tries, tried>>,
             ~(result'.kind = "error" /\ result'.why = "exhausted")
      PROVE  Trying'
  BY <1>0, <1>1, <1>2 DEF Trying
<1>3. CASE StartVlm \/ Lookup \/ PointAnswered \/ Answered \/ OtherPuts \/ TimeGoesOn
  <2>1. pc \in (VPlaces \cup {"main"}) \ {"v.call", "v.raised"} /\ UNCHANGED <<primary, tries, tried, result>>
    BY <1>3 DEF StartVlm, Lookup, PointAnswered, Shoot, Again, Answered, OtherPuts, TimeGoesOn, VPlaces
  <2> QED
    BY <1>0, <1>2, <2>1 DEF Endings
<1>4. CASE Localized \/ NotLocalized \/ Voted \/ Decided
  <2>1. pc \in VPlaces \ {"v.call", "v.raised"} /\ UNCHANGED <<primary, tries, tried>>
    BY <1>4 DEF Localized, NotLocalized, Voted, Decided, VPlaces
  <2>2. result' = result \/ result'.kind # "error" \/ result'.why # "exhausted"
    <3>1. CASE Localized \/ NotLocalized
      BY <3>1 DEF Localized, NotLocalized, Ends, NoResult
    <3>2. CASE Voted
      BY <3>2 DEF Voted, Ends
    <3>3. CASE Decided
      BY <3>3 DEF Decided, Ends, NoResult
    <3> QED
      BY <1>4, <3>1, <3>2, <3>3
  <2> QED
    BY <1>0, <1>2, <2>1, <2>2 DEF Endings
<1>5. CASE Turn \/ Chosen \/ Settle
  <2>1. pc \in VPlaces \ {"v.call", "v.raised"} /\ UNCHANGED <<primary, tries, tried>>
    BY <1>5 DEF Turn, Chosen, Settle, Agent, VPlaces
  <2>2. result' = result \/ result'.kind # "error"
    BY <1>5 DEF Turn, Chosen, Settle, Agent, Ends, NoResult
  <2> QED
    BY <1>0, <1>2, <2>1, <2>2 DEF Endings
<1>6. CASE Sampled
  <2>1. pc \in VPlaces \ {"v.call", "v.raised"} /\ UNCHANGED <<primary, tries, tried>>
    BY <1>6 DEF Sampled, VPlaces
  <2>2. result' = result \/ result'.kind # "error" \/ result'.why # "exhausted"
    BY <1>6, SampledIs
  <2> QED
    BY <1>0, <1>2, <2>1, <2>2 DEF Endings
<1>7. CASE PointRaises
  <2>1. pc = "v.raised" /\ tried' = Untried /\ UNCHANGED <<primary, tries, result>>
    BY <1>7 DEF PointRaises, Shoot, Again
  <2>2. tries = 0 /\ pc \in VPlaces
    BY <2>1 DEF Trying, VPlaces
  <2> QED
    BY <1>0, <1>1, <2>1, <2>2 DEF Endings
<1>8. CASE Replies \/ RaisesVlm
  <2>1. pc = "v.call" /\ tries' = 0 /\ tried' = Untried /\ UNCHANGED result /\ primary' \in {primary, Endpoint}
    BY <1>8 DEF Replies, RaisesVlm, Asking
  <2>2. Endpoint \in 0..(Endpoints - 1)
    <3>1. tries \in Nat
      BY <2>1, VlmAssumption DEF Trying, Rounds
    <3>2. PICK n \in Nat : n = primary + tries
      BY <1>0, <3>1
    <3>3. n % Endpoints \in 0..(Endpoints - 1)
      BY VlmAssumption, Division
    <3> QED
      BY <3>2, <3>3 DEF Endpoint
  <2> QED
    BY <1>0, <1>1, <2>1, <2>2 DEF Endings, VPlaces
<1>9. CASE FailsOver
  <2>1. pc = "v.call" /\ pc' = "v.call" /\ UNCHANGED <<primary, result>>
    BY <1>9 DEF FailsOver, Asking
  <2>2. Rounds' /\ tried' \in [0..(Endpoints - 1) -> Nat]
    BY <1>9, <2>1, OneMore
  <2> QED
    BY <1>0, <2>1, <2>2 DEF Trying, Endings, VPlaces
<1>10. CASE GivesUp
  <2>1. /\ pc = "v.call" /\ pc' = "v.raised" /\ tries' = 0 /\ UNCHANGED <<primary, tried, result>>
        /\ tries >= 3 * Endpoints
    BY <1>10 DEF GivesUp, Asking, Exhausted
  <2>2. PICK q \in 0..3, r \in 0..(Endpoints - 1) : tries = q * Endpoints + r /\ (q = 3 => r = 0) /\ TriedSoFar(q, r)
    BY <2>1 DEF Trying, Rounds
  <2>3. q = 3 /\ r = 0
    BY <2>1, <2>2, VlmAssumption
  <2>4. tried = Thrice
    <3>1. \A e \in 0..(Endpoints - 1) : tried[e] = 3
      <4>1. 0..(0 - 1) = {}
        OBVIOUS
      <4> QED
        BY <2>2, <2>3, <4>1 DEF TriedSoFar, Asked
    <3> QED
      BY <3>1 DEF Trying, Thrice
  <2> QED
    BY <1>0, <2>1, <2>4 DEF Trying, Endings, VPlaces
<1>11. CASE Raised
  <2>1. pc = "v.raised" /\ UNCHANGED <<primary, tries>> /\ tries = 0 /\ tried \in {Untried, Thrice}
    BY <1>11 DEF Raised, Trying, VPlaces
  <2>2. CASE mode = "agent"
    <3>1. tried' = Untried /\ result'.kind # "error"
      BY <1>11, <2>2 DEF Raised, Ends, NoResult
    <3> QED
      BY <1>0, <1>1, <2>1, <3>1
  <2>3. CASE mode # "agent"
    <3>1. UNCHANGED tried /\ pc' = "exited" /\ result' = [kind |-> "error", why |-> IF tried = Untried THEN "raised" ELSE "exhausted"]
      BY <1>11, <2>3 DEF Raised, Ends
    <3> QED
      BY <1>0, <2>1, <3>1 DEF Trying, VPlaces
  <2> QED
    BY <2>2, <2>3
<1> QED
  BY <1>3, <1>4, <1>5, <1>6, <1>7, <1>8, <1>9, <1>10, <1>11 DEF VNext, VMain

LEMMA SoundAside ==
  ASSUME SoundInv, UNCHANGED vVars, UNCHANGED pc \/ (pc' \notin VPlaces \cup {"main"} /\ pc # "exited")
  PROVE  SoundInv'
<1>1. UNCHANGED <<mode, image, primary, tried, point, hour, cache, given, result, samples, tries>>
  BY DEF vVars, counters
<1>2. (Sampling /\ Pointing /\ Voting /\ Rows)'
  BY <1>1 DEF SoundInv, Sampling, Pointing, Voting, Rows, Row
<1>3. Placed' /\ Saying'
  BY <1>1 DEF SoundInv, Placed, Saying, VPlaces, Recent, Said
<1>4. Rounds => Rounds'
  BY <1>1 DEF Rounds, TriedSoFar, Asked
<1>5. Trying'
  BY <1>1, <1>4 DEF SoundInv, Trying, VPlaces
<1> QED
  BY <1>2, <1>3, <1>5 DEF SoundInv

LEMMA SoundStep ==
  ASSUME SoundInv, StartVlm \/ VNext
  PROVE  SoundInv'
BY PlacedStep, SamplingStep, PointingStep, VotingStep, SayingStep, TryingStep DEF SoundInv

-----------------------------------------------------------------------------
(* lines are shown in the order in which they were written *)

Lines         == Nat \X Nat
\* of an earlier run, or of the same run and written before
Earlier(a, b) == a[1] < b[1] \/ (a[1] = b[1] /\ a[2] < b[2])
Rising(s)     == \A i, j \in DOMAIN s : i < j => Earlier(s[i], s[j])
Below(s, t)   == \A i \in DOMAIN s, j \in DOMAIN t : Earlier(s[i], t[j])

Parts         == Lines \X {1, 2}
Follows(p, q) == Earlier(p[1], q[1]) \/ (p[1] = q[1] /\ p[2] < q[2])
InParts(f)    == \A i, j \in DOMAIN f : i < j => Follows(f[i], f[j])

\* the lines are numbered as they are written
Numbered  == /\ emitted \in Seq(Lines) /\ Rising(emitted)
             /\ NextLine \in Lines /\ \A i \in DOMAIN emitted : Earlier(emitted[i], NextLine)
\* the parts in the file are those of lines that were written, in their order
Filed     == /\ file \in Seq(Parts) /\ position \in Nat /\ InParts(file)
             /\ \A i \in DOMAIN file : file[i][1] \in ToSet(emitted)
\* lines that were written, and before all that is still to be read
Past      == {x \in ToSet(emitted) : /\ \A j \in DOMAIN file : j > position => Earlier(x, file[j][1])
                                     /\ ~Whole => Earlier(x, Last(file)[1])}
\* what was read, what waits for the browsers and what they were shown are such lines
Handed    == /\ chunk \in Seq(Past) /\ queue_of \in [Clients -> Seq(Past)]
             /\ drained \in [Clients -> Seq(Past)] /\ shown \in [Clients -> Seq(Past)]
\* and they follow one another
Served(c) == /\ Rising(shown[c]) /\ Rising(queue_of[c]) /\ Rising(drained[c])
             /\ Below(shown[c], queue_of[c]) /\ Below(shown[c], drained[c])
             /\ Below(shown[c], chunk) /\ Below(queue_of[c], chunk) /\ Below(drained[c], chunk)
LiveInv   == Numbered /\ Filed /\ Handed /\ Rising(chunk) /\ \A c \in Clients : Served(c)

LEMMA EarlierOrders ==
  \A a, b, c \in Lines : Earlier(a, b) /\ Earlier(b, c) => Earlier(a, c)
BY DEF Lines, Earlier

LEMMA Appended ==
  ASSUME NEW S, NEW s \in Seq(S), NEW x \in S, Rising(s), \A i \in DOMAIN s : Earlier(s[i], x)
  PROVE  Append(s, x) \in Seq(S) /\ Rising(Append(s, x))
<1>1. /\ Append(s, x) \in Seq(S) /\ DOMAIN Append(s, x) = 1..(Len(s) + 1) /\ DOMAIN s = 1..Len(s)
      /\ Append(s, x)[Len(s) + 1] = x /\ \A i \in DOMAIN s : Append(s, x)[i] = s[i]
  OBVIOUS
<1>2. ASSUME NEW i \in 1..(Len(s) + 1), NEW j \in 1..(Len(s) + 1), i < j
      PROVE  Earlier(Append(s, x)[i], Append(s, x)[j])
  <2>1. i \in DOMAIN s
    BY <1>1, <1>2
  <2>2. CASE j \in DOMAIN s
    BY <1>1, <1>2, <2>1, <2>2 DEF Rising
  <2>3. CASE j = Len(s) + 1
    BY <1>1, <2>1, <2>3
  <2> QED
    BY <1>1, <2>2, <2>3
<1> QED
  BY <1>1, <1>2 DEF Rising

LEMMA JoinRises ==
  ASSUME NEW S, NEW s \in Seq(S), NEW t \in Seq(S), Rising(s), Rising(t), Below(s, t), NEW u, u = s \o t
  PROVE  u \in Seq(S) /\ Rising(u)
<1>1. u \in Seq(S) /\ DOMAIN u = 1..(Len(s) + Len(t)) /\ DOMAIN s = 1..Len(s) /\ DOMAIN t = 1..Len(t)
  OBVIOUS
<1>2. ASSUME NEW i \in DOMAIN u
      PROVE  \/ i \in DOMAIN s /\ u[i] = s[i]
             \/ i > Len(s) /\ i - Len(s) \in DOMAIN t /\ u[i] = t[i - Len(s)]
  BY <1>1
<1>3. ASSUME NEW i \in DOMAIN u, NEW j \in DOMAIN u, i < j
      PROVE  Earlier(u[i], u[j])
  <2>1. CASE i \in DOMAIN s /\ u[i] = s[i] /\ j \in DOMAIN s /\ u[j] = s[j]
    BY <1>3, <2>1 DEF Rising
  <2>2. CASE i \in DOMAIN s /\ u[i] = s[i] /\ j - Len(s) \in DOMAIN t /\ u[j] = t[j - Len(s)]
    BY <2>2 DEF Below
  <2>3. CASE /\ i - Len(s) \in DOMAIN t /\ u[i] = t[i - Len(s)]
             /\ j - Len(s) \in DOMAIN t /\ u[j] = t[j - Len(s)]
    <3>1. i - Len(s) < j - Len(s)
      BY <1>1, <1>3
    <3> QED
      BY <2>3, <3>1 DEF Rising
  <2>4. ~(i > Len(s) /\ j \in DOMAIN s)
    BY <1>1, <1>3
  <2> QED
    BY <1>2, <2>1, <2>2, <2>3, <2>4
<1> QED
  BY <1>1, <1>3 DEF Rising

\* the first of a list that rises leaves it
LEMMA TakenRises ==
  ASSUME NEW S, NEW t \in Seq(S), t # <<>>, Rising(t)
  PROVE  /\ Head(t) \in S /\ Tail(t) \in Seq(S) /\ Rising(Tail(t))
         /\ \A j \in DOMAIN Tail(t) : Earlier(Head(t), Tail(t)[j])
<1>1. /\ Head(t) = t[1] /\ Tail(t) \in Seq(S) /\ DOMAIN t = 1..Len(t) /\ Len(t) \in Nat /\ Len(t) # 0
      /\ DOMAIN Tail(t) = 1..(Len(t) - 1) /\ \A i \in DOMAIN Tail(t) : Tail(t)[i] = t[i + 1]
  OBVIOUS
<1>2. 1 \in DOMAIN t /\ \A i \in DOMAIN Tail(t) : i + 1 \in DOMAIN t /\ 1 < i + 1 /\ i \in Int
  BY <1>1
<1>3. Head(t) \in S
  BY <1>1, <1>2
<1>4. \A j \in DOMAIN Tail(t) : Earlier(Head(t), Tail(t)[j])
  BY <1>1, <1>2 DEF Rising
<1>5. Rising(Tail(t))
  <2> SUFFICES ASSUME NEW i \in DOMAIN Tail(t), NEW j \in DOMAIN Tail(t), i < j
               PROVE  Earlier(Tail(t)[i], Tail(t)[j])
    BY DEF Rising
  <2>1. i + 1 < j + 1
    BY <1>2
  <2> QED
    BY <1>1, <1>2, <2>1 DEF Rising
<1> QED
  BY <1>1, <1>3, <1>4, <1>5

LEMMA TakenBelow ==
  ASSUME NEW S, NEW t \in Seq(S), t # <<>>, NEW s, Below(s, t)
  PROVE  Below(s, Tail(t)) /\ \A i \in DOMAIN s : Earlier(s[i], Head(t))
<1>1. /\ Head(t) = t[1] /\ 1 \in DOMAIN t
      /\ \A j \in DOMAIN Tail(t) : j + 1 \in DOMAIN t /\ Tail(t)[j] = t[j + 1]
  OBVIOUS
<1> QED
  BY <1>1 DEF Below

-----------------------------------------------------------------------------
(* the run writes *)

\* the numbers of the next line, after one of the last run or the first of the next
LEMMA NumbersGoOn ==
  ASSUME Numbered, NEW x \in {NextLine, <<LastRun + 1, 1>>},
         x # NextLine => emitted # <<>>, emitted' = Append(emitted, x)
  PROVE  Numbered' /\ \A i \in DOMAIN emitted : Earlier(emitted[i], x)
<1> DEFINE Of(r) == {i \in DOMAIN emitted : RunOf(emitted[i]) = r}
<1>1. NextLine \in Lines /\ emitted \in Seq(Lines) /\ NextLine = <<LastRun, Cardinality(Of(LastRun)) + 1>>
  BY DEF Numbered, NextLine
<1>2. LastRun \in Nat /\ Cardinality(Of(LastRun)) + 1 \in Nat /\ <<LastRun + 1, 1>> \in Lines
  <2>1. PICK r, c : r = LastRun /\ c = Cardinality(Of(LastRun)) + 1
    OBVIOUS
  <2>2. <<r, c>> \in Lines
    BY <1>1, <2>1
  <2>3. r \in Nat /\ c \in Nat /\ <<r + 1, 1>> \in Lines
    BY <2>2 DEF Lines
  <2> QED
    BY <2>1, <2>3
<1>3. \A i \in DOMAIN emitted : Earlier(emitted[i], x)
  <2>1. ASSUME NEW i \in DOMAIN emitted PROVE Earlier(emitted[i], <<LastRun + 1, 1>>)
    <3>1. emitted[i] \in Lines /\ Earlier(emitted[i], NextLine)
      BY <1>1 DEF Numbered
    <3>2. emitted[i][1] \in Nat /\ emitted[i][1] <= LastRun
      BY <1>1, <1>2, <3>1 DEF Lines, Earlier
    <3> QED
      BY <1>2, <3>2 DEF Earlier
  <2> QED
    BY <2>1 DEF Numbered
<1>4. x \in Lines /\ emitted' \in Seq(Lines) /\ Rising(emitted')
  BY <1>1, <1>2, <1>3, Appended DEF Numbered
<1>5. PICK n \in Nat : n = Len(emitted)
  BY <1>1
<1>6. /\ DOMAIN emitted = 1..n /\ DOMAIN emitted' = 1..(n + 1) /\ Len(emitted') = n + 1
      /\ emitted'[n + 1] = x /\ \A i \in 1..n : emitted'[i] = emitted[i]
  BY <1>1, <1>4, <1>5
<1>7. LastRun' = x[1]
  <2>1. emitted' # <<>>
    BY <1>6
  <2> QED
    BY <1>6, <2>1 DEF LastRun, RunOf, Last
<1>8. Of(x[1])' = Of(x[1]) \cup {n + 1} /\ n + 1 \notin Of(x[1])
  BY <1>6 DEF RunOf
<1>9. IsFiniteSet(Of(x[1])) /\ Cardinality(Of(x[1])) \in Nat
  <2>1. 1 \in Int /\ n \in Int
    OBVIOUS
  <2>2. IsFiniteSet(1..n)
    BY <2>1, FS_Interval
  <2>3. Of(x[1]) \subseteq 1..n
    BY <1>6
  <2> QED
    BY <2>2, <2>3, FS_Subset, FS_CardinalityType
<1>10. Cardinality(Of(x[1])') = Cardinality(Of(x[1])) + 1
  BY <1>8, <1>9, FS_AddElement
<1>11. NextLine' = <<x[1], Cardinality(Of(x[1])) + 2>>
  <2>1. NextLine' = <<LastRun', Cardinality({i \in DOMAIN emitted' : RunOf(emitted'[i]) = LastRun'}) + 1>>
    BY DEF NextLine
  <2>2. {i \in DOMAIN emitted' : RunOf(emitted'[i]) = LastRun'} = Of(x[1])'
    BY <1>7
  <2>3. Cardinality(Of(x[1])) + 1 + 1 = Cardinality(Of(x[1])) + 2
    BY <1>9
  <2> QED
    BY <1>7, <1>10, <2>1, <2>2, <2>3
<1>12. Earlier(x, NextLine') /\ NextLine' \in Lines
  <2>1. PICK r \in Nat, c \in Nat : r = LastRun /\ c = Cardinality(Of(x[1]))
    BY <1>2, <1>9
  <2>2. x = <<r, c + 1>> \/ x = <<r + 1, 1>>
    <3>1. CASE x = NextLine
      <4>1. x[1] = LastRun
        BY <1>1, <3>1
      <4> QED
        BY <1>1, <2>1, <3>1, <4>1
    <3> QED
      BY <2>1, <3>1
  <2>3. NextLine' = <<x[1], c + 2>>
    BY <1>11, <2>1
  <2> QED
    BY <2>2, <2>3 DEF Earlier, Lines
<1>13. ASSUME NEW i \in DOMAIN emitted' PROVE Earlier(emitted'[i], NextLine')
  <2>1. CASE i = n + 1
    BY <1>6, <1>12, <2>1
  <2>2. CASE i \in 1..n
    <3>1. emitted'[i] \in Lines /\ Earlier(emitted'[i], x)
      BY <1>1, <1>3, <1>6, <2>2
    <3> QED
      BY <1>4, <1>12, <3>1, EarlierOrders
  <2> QED
    BY <1>5, <1>6, <2>1, <2>2
<1> QED
  BY <1>3, <1>4, <1>12, <1>13 DEF Numbered

\* what is written comes after all that was handed on
LEMMA Extended ==
  ASSUME Filed, UNCHANGED position, ToSet(emitted) \subseteq ToSet(emitted'),
         file' \in Seq(Parts), InParts(file'), file' # <<>>,
         NEW Added \in SUBSET DOMAIN file', Len(file') \in Added,
         \A i \in DOMAIN file' \ Added : i \in DOMAIN file /\ file'[i] = file[i],
         \A i \in Added : file'[i][1] \in ToSet(emitted') /\ \A x \in Past : Earlier(x, file'[i][1])
  PROVE  Filed' /\ Past \subseteq Past'
<1>1. Filed'
  <2>1. \A i \in DOMAIN file' : file'[i][1] \in ToSet(emitted')
    BY DEF Filed
  <2> QED
    BY <2>1 DEF Filed
<1>2. Last(file') = file'[Len(file')]
  BY DEF Last
<1>3. ASSUME NEW x \in Past PROVE x \in Past'
  <2>1. \A j \in DOMAIN file' : j > position => Earlier(x, file'[j][1])
    BY DEF Past
  <2>2. Earlier(x, Last(file')[1])
    BY <1>2
  <2> QED
    BY <2>1, <2>2 DEF Past
<1> QED
  BY <1>1, <1>3

LEMMA WrittenOnce ==
  ASSUME Numbered, Filed, EmitLine, UNCHANGED position
  PROVE  Numbered' /\ Filed' /\ Past \subseteq Past'
<1>1. PICK x \in {NextLine} : x = NextLine
  OBVIOUS
<1>2. /\ x \in Lines /\ emitted \in Seq(Lines) /\ emitted' = Append(emitted, x)
      /\ file \in Seq(Parts) /\ InParts(file) /\ \A i \in DOMAIN file : file[i][1] \in ToSet(emitted)
  BY <1>1 DEF EmitLine, Numbered, Filed
<1>3. Numbered' /\ \A i \in DOMAIN emitted : Earlier(emitted[i], x)
  BY <1>1, <1>2, NumbersGoOn
<1>4. \A y \in ToSet(emitted) : Earlier(y, x)
  BY <1>3 DEF ToSet
<1>5. ToSet(emitted) \subseteq ToSet(emitted') /\ x \in ToSet(emitted')
  BY <1>2 DEF ToSet
<1>6. PICK n \in Nat : n = Len(file) /\ DOMAIN file = 1..n
  BY <1>2
<1>7. \A i \in 1..n, k \in {1, 2} : Follows(file[i], <<x, k>>)
  BY <1>2, <1>4, <1>6 DEF Follows
<1>8. \A y \in Past : Earlier(y, x)
  BY <1>4 DEF Past
<1>9. CASE file' = file \o <<<<x, 1>>, <<x, 2>>>>
  <2>1. <<x, 1>> \in Parts /\ <<x, 2>> \in Parts
    BY <1>2 DEF Parts
  <2>2. /\ file' \in Seq(Parts) /\ Len(file') = n + 2 /\ DOMAIN file' = 1..(n + 2)
        /\ file'[n + 1] = <<x, 1>> /\ file'[n + 2] = <<x, 2>> /\ \A i \in 1..n : file'[i] = file[i]
    BY <1>2, <1>6, <1>9, <2>1
  <2>3. Follows(<<x, 1>>, <<x, 2>>)
    BY DEF Follows
  <2>4. ASSUME NEW i \in 1..(n + 2), NEW j \in 1..(n + 2), i < j PROVE Follows(file'[i], file'[j])
    <3>1. (i \in 1..n /\ j \in 1..n) \/ (i \in 1..n /\ j \in {n + 1, n + 2}) \/ (i = n + 1 /\ j = n + 2)
      BY <2>4
    <3> QED
      BY <1>2, <1>6, <1>7, <2>2, <2>3, <2>4, <3>1 DEF InParts
  <2>5. InParts(file')
    BY <2>2, <2>4 DEF InParts
  <2>6. \A i \in {n + 1, n + 2} : file'[i][1] = x
    BY <2>2
  <2>7. /\ {n + 1, n + 2} \in SUBSET DOMAIN file' /\ Len(file') \in {n + 1, n + 2} /\ file' # <<>>
        /\ \A i \in DOMAIN file' \ {n + 1, n + 2} : i \in DOMAIN file /\ file'[i] = file[i]
    BY <1>6, <2>2
  <2> QED
    BY <1>3, <1>5, <1>8, <2>2, <2>5, <2>6, <2>7, Extended
<1>10. CASE file' = Append(file, <<x, 1>>)
  <2>1. <<x, 1>> \in Parts
    BY <1>2 DEF Parts
  <2>2. /\ file' \in Seq(Parts) /\ Len(file') = n + 1 /\ DOMAIN file' = 1..(n + 1)
        /\ file'[n + 1] = <<x, 1>> /\ \A i \in 1..n : file'[i] = file[i]
    BY <1>2, <1>6, <1>10, <2>1
  <2>3. ASSUME NEW i \in 1..(n + 1), NEW j \in 1..(n + 1), i < j PROVE Follows(file'[i], file'[j])
    <3>1. (i \in 1..n /\ j \in 1..n) \/ (i \in 1..n /\ j = n + 1)
      BY <2>3
    <3> QED
      BY <1>2, <1>6, <1>7, <2>2, <2>3, <3>1 DEF InParts
  <2>4. InParts(file')
    BY <2>2, <2>3 DEF InParts
  <2>5. /\ {n + 1} \in SUBSET DOMAIN file' /\ Len(file') \in {n + 1} /\ file' # <<>>
        /\ \A i \in {n + 1} : file'[i][1] = x
        /\ \A i \in DOMAIN file' \ {n + 1} : i \in DOMAIN file /\ file'[i] = file[i]
    BY <1>6, <2>2
  <2> QED
    BY <1>3, <1>5, <1>8, <2>2, <2>4, <2>5, Extended
<1> QED
  BY <1>1, <1>9, <1>10 DEF EmitLine

LEMMA WrittenLater ==
  ASSUME Numbered, Filed, EmitRest, UNCHANGED position
  PROVE  Numbered' /\ Filed' /\ Past \subseteq Past'
<1>1. /\ ~Whole /\ file' = Append(file, <<Last(file)[1], 2>>) /\ UNCHANGED emitted
      /\ file \in Seq(Parts) /\ InParts(file) /\ \A i \in DOMAIN file : file[i][1] \in ToSet(emitted)
  BY DEF EmitRest, Filed
<1>2. PICK n \in Nat \ {0} : n = Len(file) /\ DOMAIN file = 1..n /\ Last(file) = file[n] /\ file[n][2] # 2
  BY <1>1 DEF Whole, Last
<1>3. PICK x \in Lines : x = file[n][1] /\ file[n][2] = 1
  BY <1>1, <1>2 DEF Parts
<1>4. x \in ToSet(emitted) /\ <<x, 2>> \in Parts
  BY <1>1, <1>2, <1>3 DEF Parts
<1>5. /\ file' \in Seq(Parts) /\ Len(file') = n + 1 /\ DOMAIN file' = 1..(n + 1)
      /\ file'[n + 1] = <<x, 2>> /\ \A i \in 1..n : file'[i] = file[i]
  BY <1>1, <1>2, <1>3, <1>4
<1>6. ASSUME NEW i \in 1..n PROVE Follows(file[i], <<x, 2>>)
  <2>1. CASE i = n
    BY <1>3, <2>1 DEF Follows
  <2>2. CASE i < n
    <3>1. Follows(file[i], file[n]) /\ file[i][2] \in {1, 2}
      BY <1>1, <1>2, <2>2 DEF InParts, Parts
    <3> QED
      BY <1>3, <3>1 DEF Follows
  <2> QED
    BY <2>1, <2>2
<1>7. ASSUME NEW i \in 1..(n + 1), NEW j \in 1..(n + 1), i < j PROVE Follows(file'[i], file'[j])
  <2>1. (i \in 1..n /\ j \in 1..n) \/ (i \in 1..n /\ j = n + 1)
    BY <1>7
  <2> QED
    BY <1>1, <1>2, <1>5, <1>6, <1>7, <2>1 DEF InParts
<1>8. InParts(file')
  BY <1>5, <1>7 DEF InParts
<1>9. \A y \in Past : Earlier(y, x)
  BY <1>1, <1>2, <1>3 DEF Past
<1>10. /\ {n + 1} \in SUBSET DOMAIN file' /\ Len(file') \in {n + 1} /\ file' # <<>>
       /\ \A i \in {n + 1} : file'[i][1] = x
       /\ \A i \in DOMAIN file' \ {n + 1} : i \in DOMAIN file /\ file'[i] = file[i]
  BY <1>2, <1>5
<1>11. Filed' /\ Past \subseteq Past'
  BY <1>1, <1>4, <1>5, <1>8, <1>9, <1>10, Extended
<1>12. Numbered'
  BY <1>1 DEF Numbered, NextLine, LastRun
<1> QED
  BY <1>11, <1>12

LEMMA BegunAnew ==
  ASSUME Numbered, Filed, RunAgain, UNCHANGED position
  PROVE  Numbered' /\ Filed' /\ Past \subseteq Past'
<1>1. PICK x \in {<<LastRun + 1, 1>>} : x = <<LastRun + 1, 1>>
  OBVIOUS
<1>2. /\ emitted # <<>> /\ emitted' = Append(emitted, x) /\ file' = <<<<x, 1>>, <<x, 2>>>>
      /\ emitted \in Seq(Lines)
  BY <1>1 DEF RunAgain, Numbered
<1>3. Numbered' /\ \A i \in DOMAIN emitted : Earlier(emitted[i], x)
  BY <1>1, <1>2, NumbersGoOn
<1>4. \A y \in Past : Earlier(y, x)
  BY <1>3 DEF ToSet, Past
<1>5. ToSet(emitted) \subseteq ToSet(emitted') /\ x \in ToSet(emitted') /\ x \in Lines
  <2>1. x \in Lines
    <3>1. PICK r \in Nat : r = LastRun
      BY <1>2 DEF LastRun, RunOf, Last, Lines
    <3> QED
      BY <1>1, <3>1 DEF Lines
  <2>2. /\ Len(emitted) + 1 \in DOMAIN emitted' /\ emitted'[Len(emitted) + 1] = x
        /\ \A i \in DOMAIN emitted : i \in DOMAIN emitted' /\ emitted'[i] = emitted[i]
    BY <1>2, <2>1
  <2> QED
    BY <2>1, <2>2 DEF ToSet
<1>6. <<x, 1>> \in Parts /\ <<x, 2>> \in Parts
  BY <1>5 DEF Parts
<1>7. /\ file' \in Seq(Parts) /\ Len(file') = 2 /\ DOMAIN file' = {1, 2}
      /\ file'[1] = <<x, 1>> /\ file'[2] = <<x, 2>>
  BY <1>2, <1>6
<1>8. InParts(file')
  BY <1>7 DEF InParts, Follows
<1>9. /\ {1, 2} \in SUBSET DOMAIN file' /\ Len(file') \in {1, 2} /\ file' # <<>>
      /\ \A i \in DOMAIN file' \ {1, 2} : i \in DOMAIN file /\ file'[i] = file[i]
      /\ \A i \in {1, 2} : file'[i][1] = x
  BY <1>7
<1> QED
  BY <1>3, <1>4, <1>5, <1>7, <1>8, <1>9, Extended

LEMMA WriterKeeps ==
  ASSUME Numbered, Filed, LWriter
  PROVE  Numbered' /\ Filed' /\ Past \subseteq Past'
<1>1. UNCHANGED position /\ (EmitLine \/ EmitRest \/ RunAgain \/ TimePasses)
  BY DEF LWriter, poll
<1>2. CASE TimePasses
  <2>1. UNCHANGED <<file, emitted, position>>
    BY <1>1, <1>2 DEF TimePasses
  <2>2. Numbered' /\ Filed' /\ Past' = Past
    BY <2>1 DEF Numbered, NextLine, LastRun, Filed, Past, Whole
  <2> QED
    BY <2>2
<1> QED
  BY <1>1, <1>2, WrittenOnce, WrittenLater, BegunAnew

-----------------------------------------------------------------------------
(* the watcher reads *)

\* what a chunk holds are the lines of which it has both parts
LEMMA Decoding ==
  ASSUME NEW parts \in Seq(Parts)
  PROVE  LET is == InOrder(Complete(parts)) IN
         /\ Ascending(is) /\ DOMAIN Decoded(parts) = DOMAIN is
         /\ \E m \in Nat : Decoded(parts) \in [1..m -> Lines]
         /\ \A k \in DOMAIN is : is[k] \in Complete(parts) /\ Decoded(parts)[k] = parts[is[k]][1]
<1> DEFINE S == Complete(parts)
<1>1. PICK n \in Nat : n = Len(parts) /\ DOMAIN parts = 1..n
  OBVIOUS
<1>2. S \in SUBSET (1..n)
  BY <1>1 DEF Complete
<1>3. InOrder(S) \in [1..Cardinality(S) -> S] /\ Ascending(InOrder(S))
  BY <1>2, InOrderEnumerates
<1>4. Cardinality(S) \in Nat
  <2>1. 1 \in Int /\ n \in Int
    OBVIOUS
  <2>2. IsFiniteSet(1..n)
    BY <2>1, FS_Interval
  <2> QED
    BY <1>2, <2>2, FS_Subset, FS_CardinalityType
<1>5. PICK is : is = InOrder(S) /\ is \in [1..Cardinality(S) -> S]
  BY <1>3
<1>6. Decoded(parts) = [k \in DOMAIN is |-> parts[is[k]][1]]
  BY <1>5 DEF Decoded, Picked
<1>7. \A k \in DOMAIN is : is[k] \in S /\ parts[is[k]][1] \in Lines
  BY <1>1, <1>2, <1>5 DEF Parts
<1>8. Decoded(parts) \in [1..Cardinality(S) -> Lines]
  BY <1>5, <1>6, <1>7
<1> QED
  BY <1>3, <1>4, <1>5, <1>6, <1>7, <1>8

LEMMA ChunkRead ==
  ASSUME Filed, ReadChunk
  PROVE  /\ Filed' /\ Past \subseteq Past'
         /\ chunk' \in Seq(Past') /\ Rising(chunk')
         /\ \A x \in Past, k \in DOMAIN chunk' : Earlier(x, chunk'[k])
<1> DEFINE parts == SubSeq(file, position + 1, Len(file))
           is    == InOrder(Complete(parts))
<1>1. /\ UNCHANGED <<file, emitted>> /\ position' = position + Len(parts) /\ chunk' = Decoded(parts)
      /\ file \in Seq(Parts) /\ position \in Nat /\ InParts(file)
      /\ \A i \in DOMAIN file : file[i][1] \in ToSet(emitted)
  BY DEF ReadChunk, Watch, theFile, Filed
<1>2. PICK n \in Nat, p \in Nat : n = Len(file) /\ p = position /\ DOMAIN file = 1..n
  BY <1>1
<1>3. /\ parts \in Seq(Parts) /\ Len(parts) \in Nat /\ DOMAIN parts = 1..Len(parts)
      /\ Len(parts) = IF p < n THEN n - p ELSE 0
      /\ \A i \in DOMAIN parts : parts[i] = file[p + i]
  BY <1>1, <1>2
<1>4. /\ Ascending(is) /\ DOMAIN chunk' = DOMAIN is
      /\ \E m \in Nat : chunk' \in [1..m -> Lines]
      /\ \A k \in DOMAIN is : is[k] \in Complete(parts) /\ chunk'[k] = parts[is[k]][1]
  BY <1>1, <1>3, Decoding
<1> HIDE DEF parts, is
<1>5. ASSUME NEW i \in Complete(parts)
      PROVE  /\ i \in Nat /\ p + i \in 1..n /\ p + i < n /\ parts[i] = file[p + i] /\ file[p + i][2] = 1
             /\ file[p + i + 1] = <<parts[i][1], 2>>
  <2>1. /\ i \in 1..Len(parts) /\ i < Len(parts) /\ parts[i][2] = 1
        /\ parts[i + 1] = <<parts[i][1], 2>>
    BY <1>3 DEF Complete
  <2>2. Len(parts) = n - p /\ i + 1 \in DOMAIN parts /\ p + i < n /\ p + i \in 1..n /\ i \in Nat
    BY <1>2, <1>3, <2>1
  <2>3. parts[i] = file[p + i] /\ parts[i + 1] = file[p + (i + 1)] /\ p + (i + 1) = p + i + 1
    <3>1. PICK k \in DOMAIN parts : k = i + 1
      BY <2>2
    <3>2. parts[k] = file[p + k] /\ parts[i] = file[p + i]
      BY <1>3, <2>1
    <3>3. p + k = p + i + 1
      BY <1>2, <2>2, <3>1
    <3> QED
      BY <3>1, <3>2, <3>3
  <2> QED
    BY <2>1, <2>2, <2>3
<1>6. Filed'
  BY <1>1, <1>3 DEF Filed
<1>7. Past \subseteq Past'
  BY <1>1, <1>2, <1>3 DEF Past, Whole
<1>8. ASSUME NEW i \in Complete(parts) PROVE parts[i][1] \in Past'
  <2>1. parts[i][1] \in ToSet(emitted)
    BY <1>1, <1>2, <1>5
  <2>2. \A j \in DOMAIN file' : ~(j > position')
    BY <1>1, <1>2, <1>3
  <2>3. ASSUME ~Whole' PROVE Earlier(parts[i][1], Last(file')[1])
    <3>1. Last(file) = file[n] /\ file[n][2] # 2 /\ n \in 1..n
      BY <1>1, <1>2, <1>5, <2>3 DEF Whole, Last
    <3>2. file[n][2] = 1
      BY <1>1, <1>2, <3>1 DEF Parts
    <3>3. Follows(file[p + i], file[n])
      BY <1>1, <1>2, <1>5, <3>1 DEF InParts
    <3> QED
      BY <1>1, <1>5, <3>1, <3>2, <3>3 DEF Follows
  <2> QED
    BY <1>1, <2>1, <2>2, <2>3 DEF Past
<1>9. chunk' \in Seq(Past')
  <2>1. PICK m \in Nat : chunk' \in [1..m -> Lines]
    BY <1>4
  <2>2. \A k \in 1..m : chunk'[k] \in Past'
    BY <1>4, <1>8, <2>1
  <2> QED
    BY <2>1, <2>2
<1>10. Rising(chunk')
  <2> SUFFICES ASSUME NEW k \in DOMAIN is, NEW l \in DOMAIN is, k < l
               PROVE  Earlier(chunk'[k], chunk'[l])
    BY <1>4 DEF Rising
  <2>1. PICK i \in Complete(parts), j \in Complete(parts) : i = is[k] /\ j = is[l] /\ i < j
    BY <1>4 DEF Ascending
  <2>2. p + i < p + j
    BY <1>5, <2>1
  <2>3. Follows(file[p + i], file[p + j])
    BY <1>1, <1>2, <1>5, <2>2 DEF InParts
  <2>4. file[p + i][2] = 1 /\ file[p + j][2] = 1 /\ chunk'[k] = file[p + i][1] /\ chunk'[l] = file[p + j][1]
    BY <1>4, <1>5, <2>1
  <2> QED
    BY <2>3, <2>4 DEF Follows
<1>11. ASSUME NEW x \in Past, NEW k \in DOMAIN chunk' PROVE Earlier(x, chunk'[k])
  <2>1. PICK i \in Complete(parts) : chunk'[k] = parts[i][1]
    BY <1>4
  <2>2. p + i \in DOMAIN file /\ p + i > position
    <3>1. i >= 1
      BY <1>3 DEF Complete
    <3> QED
      BY <1>2, <1>5, <3>1
  <2> QED
    BY <1>5, <2>1, <2>2 DEF Past
<1> QED
  BY <1>6, <1>7, <1>9, <1>10, <1>11

-----------------------------------------------------------------------------
(* the browsers are served *)

LEMMA Sooner ==
  ASSUME NEW S, NEW T, S \subseteq T
  PROVE  Seq(S) \subseteq Seq(T)
<1> SUFFICES ASSUME NEW s \in Seq(S) PROVE s \in Seq(T)
  OBVIOUS
<1>1. Len(s) \in Nat /\ s \in [1..Len(s) -> S]
  OBVIOUS
<1>2. s \in [1..Len(s) -> T]
  BY <1>1
<1> QED
  BY <1>1, <1>2

\* Past may only grow, and what was handed on stays as it is
LEMMA HandedStays ==
  ASSUME LiveInv, Numbered', Filed', Past \subseteq Past', UNCHANGED <<chunk, queue_of, drained, shown>>
  PROVE  LiveInv'
<1>1. Seq(Past) \subseteq Seq(Past')
  BY Sooner
<1>2. Handed'
  BY <1>1 DEF LiveInv, Handed
<1>3. (\A c \in Clients : Served(c))' /\ Rising(chunk')
  BY DEF LiveInv, Served
<1> QED
  BY <1>2, <1>3 DEF LiveInv

LEMMA PastStays ==
  ASSUME UNCHANGED <<file, emitted, position>>
  PROVE  Past' = Past /\ (Numbered => Numbered') /\ (Filed => Filed')
BY DEF Past, Whole, Numbered, NextLine, LastRun, Filed

LEMMA ReadKeeps ==
  ASSUME LiveInv, ReadChunk
  PROVE  LiveInv'
<1>1. /\ Filed' /\ Past \subseteq Past' /\ chunk' \in Seq(Past') /\ Rising(chunk')
      /\ \A x \in Past, k \in DOMAIN chunk' : Earlier(x, chunk'[k])
  BY ChunkRead DEF LiveInv
<1>2. UNCHANGED <<emitted, queue_of, drained, shown>>
  BY DEF ReadChunk, Watch, theFile
<1>3. Numbered'
  BY <1>2 DEF LiveInv, Numbered, NextLine, LastRun
<1>4. Seq(Past) \subseteq Seq(Past')
  BY <1>1, Sooner
<1>5. Handed'
  BY <1>1, <1>2, <1>4 DEF LiveInv, Handed
<1>6. ASSUME NEW s \in Seq(Past) PROVE Below(s, chunk')
  BY <1>1 DEF Below
<1>7. ASSUME NEW c \in Clients PROVE Served(c)'
  <2>1. shown[c] \in Seq(Past) /\ queue_of[c] \in Seq(Past) /\ drained[c] \in Seq(Past)
    BY DEF LiveInv, Handed
  <2>2. Below(shown[c], chunk') /\ Below(queue_of[c], chunk') /\ Below(drained[c], chunk')
    BY <1>6, <2>1
  <2> QED
    BY <1>2, <2>2 DEF LiveInv, Served
<1> QED
  BY <1>1, <1>3, <1>5, <1>7 DEF LiveInv

LEMMA BroadcastKeeps ==
  ASSUME LiveInv, broadcast_event
  PROVE  LiveInv'
<1>1. /\ UNCHANGED <<file, emitted, position, drained, shown>> /\ chunk # <<>> /\ chunk' = Tail(chunk)
      /\ \E cs \in {{queues[i] : i \in DOMAIN queues}} : queue_of' = PushTo(cs, Head(chunk))
  BY DEF broadcast_event, theFile
<1>2. Past' = Past /\ Numbered' /\ Filed'
  BY <1>1, PastStays DEF LiveInv
<1>3. chunk \in Seq(Past) /\ Rising(chunk)
  BY DEF LiveInv, Handed
<1>4. PICK h : h = Head(chunk)
  OBVIOUS
<1>5. /\ h \in Past /\ chunk' \in Seq(Past) /\ Rising(chunk')
      /\ \A j \in DOMAIN chunk' : Earlier(h, chunk'[j])
  BY <1>1, <1>3, <1>4, TakenRises
<1>6. ASSUME NEW s \in Seq(Past), Below(s, chunk)
      PROVE  Below(s, chunk') /\ \A i \in DOMAIN s : Earlier(s[i], h)
  BY <1>1, <1>3, <1>4, <1>6, TakenBelow
<1>7. PICK cs : queue_of' = [c \in Clients |-> IF c \in cs THEN Append(queue_of[c], h) ELSE queue_of[c]]
  BY <1>1, <1>4 DEF PushTo
<1>8. ASSUME NEW c \in Clients
      PROVE  Served(c)' /\ queue_of'[c] \in Seq(Past)
  <2>1. /\ shown[c] \in Seq(Past) /\ queue_of[c] \in Seq(Past) /\ drained[c] \in Seq(Past) /\ Served(c)
    BY DEF LiveInv, Handed
  <2>2. /\ Below(shown[c], chunk') /\ Below(queue_of[c], chunk') /\ Below(drained[c], chunk')
        /\ \A i \in DOMAIN queue_of[c] : Earlier(queue_of[c][i], h)
        /\ \A i \in DOMAIN shown[c] : Earlier(shown[c][i], h)
    BY <1>6, <2>1 DEF Served
  <2>3. CASE c \notin cs
    <3>1. queue_of'[c] = queue_of[c]
      BY <1>7, <2>3
    <3> QED
      BY <1>1, <2>1, <2>2, <3>1 DEF Served
  <2>4. CASE c \in cs
    <3>1. PICK q : q = queue_of'[c] /\ q = Append(queue_of[c], h)
      BY <1>7, <2>4
    <3>2. q \in Seq(Past) /\ Rising(q)
      BY <1>5, <2>1, <2>2, <3>1, Appended DEF Served
    <3>3. \A i \in DOMAIN q : q[i] = h \/ \E j \in DOMAIN queue_of[c] : q[i] = queue_of[c][j]
      BY <1>5, <2>1, <3>1
    <3>4. Below(q, chunk') /\ Below(shown[c], q)
      BY <1>5, <2>1, <2>2, <3>3 DEF Below, Served
    <3> QED
      BY <1>1, <2>1, <2>2, <3>1, <3>2, <3>4 DEF Served
  <2> QED
    BY <2>3, <2>4
<1>9. Handed'
  BY <1>1, <1>2, <1>5, <1>7, <1>8 DEF LiveInv, Handed
<1> QED
  BY <1>2, <1>5, <1>8, <1>9 DEF LiveInv

LEMMA ServeKeeps ==
  ASSUME LiveInv, NEW c \in Clients, subscribe(c) \/ CopyQueue(c) \/ EmptyQueue(c) \/ unsubscribe(c)
  PROVE  LiveInv'
<1>1. UNCHANGED <<file, emitted, position, chunk>>
  BY DEF subscribe, CopyQueue, EmptyQueue, unsubscribe, Serves, theFile, poll
<1>2. Past' = Past /\ Numbered' /\ Filed' /\ chunk' \in Seq(Past') /\ Rising(chunk')
  BY <1>1, PastStays DEF LiveInv, Handed
<1>3. /\ queue_of \in [Clients -> Seq(Past)] /\ drained \in [Clients -> Seq(Past)]
      /\ shown \in [Clients -> Seq(Past)] /\ <<>> \in Seq(Past) /\ \A d \in Clients : Served(d)
  BY DEF LiveInv, Handed
<1>4. \A s : Below(<<>>, s) /\ Below(s, <<>>) /\ Rising(<<>>)
  BY DEF Below, Rising
<1>5. CASE subscribe(c)
  <2>1. queue_of' = [queue_of EXCEPT ![c] = <<>>] /\ UNCHANGED <<drained, shown>>
    BY <1>5 DEF subscribe
  <2>2. Handed'
    BY <1>2, <1>3, <2>1 DEF Handed
  <2>3. ASSUME NEW d \in Clients PROVE Served(d)'
    BY <1>1, <1>3, <1>4, <2>1 DEF Served
  <2> QED
    BY <1>2, <2>2, <2>3 DEF LiveInv
<1>6. CASE CopyQueue(c)
  <2>1. drained' = [drained EXCEPT ![c] = queue_of[c]] /\ UNCHANGED <<queue_of, shown>>
    BY <1>6 DEF CopyQueue
  <2>2. Handed'
    BY <1>2, <1>3, <2>1 DEF Handed
  <2>3. ASSUME NEW d \in Clients PROVE Served(d)'
    BY <1>1, <1>3, <2>1 DEF Served
  <2> QED
    BY <1>2, <2>2, <2>3 DEF LiveInv
<1>7. CASE EmptyQueue(c)
  <2>1. /\ queue_of' = [queue_of EXCEPT ![c] = <<>>] /\ drained' = [drained EXCEPT ![c] = <<>>]
        /\ shown' = [shown EXCEPT ![c] = shown[c] \o drained[c]]
    BY <1>7 DEF EmptyQueue
  <2>2. PICK u : u = shown[c] \o drained[c]
    OBVIOUS
  <2>3. shown[c] \in Seq(Past) /\ drained[c] \in Seq(Past)
    BY <1>3
  <2>4. u \in Seq(Past) /\ Rising(u)
    BY <1>3, <2>2, <2>3, JoinRises DEF Served
  <2>5. \A i \in DOMAIN u : \/ \E j \in DOMAIN shown[c] : u[i] = shown[c][j]
                            \/ \E j \in DOMAIN drained[c] : u[i] = drained[c][j]
    <3>1. PICK a \in Seq(Past), b \in Seq(Past) : a = shown[c] /\ b = drained[c]
      BY <2>3
    <3>2. ASSUME NEW i \in DOMAIN (a \o b)
          PROVE  \/ i \in DOMAIN a /\ (a \o b)[i] = a[i]
                 \/ i - Len(a) \in DOMAIN b /\ (a \o b)[i] = b[i - Len(a)]
      OBVIOUS
    <3> QED
      BY <2>2, <3>1, <3>2
  <2>6. Below(u, chunk)
    BY <1>3, <2>5 DEF Served, Below
  <2>7. Handed'
    BY <1>2, <1>3, <2>1, <2>2, <2>4 DEF Handed
  <2>8. ASSUME NEW d \in Clients PROVE Served(d)'
    <3>1. CASE d = c
      <4>1. shown'[d] = u /\ queue_of'[d] = <<>> /\ drained'[d] = <<>>
        BY <1>3, <2>1, <2>2, <3>1
      <4> QED
        BY <1>1, <1>4, <2>4, <2>6, <4>1 DEF Served
    <3>2. CASE d # c
      <4>1. shown'[d] = shown[d] /\ queue_of'[d] = queue_of[d] /\ drained'[d] = drained[d]
        BY <1>3, <2>1, <3>2
      <4> QED
        BY <1>1, <1>3, <4>1 DEF Served
    <3> QED
      BY <3>1, <3>2
  <2> QED
    BY <1>2, <2>7, <2>8 DEF LiveInv
<1>8. CASE unsubscribe(c)
  <2>1. UNCHANGED <<queue_of, drained, shown>>
    BY <1>8 DEF unsubscribe
  <2> QED
    BY <1>1, <1>2, <2>1, HandedStays
<1> QED
  BY <1>5, <1>6, <1>7, <1>8

NothingRead == /\ file = <<>> /\ emitted = <<>> /\ position = 0 /\ chunk = <<>>
               /\ queue_of = Nobody /\ drained = Nobody /\ shown = Nobody

LEMMA NothingLive == NothingRead => LiveInv
<1> SUFFICES ASSUME NothingRead PROVE LiveInv
  OBVIOUS
<1> USE DEF NothingRead
<1>1. \A S : <<>> \in Seq(S)
  OBVIOUS
<1>2. NextLine = <<1, 1>>
  <2>1. {i \in DOMAIN emitted : RunOf(emitted[i]) = LastRun} = {}
    OBVIOUS
  <2>2. Cardinality({}) = 0
    BY FS_EmptySet
  <2> QED
    BY <2>1, <2>2 DEF NextLine, LastRun
<1>3. Rising(<<>>) /\ InParts(<<>>) /\ \A s : Below(<<>>, s)
  BY DEF Rising, InParts, Below
<1>4. Numbered /\ Filed
  BY <1>1, <1>2, <1>3 DEF Numbered, Filed, Lines
<1>5. Handed /\ \A c \in Clients : Served(c)
  BY <1>1, <1>3 DEF Handed, Served, Nobody
<1> QED
  BY <1>3, <1>4, <1>5 DEF LiveInv

LEMMA LiveStep ==
  ASSUME LiveInv, StartLive \/ LNext
  PROVE  LiveInv'
<1>1. CASE StartLive
  <2>1. UNCHANGED <<file, emitted, position, chunk, queue_of, drained, shown>>
    BY <1>1 DEF StartLive, theFile, browsers
  <2> QED
    BY <2>1, PastStays, HandedStays DEF LiveInv
<1>2. CASE LWriter
  <2>1. Numbered' /\ Filed' /\ Past \subseteq Past'
    BY <1>2, WriterKeeps DEF LiveInv
  <2> QED
    BY <1>2, <2>1, HandedStays DEF LWriter, poll, browsers
<1>3. CASE LWatch
  <2>1. CASE Poll \/ PollEnds
    <3>1. UNCHANGED <<file, emitted, position, chunk, queue_of, drained, shown>>
      BY <2>1 DEF Poll, PollEnds, Watch, theFile
    <3> QED
      BY <3>1, PastStays, HandedStays DEF LiveInv
  <2> QED
    BY <1>3, <2>1, ReadKeeps, BroadcastKeeps DEF LWatch
<1>4. CASE LServe
  BY <1>4, ServeKeeps DEF LServe
<1>5. CASE Interrupt
  <2>1. NothingRead'
    BY <1>5 DEF Interrupt, NothingRead, Nobody
  <2> QED
    BY <2>1, NothingLive, PTL
<1> QED
  BY <1>1, <1>2, <1>3, <1>4, <1>5 DEF LNext

LEMMA LiveAside ==
  ASSUME LiveInv, UNCHANGED lVars
  PROVE  LiveInv'
<1>1. UNCHANGED <<file, emitted, position, chunk, queue_of, drained, shown>>
  BY DEF lVars, theFile, poll, browsers
<1> QED
  BY <1>1, PastStays, HandedStays DEF LiveInv

LEMMA LiveImplies ==
  ASSUME LiveInv
  PROVE  ShownInOrder
<1> SUFFICES ASSUME NEW c \in Clients, NEW i \in DOMAIN shown[c], NEW j \in DOMAIN shown[c], i < j
             PROVE  Place(shown[c][i]) < Place(shown[c][j])
  BY DEF ShownInOrder
<1>1. PICK s \in Seq(Past) : s = shown[c] /\ Rising(s)
  BY DEF LiveInv, Handed, Served
<1>2. s[i] \in ToSet(emitted) /\ s[j] \in ToSet(emitted) /\ Earlier(s[i], s[j])
  BY <1>1 DEF Rising, Past
<1>3. PICK n \in Nat : DOMAIN emitted = 1..n
  BY DEF LiveInv, Numbered
<1>4. ASSUME NEW x \in ToSet(emitted) PROVE Place(x) \in 1..n /\ emitted[Place(x)] = x
  BY <1>3 DEF Place, ToSet
<1>5. PICK k \in 1..n, l \in 1..n : k = Place(s[i]) /\ l = Place(s[j]) /\ emitted[k] = s[i] /\ emitted[l] = s[j]
  BY <1>2, <1>4
<1>6. ~Earlier(s[j], s[i]) /\ s[i] # s[j]
  <2>1. s[i] \in Lines /\ s[j] \in Lines
    BY <1>3, <1>5 DEF LiveInv, Numbered
  <2> QED
    BY <1>2, <2>1 DEF Earlier, Lines
<1>7. k # l /\ ~(l < k)
  BY <1>3, <1>5, <1>6 DEF LiveInv, Numbered, Rising
<1> QED
  BY <1>1, <1>5, <1>7

=============================================================================
