------------------------------ MODULE UiDriver ------------------------------
(***************************************************************************)
(* A click step on a VM: UiaClient (uia/client.py, Windows) and            *)
(* AtspiClient (atspi/client.py, Linux) find the widget, check what is at  *)
(* the point where the button would be pressed, and press it, or invoke    *)
(* its action.  Every batch of operations is one call of run_batch, and    *)
(* goes to the worker over one of four ways: the persistent daemon behind  *)
(* an SSH tunnel, a scheduled task in session 1, or a command over SSH,    *)
(* for either worker.  The runner tries a step again when it fails.        *)
(***************************************************************************)
EXTENDS UiWorker

CONSTANT Tries     \* attempts of the runner at the step

ASSUME UiDriverAssumption == Tries \in Nat \ {0}

VARIABLES
  backend,   \* "uia" or "atspi"
  way,       \* how batches reach the worker: "daemon", "session1", "ssh"
  via,       \* "pointer", "action", "hint", or "query" (find, verify, tree_dump, wait_for)
  try,       \* attempts left to the runner
  setup_done,\* _daemon_setup_done
  listening, \* is the daemon up?
  tunnel,    \* is the local end of the tunnel open?
  again,     \* was the connection (daemon) or the command (SSH) already repeated?
  call,      \* the call of run_batch, by its number
  batch,     \* what it sends: [kind, arg]
  cands,     \* candidates of the pointer mode not yet tried
  begun,     \* calls whose operations the worker has begun (ghost)
  twice,     \* those it has begun a second time (ghost)
  cut        \* calls whose SSH connection broke after the worker had begun (ghost)

client == <<backend, way, via, try, setup_done, listening, tunnel, again, call, batch, cands, begun, twice, cut>>
uVars  == <<client, vm_ui>>
reach  == <<setup_done, listening, tunnel>>

NoBatch == [kind |-> "none", arg |-> Nothing]
UInit == /\ backend = "uia" /\ way = "daemon" /\ via = "query" /\ try = 0 /\ setup_done = FALSE
         /\ listening = FALSE /\ tunnel = FALSE /\ again = FALSE /\ call = 0 /\ batch = NoBatch
         /\ cands = <<>> /\ begun = {} /\ twice = {} /\ cut = {} /\ UiInit

OpsOf(kind) == CASE kind = "find"     -> <<"find">>
                 [] kind = "find_all" -> <<"find_all">>
                 [] kind = "check"    -> IF backend = "uia" THEN <<"move", "at">> ELSE <<"at">>
                 [] kind = "click"    -> <<"click">>
                 [] kind = "act"      -> IF backend = "uia" /\ via = "hint" THEN <<"find", "move", "do">>
                                                                           ELSE <<"find", "do">>
Job == [call |-> call, ops |-> OpsOf(batch.kind), arg |-> batch.arg, found |-> Nothing,
        all |-> <<>>, at |-> Nothing, done |-> FALSE, new |-> TRUE]
Mine(i) == jobs[i].call = call

-----------------------------------------------------------------------------
(* the step *)

FirstBatch(b, v) == [kind |-> IF v = "action" THEN "act"
                              ELSE IF b = "uia" /\ v = "pointer" THEN "find_all" ELSE "find",
                     arg |-> Nothing]
Call(b)     == batch' = b /\ call' = call + 1 /\ again' = FALSE /\ Goto("u.send")
\* worker and set-up script are not there yet, the tunnel not opened
StartClick  == /\ At("main") /\ tree' \in Trees /\ try' = Tries - 1
               /\ \E b \in {"uia", "atspi"}, w \in {"daemon", "session1", "ssh"},
                     v \in {"pointer", "action", "hint", "query"} :
                    /\ b = "atspi" => w = "ssh"
                    /\ backend' = b /\ way' = w /\ via' = v /\ Call(FirstBatch(b, v))
               /\ UNCHANGED <<faults, reach, cands, begun, twice, cut, changes, jobs, hits>>

\* AtspiError, UiaError: the runner tries again, or the step has failed
StepFails == IF try > 0 THEN try' = try - 1 /\ cands' = <<>> /\ Call(FirstBatch(backend, via))
                        ELSE Exit(1) /\ UNCHANGED <<try, cands, batch, call, again>>
Same      == UNCHANGED <<backend, way, via, begun, twice, cut>>
UError    == /\ At("u.error") /\ StepFails
             /\ Same /\ UNCHANGED <<faults, reach, vm_ui>>
StepDone  == Exit(0) /\ UNCHANGED <<try, cands, batch, call, again>>

-----------------------------------------------------------------------------
(* run_batch of the clients: the daemon *)

Sending(l) == /\ Goto(l) /\ UNCHANGED <<backend, way, via, try, call, batch, cands, tree, changes, hits>>

\* the set-up script kills the daemon and what it was doing, and starts it anew
EnsureSetup == /\ At("u.send") /\ way = "daemon" /\ ~setup_done
               /\ \/ /\ Fine /\ setup_done' = TRUE /\ listening' = TRUE /\ tunnel' = TRUE /\ jobs' = <<>>
                     /\ Sending("u.send")
                  \/ Fault /\ UNCHANGED <<reach, jobs>> /\ Sending("u.error")
               /\ UNCHANGED <<again, begun, twice, cut>>
\* connected: one line with the batch, which the daemon takes when it is free
Connect == /\ At("u.send") /\ way = "daemon" /\ setup_done /\ tunnel
           /\ IF listening THEN jobs' = Append(jobs, Job) /\ Sending("u.wait")
                           ELSE UNCHANGED jobs /\ Sending("u.error")   \* empty response
           /\ UNCHANGED <<faults, reach, again, begun, twice, cut>>
\* refused: once more after a new set-up
Refused == /\ At("u.send") /\ way = "daemon" /\ setup_done /\ ~tunnel
           /\ again' = TRUE
           /\ IF again THEN UNCHANGED setup_done /\ Sending("u.error")
                       ELSE setup_done' = FALSE /\ Sending("u.send")
           /\ UNCHANGED <<faults, jobs, listening, tunnel, begun, twice, cut>>

\* the tunnel or the daemon goes away
Lost == /\ pc # "exited" /\ way = "daemon" /\ setup_done /\ Fault
        /\ \/ tunnel /\ tunnel' = FALSE /\ UNCHANGED <<listening, jobs>>
           \/ listening /\ listening' = FALSE /\ jobs' = <<>> /\ UNCHANGED tunnel
        /\ UNCHANGED <<pc, code, backend, way, via, try, setup_done, again, call, batch, cands, begun, twice, cut,
                       tree, changes, hits>>

-----------------------------------------------------------------------------
(* a command over SSH (SSHClient.run), and the scheduled task of session 1 *)

\* scp of the worker and of a long payload
Deploy == /\ At("u.send") /\ way # "daemon" /\ Fault /\ Sending("u.error")
          /\ UNCHANGED <<reach, jobs, again, begun, twice, cut>>
\* the application is not ready for AT-SPI: the worker does nothing, and is run
\* again, three times in all
RunRemote == /\ At("u.send") /\ way # "daemon"
             /\ jobs' = Append(jobs, Job) /\ Sending("u.wait")
             /\ UNCHANGED <<faults, reach, again, begun, twice, cut>>
\* status 255 is taken for a connection that was never made: the command is sent
\* once more, whether or not the worker has begun
Status255 == /\ At("u.wait") /\ way # "daemon" /\ Fault /\ ~again
             /\ again' = TRUE /\ cut' = cut \cup {call}
             /\ jobs' = Append(jobs, Job) /\ Sending("u.wait")
             /\ UNCHANGED <<reach, begun, twice>>
NeverReady == /\ At("u.send") /\ backend = "atspi" /\ Fault /\ Sending("u.error")
              /\ UNCHANGED <<reach, jobs, again, begun, twice, cut>>

\* mutant: a batch that is not answered is sent again
NoAnswer_resends == /\ At("u.wait") /\ Fault /\ Sending("u.send")
                    /\ UNCHANGED <<reach, jobs, again, begun, twice, cut>>

\* no answer in time, the connection closed by the other side, a result file
\* read while it is written: the worker may go on
NoAnswer == /\ At("u.wait")
            /\ \/ Fault
               \/ way = "daemon" /\ (~tunnel \/ \A i \in DOMAIN jobs : ~Mine(i)) /\ Fine
            /\ Sending("u.error") /\ UNCHANGED <<reach, jobs, again, begun, twice, cut>>

\* the worker: the daemon takes one batch after the other
Works == /\ pc # "exited"
         /\ \E i \in DOMAIN jobs :
              /\ way = "daemon" => \A k \in 1..(i - 1) : jobs[k].ops = <<>>
              /\ run_batch(backend, i)
              /\ begun' = begun \cup {jobs[i].call}
              /\ twice' = IF jobs[i].new /\ jobs[i].call \in begun THEN twice \cup {jobs[i].call} ELSE twice
         /\ UNCHANGED <<process, backend, way, via, try, reach, again, call, batch, cands, cut>>
Changes == call > 0 /\ pc # "exited" /\ TreeChanges /\ UNCHANGED <<process, client>>

-----------------------------------------------------------------------------
(* the answer, and what the click does with it *)

\* the answer is that of the last command of this call
Answers(i) == /\ At("u.wait") /\ Mine(i) /\ jobs[i].ops = <<>>
              /\ \A k \in DOMAIN jobs : Mine(k) => k <= i
              /\ way = "daemon" => tunnel
              /\ jobs' = RemoveAt(jobs, i)
              /\ UNCHANGED <<faults, reach, tree, changes, hits>> /\ Same
NoTarget      == Goto("u.error") /\ UNCHANGED <<try, cands, batch, call, again>>
More(b)    == Call(b) /\ UNCHANGED try
Act        == [kind |-> "act", arg |-> Nothing]
CheckPoint(c, second) == [kind |-> "check", arg |-> [point |-> c.node.point, target |-> c.node, second |-> second]]

\* find: verify and wait_for end with it
Found(i) == /\ batch.kind = "find" /\ Answers(i)
            /\ LET f == jobs[i].found IN
               CASE via = "query"   -> StepDone
                 [] ~f.ok /\ via # "query" -> NoTarget
                 [] f.ok /\ via = "hint" -> /\ IF Clickable(tree, f.node) = NoPoint THEN NoTarget
                                               ELSE More(Act) /\ UNCHANGED cands
                 [] OTHER               -> /\ IF f.node.point = NoPoint THEN NoTarget
                                                  ELSE More(CheckPoint(f, batch.arg # Nothing)) /\ UNCHANGED cands
\* find_all: candidates without extents are passed over
TryNext(cs)  == IF cs = <<>> THEN NoTarget
                ELSE More(CheckPoint(Head(cs), FALSE)) /\ cands' = Tail(cs)
FoundAll(i)  == /\ batch.kind = "find_all" /\ Answers(i)
                /\ LET all == jobs[i].all
                   IN  TryNext(Picked(all, {k \in DOMAIN all : all[k].node.point # NoPoint}))

\* the text of one path begins with the text of the other: "/0/1" and "/0/1/2",
\* and "/0/1" and "/0/12" as well (for indexes of four digits at most)
BeginsWith(b, a) == \/ IsPrefix(a, b)
                    \/ /\ a # <<>> /\ Len(a) <= Len(b) /\ Front(a) = SubSeq(b, 1, Len(a) - 1)
                       /\ Last(a) # 0 /\ \E k \in {10, 100, 1000} : b[Len(a)] \div k = Last(a)
\* a path that cannot be told is the empty text
TextOf(p) == IF p = NoPath THEN <<>> ELSE p
TextsMatch(told, path) ==
  LET actual == TextOf(told)
  IN  \/ actual = path
      \/ path # <<>> /\ BeginsWith(actual, path)
      \/ actual # <<>> /\ BeginsWith(path, actual)
\* mutant: any widget at the point will do
Matches_any(v, target) == TRUE

Matches(v, target) == \/ TextsMatch(v.told, target.path)
                      \/ backend = "uia" /\ v.node.match /\ v.told # NoPath
                      \/ backend = "uia" /\ target.button /\ v.node.passive
Checked(i) ==
  /\ batch.kind = "check" /\ Answers(i)
  /\ LET v      == jobs[i].at
         target == batch.arg.target
         click  == [point |-> batch.arg.point, target |-> target,
                    when |-> IF v.ok THEN v.when ELSE changes, checked |-> v.ok,
                    alike |-> v.ok /\ TextsMatch(v.told, target.path) /\ ~Related(v.node, target)] IN
     IF v = Failed \/ (v.ok /\ ~Matches(v, target))        \* rejected
     THEN IF backend = "uia" THEN TryNext(cands)
          ELSE IF batch.arg.second THEN NoTarget
          ELSE More([kind |-> "find", arg |-> [second |-> TRUE]]) /\ UNCHANGED cands
     ELSE IF backend = "uia" THEN More([kind |-> "click", arg |-> click]) /\ UNCHANGED cands
     ELSE Goto("u.press") /\ batch' = [kind |-> "click", arg |-> click] /\ UNCHANGED <<try, cands, call, again>>
\* on Linux the button is pressed over VNC
PressButton == /\ At("u.press") /\ hits' = Press(call, batch.arg) /\ StepDone
               /\ Same /\ UNCHANGED <<faults, reach, tree, changes, jobs>>
Clicked(i) == batch.kind = "click" /\ Answers(i) /\ StepDone
Acted(i)   == batch.kind = "act" /\ Answers(i) /\ IF jobs[i].done THEN StepDone ELSE NoTarget

UMain == \/ UError \/ EnsureSetup \/ Connect \/ Refused \/ Deploy \/ RunRemote \/ Status255
         \/ NeverReady \/ NoAnswer \/ PressButton
         \/ \E i \in DOMAIN jobs : Found(i) \/ FoundAll(i) \/ Checked(i) \/ Clicked(i) \/ Acted(i)
UNext == UMain \/ Works \/ Lost \/ Changes

-----------------------------------------------------------------------------
(* Properties *)

\* The operations of one call of run_batch are begun once at most, whatever was set
\* up again, timed out or is still being executed for an earlier call; over SSH a
\* second time only if the connection broke and the command was sent again.
OncePerCall == twice \subseteq cut

\* A click whose point was checked, or an action, reaches the widget that was asked
\* for, what is inside or around it, or a passive overlay, unless the application
\* changed its tree between the check and the click.  (That is what the comments of
\* _click_via_pointer say: another widget is rejected.)
NoStranger == \A h \in hits : h.stranger => h.stale \/ ~h.checked

\* The same, but for what the comparison of two texts cannot tell apart: the path that
\* the worker told for the widget at the point goes with that of the target, though the
\* one is not inside the other ("/1" and "/12", or a path that was told from a nearer
\* window).  No other stranger is hit.
StrangersAlike == \A h \in hits : h.stranger => h.stale \/ ~h.checked \/ h.alike
=============================================================================
