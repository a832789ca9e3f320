------------------------------ MODULE UiWorker ------------------------------
(***************************************************************************)
(* The worker that a driver runs on the VM (uia/worker.py, and its twin    *)
(* atspi/worker.py) and the user interface it walks.  A batch is a list of *)
(* operations that the worker executes one after the other; the            *)
(* application may change its tree between any two.                        *)
(*                                                                         *)
(* A tree is its nodes, in the order of the walk, what the screen shows at *)
(* each point, and how the look-up of a point goes: it answers, there is   *)
(* none, or it fails; and whether the children of a node are the same      *)
(* objects each time.  A node has its path (child indexes from the window  *)
(* of the application), whether it has the role and name that the step     *)
(* asks for, whether its title or process has app_filter in it, whether it *)
(* is off screen, its size, and its centre.                                *)
(***************************************************************************)
EXTENDS Process, Enumeration, SequencesExt

CONSTANTS Trees,       \* the trees the application may show
          MaxChanges   \* bound on its changes

VARIABLES
  tree,
  changes,
  jobs,   \* batches that were handed to the worker and are not finished
  hits    \* what was activated (ghost)

vm_ui == <<tree, changes, jobs, hits>>

NoPoint == 0        \* no extents
NoPath  == <<-1>>   \* the node of another application, or one whose path cannot be told
Nothing == [ok |-> FALSE]
Failed  == [ok |-> FALSE, error |-> TRUE]   \* an error that is not "there is nothing"
Widget(paths) == [path : paths, match : BOOLEAN, named : BOOLEAN, off : BOOLEAN, size : {"none", "tiny", "fit", "large"},
                  point : Nat, passive : BOOLEAN, button : BOOLEAN]

\* the centre of a widget is a point of the screen, and the screen stays the same
ASSUME UiWorkerAssumption ==
  /\ MaxChanges \in Nat
  /\ \A t \in Trees : /\ t.nodes \in Seq(Widget(Seq(Nat)))
                      /\ \A p \in DOMAIN t.shown : t.shown[p] \in {Nothing} \cup Widget(Seq(Nat) \cup {NoPath})
  /\ \A t, u \in Trees : /\ DOMAIN t.shown = DOMAIN u.shown
                         /\ \A i \in DOMAIN t.nodes : t.nodes[i].point \in DOMAIN u.shown \cup {NoPoint}

-----------------------------------------------------------------------------
(* the walk *)

NodesAt(t, path) == {n \in ToSet(t.nodes) : n.path = path}
Matching(t)      == {i \in DOMAIN t.nodes : t.nodes[i].match}
Off(t)           == {i \in DOMAIN t.nodes : t.nodes[i].off}
\* visible ones first
_find_all(t)     == Picked(t.nodes, Matching(t) \ Off(t)) \o Picked(t.nodes, Matching(t) \cap Off(t))
\* the worker for AT-SPI takes the first of the walk
_find_first(b, t) == LET found == IF b = "uia" THEN _find_all(t) ELSE Picked(t.nodes, Matching(t))
                     IN  IF found = <<>> THEN Nothing ELSE [ok |-> TRUE, node |-> Head(found)]

\* the point of the node itself if it is 8 x 8 at least, or that of the nearest of
\* five ancestors that is, and is not a large container
_resolve_clickable_extents(t, n) ==
  LET above == {a \in ToSet(t.nodes) : /\ Len(a.path) < Len(n.path) /\ Len(n.path) - Len(a.path) <= 5
                                       /\ IsPrefix(a.path, n.path) /\ a.size = "fit"}
  IN  IF n.size \in {"fit", "large"} THEN n.point
      ELSE IF above = {} THEN NoPoint
      ELSE (CHOOSE a \in above : \A o \in above : Len(o.path) <= Len(a.path)).point
Clickable(t, n) == LET p == _resolve_clickable_extents(t, n) IN IF p = NoPoint THEN n.point ELSE p

-----------------------------------------------------------------------------
(* the operations; what they answer is kept in the job, with when that was *)

Hold(node) == [ok |-> TRUE, node |-> node, when |-> changes]
_op_find(b)  == LET f == _find_first(b, tree) IN IF f.ok THEN Hold(f.node) ELSE Nothing
\* the path of a node from the window down; on Windows from the nearest node that has
\* the filter in its title or process, itself included, and not to be told if a node is
\* not found among the children of its parent
Roots(t, n) == {r \in {n} \cup ToSet(t.nodes) : r.named /\ IsPrefix(r.path, n.path)}
_walk_path_to_app(b, t, n) ==
  IF b = "atspi" THEN n.path
  ELSE IF n.named THEN <<>>
  ELSE IF n.path = NoPath \/ ~t.same \/ Roots(t, n) = {} THEN NoPath
  ELSE LET root == CHOOSE r \in Roots(t, n) : \A o \in Roots(t, n) : Len(o.path) <= Len(r.path)
       IN  SubSeq(n.path, Len(root.path) + 1, Len(n.path))
\* Chromium does not answer on Linux, and pywinauto may be without the interface
_op_get_at_point(b, p) ==
  CASE tree.probe = "fails" -> Failed
    [] tree.probe = "none" \/ tree.shown[p] = Nothing -> Nothing
    [] OTHER -> [ok |-> TRUE, node |-> tree.shown[p], when |-> changes,
                   told |-> _walk_path_to_app(b, tree, tree.shown[p])]

Related(a, b) == IsPrefix(a.path, b.path) \/ IsPrefix(b.path, a.path)
\* what an action, or the button pressed at a point, reaches
Landed(call, node, target, when, checked, alike) ==
  [call |-> call, stale |-> when # changes, checked |-> checked, alike |-> alike,
   stranger |-> ~(node.match \/ Related(node, target) \/ node.passive)]

\* the path that the find of the batch answered, followed again
_op_do_action(j) ==
  LET there == IF j.found.ok THEN NodesAt(tree, j.found.node.path) ELSE {} IN
  IF there = {} THEN [job |-> j, hits |-> hits]
  ELSE [job  |-> [j EXCEPT !.done = TRUE],
        hits |-> hits \cup {Landed(j.call, CHOOSE n \in there : TRUE, j.found.node, j.found.when, TRUE, FALSE)}]
Press(call, click) ==
  IF tree.shown[click.point] = Nothing THEN hits
  ELSE hits \cup {Landed(call, tree.shown[click.point], click.target, click.when, click.checked, click.alike)}

\* one operation of a batch; one that fails leaves the others to run
Operate(b, j) ==
  LET k == [j EXCEPT !.ops = Tail(@), !.new = FALSE] IN
  CASE Head(j.ops) = "find"     -> [job |-> [k EXCEPT !.found = _op_find(b)], hits |-> hits]
    [] Head(j.ops) = "find_all" -> [job |-> [k EXCEPT !.all = [i \in DOMAIN _find_all(tree) |-> Hold(_find_all(tree)[i])]],
                                    hits |-> hits]
    [] Head(j.ops) = "at"       -> [job |-> [k EXCEPT !.at = _op_get_at_point(b, j.arg.point)], hits |-> hits]
    [] Head(j.ops) = "move"     -> [job |-> k, hits |-> hits]
    [] Head(j.ops) = "do"       -> _op_do_action(k)
    [] Head(j.ops) = "click"    -> [job |-> [k EXCEPT !.done = TRUE], hits |-> Press(j.call, j.arg)]

\* the worker goes on with a batch (wait_for is a find that is made late)
run_batch(b, i) == /\ jobs[i].ops # <<>>
                   /\ jobs' = [jobs EXCEPT ![i] = Operate(b, jobs[i]).job]
                   /\ hits' = Operate(b, jobs[i]).hits
                   /\ UNCHANGED <<tree, changes>>

\* the application changes its tree: what was found or checked before is stale
TreeChanges == /\ changes < MaxChanges /\ changes' = changes + 1
               /\ tree' \in Trees \ {tree}
               /\ UNCHANGED <<jobs, hits>>

UiInit == tree = [nodes |-> <<>>, probe |-> "none", same |-> FALSE, shown |-> <<>>] /\ changes = 0 /\ jobs = <<>> /\ hits = {}
=============================================================================
