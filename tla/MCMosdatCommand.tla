-------------------------- MODULE MCMosdatCommand --------------------------
(***************************************************************************)
(* The instance that TLC checks: the parameters of each handler.           *)
(***************************************************************************)
EXTENDS MosdatCommand

\* --- the scenario loader ---
Plain(n)       == [kind |-> "step", name |-> n, uses |-> NoVar, shows |-> None]
Typing(n, v)   == [kind |-> "step", name |-> n, uses |-> v, shows |-> None]
Imp(n)         == [kind |-> "import", name |-> n]
CallOf(n, w)   == [kind |-> "call", name |-> n, with |-> w]
Giving(v)      == [x \in {v} |-> "given"]
When(n, items) == [kind |-> "if", name |-> n, uses |-> NoVar, shows |-> None, then |-> items]
Routine(pre, main, input, required) ==
  [pre |-> pre, main |-> main, post |-> <<Plain("ok")>>, failure |-> <<>>, input |-> input, required |-> required,
   default |-> IF required THEN None ELSE "home"]
\* a fragment in a fragment, one used twice, a cycle, and one that calls a routine
MCFragments == [f \in {"login", "focus", "loop", "pool", "calls"} |->
                  CASE f = "login" -> <<Imp("focus"), Typing("name", "user"), Imp("focus")>>
                    [] f = "focus" -> <<Plain("raise")>>
                    [] f = "loop"  -> <<Plain("a"), Imp("pool")>>
                    [] f = "pool"  -> <<Imp("loop")>>
                    [] f = "calls" -> <<CallOf("open", <<>>), Imp("focus")>>]
\* a routine of the platform, one that calls another, and one that calls itself; one that
\* has an import, one with a variable that only a call can pass through, and two whose
\* on_failure calls a routine
MCRoutines ==
  [r \in {"linux"} \X {"open"} \cup {"any"} \X {"open", "start", "again", "imports", "maybe", "guard", "bad"} |->
     CASE r = <<"any", "open">>   -> Routine(<<>>, <<Typing("url", "url")>>, "url", TRUE)
       [] r = <<"linux", "open">> -> Routine(<<Plain("seen")>>, <<CallOf("start", <<>>), Typing("url", "url")>>, "url", FALSE)
       [] r[2] = "start"   -> Routine(<<>>, <<Typing("user", "user")>>, NoInput, TRUE)
       [] r[2] = "again"   -> Routine(<<>>, <<CallOf("again", <<>>)>>, NoInput, TRUE)
       [] r[2] = "imports" -> Routine(<<>>, <<Imp("focus")>>, NoInput, TRUE)
       [] r[2] = "maybe"   -> [Routine(<<>>, <<Typing("opt", "opt"), Typing("extra", "extra")>>, "opt", FALSE) EXCEPT !.default = "null"]
       [] r[2] = "guard"   -> [Routine(<<>>, <<Plain("try")>>, "url", TRUE) EXCEPT !.failure = <<CallOf("start", <<>>), Plain("off")>>]
       [] r[2] = "bad"     -> [Routine(<<>>, <<Plain("try")>>, NoInput, TRUE) EXCEPT !.failure = <<CallOf("guard", Giving("url")), CallOf("bad", <<>>)>>]]
File(items, yaml, phases) == [items |-> items, yaml |-> yaml, dir |-> "root", phases |-> phases]
User == [v \in {"user"} |-> "yaml"]
MCScenarios ==
  {File(items, yaml, <<>>) :
     items \in {<<Imp("login"), Plain("send"), Imp("login")>>, <<Imp("login"), Imp("loop")>>, <<Imp("absent")>>,
                <<CallOf("open", Giving("url")), Imp("calls"), Typing("last", "user")>>, <<CallOf("again", <<>>)>>,
                <<CallOf("missing", <<>>)>>, <<CallOf("maybe", Giving("extra")), CallOf("maybe", <<>>)>>,
                <<CallOf("maybe", Giving("extra"))>>, <<CallOf("guard", Giving("url"))>>, <<CallOf("guard", <<>>)>>,
                <<CallOf("bad", <<>>)>>, <<CallOf("imports", <<>>), Imp("focus")>>, <<When("if", <<Imp("focus")>>)>>,
                <<When("if", <<Typing("in", "user"), Plain("x")>>), CallOf("start", <<>>)>>, <<When("if", <<CallOf("start", <<>>)>>)>>},
     yaml \in {<<>>, User, [v \in {"user", "url"} |-> "yaml"]}}
  \cup {File(<<Imp("login"), Plain("send"), Imp("login")>>, User, phases) : phases \in {<<1, 3>>, <<2, 3, 5>>}}
  \cup {[File(<<Plain("x")>>, <<>>, <<>>) EXCEPT !.dir = "elsewhere"]}
MCOverrides == {<<>>, [v \in {"user"} |-> "cli"]}

\* --- mosdat functional: the second step is a deferred check of the steps around it ---
MCLabel    == <<"a", "b">>
MCDeferred == [s \in {2} |-> <<[kind |-> "num", num |-> 1], [kind |-> "label", label |-> "b"]>>]

\* --- the accessible trees: the application, and what the screen shows where ---
Node(path, match, off, size, at, passive, button) ==
  [path |-> path, match |-> match, named |-> path = <<>>, off |-> off, size |-> size, point |-> at,
   passive |-> passive, button |-> button]
Frame    == Node(<<>>, FALSE, FALSE, "large", 1, FALSE, FALSE)
Stale    == Node(<<0>>, TRUE, FALSE, "fit", 2, FALSE, TRUE)
Composer == Node(<<1>>, FALSE, FALSE, "fit", 2, FALSE, FALSE)
Entry    == Node(<<2>>, TRUE, FALSE, "fit", 3, FALSE, TRUE)
Icon     == Node(<<2, 0>>, FALSE, FALSE, "tiny", 3, TRUE, FALSE)
Foreign  == Node(NoPath, FALSE, FALSE, "fit", 1, FALSE, FALSE)
Moved    == Node(<<1>>, TRUE, FALSE, "none", 0, FALSE, TRUE)
\* a leftover node under the composer, and the menu item that is meant; then the menu
\* has closed and another window covers a part
Full   == [nodes |-> <<Frame, Stale, Composer, Entry, Icon>>, probe |-> "answers", same |-> TRUE,
           shown |-> <<Frame, Composer, Icon>>]
Closed == [nodes |-> <<Frame, Node(<<0>>, FALSE, FALSE, "fit", 2, FALSE, FALSE), Moved>>, probe |-> "none", same |-> TRUE,
           shown |-> <<Foreign, Composer, Nothing>>]
\* thirteen entries in a row, of which the second is meant, and the last covers it
Row(i) == Node(<<i>>, i = 1, FALSE, "fit", IF i \in {1, 12} THEN 2 ELSE 3, FALSE, TRUE)
Wide   == [nodes |-> <<Frame>> \o [i \in 1..13 |-> Row(i - 1)], probe |-> "answers", same |-> TRUE,
           shown |-> <<Frame, Row(12), Row(3)>>]
\* a bar with the name of the application in its title, whose first button covers the entry
Bar    == [Composer EXCEPT !.named = TRUE]
Button == Node(<<1, 0>>, FALSE, FALSE, "fit", 2, FALSE, TRUE)
Near   == [nodes |-> <<Frame, Stale, Bar, Button>>, probe |-> "answers", same |-> TRUE, shown |-> <<Frame, Button, Nothing>>]
MCTrees     == {Full, Closed, Wide, Near, [Near EXCEPT !.same = FALSE], [Full EXCEPT !.probe = "fails"]}
MCWideTrees == {Wide}

\* --- the VLM: left of the screen, its edges, and right of it ---
MCCoords == {-5, 0, 1000, 1300}

\* --- build: VMs and the --deploy lists ---
MCVMs     == [v \in {"fedora", "win10"} |-> IF v = "win10" THEN "windows" ELSE "linux"]
MCDeploys == {<<>>, <<"fedora">>, <<"win10">>, <<"fedora", "win10">>}

\* --- servers: a pull request, and two references with one project ---
MCRefs == [r \in {"pr-1", "7.10", "7-10"} |-> [project |-> IF r = "pr-1" THEN "p" ELSE "q", pr |-> r = "pr-1"]]
=============================================================================
