-------------------------- MODULE MCFunctionalRun --------------------------
(* Instances of FunctionalRun for TLC.                                      *)
EXTENDS FunctionalRun

\* a step of every kind; two checkpoints, and one in an if_visible step
MCScenario == <<"checkpoint", "launch", "recorded", "checkpoint", "key", "poll",
                "nested", "ui", "shell", "wait_for">>
MCSnap     == [i \in Steps |-> CASE i = 4 -> "b" [] i = 7 -> "c" [] OTHER -> "a"]
MCRetries  == [i \in Steps |-> CASE i = 8 -> 2 [] i = 9 -> 0 [] OTHER -> 1]
MCAgents   == {2}

\* two checkpoints of one name
MCTwice    == <<"checkpoint", "key", "checkpoint", "wait_for">>
MCOneName  == [i \in Steps |-> "a"]

MCClick    == <<"checkpoint", "ui", "shell">>
MCOnce     == [i \in Steps |-> 1]
============================================================================
