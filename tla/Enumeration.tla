---------------------------- MODULE Enumeration ----------------------------
(***************************************************************************)
(* The order of what the code goes through one after the other: the frames *)
(* that are exported, the widgets that a walk finds.                       *)
(***************************************************************************)
EXTENDS Integers, FiniteSets

\* the numbers of a finite set, the smaller ones first
InOrder(ns) == CHOOSE s \in [1..Cardinality(ns) -> ns] : \A i, j \in DOMAIN s : i < j => s[i] < s[j]

\* the elements of a sequence at these positions
Picked(s, ns) == [i \in DOMAIN InOrder(ns) |-> s[InOrder(ns)[i]]]
=============================================================================
