----------------------------- MODULE VmPromise -----------------------------
(***************************************************************************)
(* What the operations on one VM promise their callers, without locks,     *)
(* tasks or polling: one operation at a time; each takes effect at most    *)
(* once, as a whole, between its call and its answer; it is answered "ok"  *)
(* only if it did.  One that was not may still take effect later, and      *)
(* whoever deploys from the command line is not part of the arrangement.   *)
(***************************************************************************)
EXTENDS VmDisk

CONSTANT NoOp

VARIABLES caller,   \* who is in an operation
          op,       \* which
          done,     \* has it taken effect?
          later,    \* failed operations that may still take effect
          answer    \* the last answer to a caller

Init ==
  /\ StoreInit
  /\ caller = NoProc /\ op = NoOp /\ done = FALSE /\ later = {}
  /\ answer = "none"

Refuse ==
  /\ answer' \in {"busy", "raised", "none"}
  /\ UNCHANGED <<store, caller, op, done, later>>

Enter(p) ==
  /\ caller = NoProc
  /\ caller' = p /\ op' \in Ops /\ done' = FALSE
  /\ UNCHANGED <<store, later, answer>>

Act ==
  /\ caller # NoProc /\ ~done /\ Possible(op)
  /\ Effect(op) /\ done' = TRUE
  /\ UNCHANGED <<caller, op, later, answer>>

Succeed ==
  /\ caller # NoProc /\ done
  /\ answer' = "ok"
  /\ caller' = NoProc /\ op' = NoOp /\ done' = FALSE
  /\ UNCHANGED <<store, later>>

Fail ==
  /\ caller # NoProc
  /\ answer' \in {"raised", "none"}
  /\ caller' = NoProc /\ op' = NoOp /\ done' = FALSE
  /\ later' = later \/ (~done /\ later' = later \cup {op})
  /\ UNCHANGED store

Late ==
  /\ \E o \in later \cup Deploys :
       /\ (Possible(o) /\ Effect(o)) \/ UNCHANGED store
       /\ later' \in {later, later \ {o}}
  /\ UNCHANGED <<caller, op, done, answer>>

Next == Refuse \/ (\E p \in Procs : Enter(p)) \/ Act \/ Succeed \/ Fail \/ Late

Spec == Init /\ [][Next]_<<store, caller, op, done, later, answer>>
=============================================================================
