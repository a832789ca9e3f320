------------------------------ MODULE Process ------------------------------
(***************************************************************************)
(* One mosdat process.  main (src/automation/main.py) calls the handler of *)
(* the command and exits with the code it returns, or with 1 when it       *)
(* raises.  The modules that extend this one are the handlers: each has    *)
(* labels of its own for pc, and actions that are guarded by them.         *)
(***************************************************************************)
EXTENDS Integers, Sequences, FiniteSets

CONSTANT MaxFaults     \* bound on the calls out of the process that fail

ASSUME ProcessAssumption == MaxFaults \in Nat

VARIABLES
  pc,       \* where the main thread stands
  code,     \* the exit code, NoCode before there is one
  faults    \* calls that failed so far (a bound, not state of the code)

process == <<pc, code, faults>>

NoCode == 256

At(l)     == pc = l
Goto(l)   == pc' = l /\ UNCHANGED code
Exit(c)   == pc' = "exited" /\ code' = c
\* the handler raises: main prints the error and returns 1
Raise     == Exit(1)
\* a call out of the process goes well, it fails, or, where it is made without a
\* timeout, it may not return at all
Fine      == UNCHANGED faults
Fault     == faults < MaxFaults /\ faults' = faults + 1
Hangs     == Fault /\ Goto("hung")

ProcessInit == pc = "main" /\ code = NoCode /\ faults = 0
=============================================================================
