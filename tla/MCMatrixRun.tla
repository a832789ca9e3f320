---------------------------- MODULE MCMatrixRun ----------------------------
(* Instances of MatrixRun for TLC: a matrix of two VMs.                     *)
EXTENDS MatrixRun, Sequences

MCPkgs  == <<2, 1>>

MCFull  == {0}
MCScope == {0, 2}
MCNo    == {FALSE}
MCAny   == BOOLEAN
=============================================================================
