\* Re-running after one failure never completes the matrix.
SPECIFICATION RerunSpec
CONSTANTS
  NumVMs = 2
  NumPkgs <- MCPkgs
  Incomplete <- MCNo
  Quick <- MCNo
  MaxFaults = 1
  Only <- MCFull
PROPERTY ResumeCompletes
CHECK_DEADLOCK FALSE
