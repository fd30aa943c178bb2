SPECIFICATION Spec
CONSTANTS
  N = 4
  Graphs <- Odd
  Boxes <- MCBoxes
  MaxPorts = 2
INVARIANTS
  NoCrossTarget
CHECK_DEADLOCK FALSE
