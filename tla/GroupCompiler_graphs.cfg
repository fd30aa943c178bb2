SPECIFICATION Spec
CONSTANTS
  N = 4
  Graphs <- MCGraphs
  Boxes <- MCBoxes
  MaxPorts = 2
INVARIANTS
  SameInputs
  NoDanglingLinks
  ExecutedOnce
CHECK_DEADLOCK FALSE
