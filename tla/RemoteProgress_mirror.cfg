SPECIFICATION Spec
CONSTANTS
  r1 = r1
  r2 = r2
  n1 = n1
  n2 = n2
  m1 = m1
  m2 = m2
  Runs = {r1, r2}
  NodesOf <- MCNodesOf
  Modules = {m1, m2}
  Others = {e1}
  e1 = e1
  NoRun = NoRun
  Totals = {0, 1, 2}
  MaxBars = 2
  MaxWire = 2
SYMMETRY Same
CONSTRAINTS OneHalf FewBars
INVARIANTS
  NothingForgotten
  OnlyNativeBarsFail
  TqdmRestored
PROPERTIES
  ShownAdvances
CHECK_DEADLOCK FALSE
