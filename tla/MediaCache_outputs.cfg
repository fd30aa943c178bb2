SPECIFICATION Spec
CONSTANTS
  f1 = f1
  f2 = f2
  f3 = f3
  c1 = c1
  c2 = c2
  c3 = c3
  p1 = p1
  p2 = p2
  NoPrompt = NoPrompt
  NoFile = NoFile
  Files = {f1, f2, f3}
  Size <- MCSize
  Limit = 3
  Calls = {c1, c2, c3}
  Prompts = {p1, p2}
  MaxRestarts = 1
SYMMETRY Same
INVARIANTS
  CountsAreUsers
  UsedFilesStay
  WithinLimit
CHECK_DEADLOCK FALSE
