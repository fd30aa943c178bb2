SPECIFICATION FairSpec
CONSTANTS
  t1 = t1
  t2 = t2
  t3 = t3
  a1 = a1
  q1 = q1
  c1 = c1
  c2 = c2
  Tasks = {t1, t2, t3}
  Callbacks = {a1, q1, c1, c2}
  PhaseOf <- MCPhaseOf
  NoTask = NoTask
INVARIANTS
  AtMostOnce
  CleanWhenBack
  ErrorsReported
  NoLateInterrupt
  PhaseOrder
PROPERTIES
  EveryCallReturns
CHECK_DEADLOCK FALSE
