SPECIFICATION Spec
CONSTANTS
  t1 = t1
  t2 = t2
  t3 = t3
  t4 = t4
  f1 = f1
  f2 = f2
  g1 = g1
  A = A
  B = B
  Tasks = {t1, t2, t3, t4}
  Files = {f1, f2, g1}
  FileOf <- MCFileOf
  HostOf <- MCHostOf
  DestOf <- MCDestOf
  Contents = {A, B}
  Original <- MCOriginal
  MaxChanges = 1
  Posix = FALSE
  NoTask = NoTask
  Absent = Absent
  Partial = Partial
INVARIANTS
  OneTransferPerTarget
  ManifestIsTrue
  NoStagingLeft
  WaitsEnd
PROPERTIES
  StoreImplemented
SYMMETRY Sharing
CHECK_DEADLOCK FALSE
