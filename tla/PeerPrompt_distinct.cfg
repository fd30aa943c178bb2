SPECIFICATION FairSpec
CONSTANTS
  s1 = s1
  h1 = h1
  p1 = p1
  p2 = p2
  Requests = {s1, h1}
  Streamed = {s1}
  Prompts = {p1, p2}
  PromptOf <- DistinctPrompts
  MaxTombstones = 1
  MaxRecords = 2
INVARIANTS
  RecordedCancelHeeded
  NoOrphanWork
  NeighboursUntouched
  InputsKept
  TaskEndsWithHandler
PROPERTIES
  ServiceImplemented
  EveryRequestEnds
CHECK_DEADLOCK FALSE
