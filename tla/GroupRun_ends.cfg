SPECIFICATION GroupFairSpec
CONSTANTS
  Kinds = {"streamed", "posted", "preload"}
  Requests = {"streamed", "posted", "preload", "neighbour"}
  Streamed = {"streamed"}
  Prompts = {"streamed", "posted", "preload", "neighbour"}
  PromptOf <- OwnPrompts
  MaxTombstones = 1
  MaxRecords = 1
INVARIANTS
  GivenUpIsStopped
  OutputsAreThePeers
  JobEndsWithRun
PROPERTIES
  EveryRunEnds
CONSTRAINT
  BesidePosted
CHECK_DEADLOCK FALSE
