SPECIFICATION GroupSpec
CONSTANTS
  Kinds = {"streamed", "posted", "preload"}
  Requests = {"streamed", "posted", "preload"}
  Streamed = {"streamed"}
  Prompts = {"streamed", "posted", "preload"}
  PromptOf <- OwnPrompts
  MaxTombstones = 1
  MaxRecords = 1
INVARIANT
  NoLeaseLost
CHECK_DEADLOCK FALSE
