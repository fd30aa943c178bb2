SPECIFICATION Spec
CONSTANTS
  c1 = c1
  c2 = c2
  f1 = f1
  f2 = f2
  base = base
  l1 = l1
  l2 = l2
  NoName = NoName
  NoContent = NoContent
  Clients <- MCClients
  Wants <- MCWants
  Local <- MCLocal
  Contents <- MCContents
  Installed <- MCInstalled
  Loras <- MCLoras
  Legacy <- MCLegacy
  Runs <- MCRuns
  MaxAdmin = 1
  CacheLimit = 1
INVARIANTS
  NoOrphanJobs
  CachesFollowFiles
  ResultsMatchNames
PROPERTIES
  LorasKept
CHECK_DEADLOCK FALSE
