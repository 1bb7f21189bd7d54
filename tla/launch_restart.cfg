SPECIFICATION FairSpec
CONSTANTS
  Procs = {p1, p2, p3}
  Clients = {c1}
  MaxLaunches = 6
  MaxCrashes = 2
  MaxBooting = 2
  MaxSlow = 1
  Torn = Torn
INVARIANTS
  LiveTokenIsPublished
  RefusedOnlyAcrossRestart
PROPERTY UsableInTheEnd
CHECK_DEADLOCK FALSE
