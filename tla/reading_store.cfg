SPECIFICATION ReadingFairSpec
CONSTANTS
  Terms = 2
  POOL_MULTIPLIER = 2
  KEYWORD_MULTIPLIER = 2
  Readers = {r1}
  Worlds <- MCWorlds
  K = 2
  GateItems = 2
  MaxRuns = 2
  MaxFaults = 1
CHECK_DEADLOCK FALSE
INVARIANTS
  WordsFindTheirPassage
  OneVersionOfADocument
PROPERTY BriefShips
