SPECIFICATION FairSpec
CONSTANTS
  Undeclared = Undeclared
  NoRow = NoRow
  NoPath = NoPath
  Rows = {r1, r2}
  Deciders = {d1}
  Callers = {c1}
  Tools <- OneExecTool
  MaxClock = 1
  MaxFaults = 1
INVARIANTS
  OnlyPlainPullsRunFree
PROPERTIES
  AcceptedDecisionLands
CHECK_DEADLOCK FALSE
