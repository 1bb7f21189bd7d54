SPECIFICATION HistSpec
CONSTANTS
  Undeclared = Undeclared
  NoRow = NoRow
  NoPath = NoPath
  Rows = {r1, r2}
  Deciders = {d1, d2}
  Callers = {c1}
  Tools <- OneGatedTool
  MaxClock = 0
  MaxFaults = 1
SYMMETRY RaceSymmetry
INVARIANTS
  TypeOK
  ApprovalIsOnRecord
  GatedCallIsOnRecord
  ReceiptNamesAFile
  ProvenanceIsTrue
PROPERTIES
  NeverPendingAgain
  TrayPromise
CHECK_DEADLOCK FALSE
