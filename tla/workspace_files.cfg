SPECIFICATION KbSpec
CONSTANTS
  Users = {u1, u2}
  MaxFaults = 1
  InitialRows = {1, 2}
  MaxRow = 4
  Chunks = {1, 2, 3}
  BATCH = 1
  SampleSize = 1
  MaxSourceWrites = 1
  MaxTargetWrites = 1
SYMMETRY UserSymmetry
INVARIANTS
  HandedOutIsWhole
  RowsBelongTogether
PROPERTY ReportedCopyIsWhole
CHECK_DEADLOCK FALSE
