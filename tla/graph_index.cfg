SPECIFICATION Spec
CONSTANTS
  d1 = d1
  d2 = d2
  Absent = Absent
  NoText = NoText
  Docs <- MCDocs
  Keys <- MCKeys
  Near <- MCNear
  Texts <- MCTexts
  Triples <- MCTriples
  MaxId = 8
  CORROBORATION_MIN = 2
  MAX_COMENTION_ENTITIES = 2
  MaxIngests = 2
  MaxRuns = 2
  MaxFaults = 1
CHECK_DEADLOCK FALSE
INVARIANTS
  OneNodePerThing
  GraphHangsTogether
  LabelsLeadToDocuments
  DocumentIsConnected
