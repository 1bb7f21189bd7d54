SPECIFICATION Spec
CONSTANTS
  Threads = {t1, t2}
  Spaces = {w1, w2}
  Flows = {f1, f2}
  TTL = 1
  MaxTries = 2
  MaxClock = 2
  MaxFaults = 1
  None = None
INVARIANTS
  TokenHasConsent
  ConsentIsSpentOnce
  ConnectionIsOnRecord
  DisconnectLasts
SYMMETRY LinkSymmetry
CHECK_DEADLOCK FALSE
