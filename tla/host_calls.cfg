SPECIFICATION FairSpec
CONSTANTS
  Tools = 3
  MaxNoise = 2
CHECK_DEADLOCK FALSE
PROPERTIES
  CallPromise
  TimersExpireDuringTheirCall
  EverySyncEnds
