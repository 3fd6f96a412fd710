SPECIFICATION FairSpec
CONSTANTS
  w1 = w1
  w2 = w2
  none = none
  Kind <- AnyKind
  Worker <- OneWorker
  NoJob = none
  MaxAttempts = 2
  MaxRequests <- ThriceUnread
  MaxFailures = 2
  MaxCrashes = 1
  MaxFaults = 2
  MaxRuns = 2
PROPERTIES
  HandoversEnd
CHECK_DEADLOCK FALSE
