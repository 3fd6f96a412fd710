SPECIFICATION Spec
CONSTANTS
  w1 = w1
  w2 = w2
  none = none
  Kind <- AnyKind
  Worker <- TwoWorkers
  NoJob = none
  MaxAttempts = 2
  MaxRequests <- Thrice
  MaxFailures = 1
  MaxCrashes = 1
  MaxFaults = 1
  MaxRuns = 0
INVARIANTS
  TypeOK
  ReadyIsChained
  SheetsAreLocated
  RunsAreTruthful
CHECK_DEADLOCK FALSE
SYMMETRY Workers
