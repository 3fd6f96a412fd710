SPECIFICATION Spec
CONSTANTS
  j1 = j1
  j2 = j2
  HARMONIZE = HARMONIZE
  Job = {j1, j2}
  Worker = {w1, w2}
  Known = {j1}
  Topic <- SameWard
  NoTopic = NoTopic
  Error = {e1}
  NoError = NoError
  NoEntry = NoEntry
  NoWorker = NoWorker
  MaxAttempts = 2
  MaxCrash = 0
  MaxUnwind = 1
  MaxTheft = 1
  MaxRefuse = 1
  MaxDb = 1
  FaultBound <- Bounds
SYMMETRY Workers
INVARIANTS
  AckIsSafe
PROPERTY
  DeliverySpec
