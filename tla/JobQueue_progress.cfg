SPECIFICATION FairSpec
CONSTANTS
  j1 = j1
  j2 = j2
  HARMONIZE = HARMONIZE
  Job = {j1}
  Worker = {w1, w2}
  Known = {j1}
  Topic <- SameWard
  NoTopic = NoTopic
  Error = {e1}
  NoError = NoError
  NoEntry = NoEntry
  NoWorker = NoWorker
  MaxAttempts = 2
  MaxCrash = 1
  MaxUnwind = 0
  MaxTheft = 0
  MaxRefuse = 0
  MaxDb = 1
  FaultBound <- Bounds
PROPERTIES
  EveryJobSettles
  NoRowRunsForever
