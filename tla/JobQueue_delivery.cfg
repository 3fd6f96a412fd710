SPECIFICATION Spec
CONSTANTS
  j1 = j1
  j2 = j2
  HARMONIZE = HARMONIZE
  Job = {j1, j2}
  Worker = {w1, w2}
  Known = {j1, j2}
  Topic <- SameWard
  NoTopic = NoTopic
  Error = {e1}
  NoError = NoError
  NoEntry = NoEntry
  NoWorker = NoWorker
  MaxAttempts = 2
  MaxCrash = 1
  MaxUnwind = 0
  MaxTheft = 0
  MaxRefuse = 1
  MaxDb = 0
  FaultBound <- Bounds
SYMMETRY Workers
INVARIANTS
  TypeOK
  NothingElseIsLost
  OneJobPerWorker
  OneLiveCopy
  SkipsAreCovered
