SPECIFICATION FairSpec
CONSTANTS
  Workers = {w1, w2}
  Jobs = {j1, j2, j3}
  NoJob = NoJob
  NoWorker = NoWorker
  JobMayFail = TRUE
  CreateMayFail = TRUE
  SleepSuffices = FALSE
INVARIANTS
  JobsAtMostOnce
PROPERTIES
  DeallocateReturns
