SPECIFICATION FairSpec
CONSTANTS
  Workers = {w1, w2}
  Jobs = {j1, j2, j3}
  NoJob = NoJob
  NoWorker = NoWorker
  JobMayFail = FALSE
  CreateMayFail = TRUE
  SleepSuffices = TRUE
INVARIANTS
  NoJobLost
PROPERTIES
  JobEventuallyRuns
