SPECIFICATION FairSpec
CONSTANTS
  j1 = j1  j2 = j2
  NoJob = NoJob
  Jobs <- MCJobs
  MaxLosses = 2
  MaxTasks = 2
  MaxFaults = 1
INVARIANTS NothingForgotten
PROPERTIES BeginsAlone MovesAndStartsEnd
