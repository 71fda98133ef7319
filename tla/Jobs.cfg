CONSTANTS
  r1 = r1
  r2 = r2
  s1 = s1
  j1 = j1
  j2 = j2
  j3 = j3
  NoJob = NoJob
  Replica = {r1, r2}
  Called = {r1}
  Connector = {s1}
  JobId = {j1, j2, j3}
  MaxOverruns = 1
  MaxNow = 1
  MaxCancels = 1
  MaxCrashes = 1
  MaxFaults = 1
SPECIFICATION FairJobsSpec
INVARIANTS OneRunPerOverrun ChainsAreConserved
PROPERTY SourcesKeepRunning
