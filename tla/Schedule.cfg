CONSTANTS
  greynoise = greynoise
  loop1 = loop1
  loop2 = loop2
  other = other
  api1 = api1
  api2 = api2
  patch = patch
  NoSource = NoSource
  Source = {greynoise}
  Throttled = {greynoise}
  Loop = {loop1, loop2}
  Runner = {other}
  Admin = {patch}
  Proc = {api1, api2}
  ProcOf <- TwoReplicas
  Intervals <- EveryPeriod
  RetryAfter = {1, 2}
  PlanWait = 2
  MaxEdits = 1
  MaxLost = 1
SPECIFICATION FairSpec
INVARIANTS TypeOK OneTurnPerReplica AnswersPerWindow
PROPERTIES RevivedOnlyByHolders 
