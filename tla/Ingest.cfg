CONSTANTS
  h1 = h1
  abuse = abuse
  api = api
  worker = worker
  a1 = a1
  a2 = a2
  w1 = w1
  Hash = {h1}
  Source = {abuse}
  Proc = {api, worker}
  Fetcher = {a1, a2, w1}
  ProcOf <- ApiAndWorker
  Feed <- OneList
  MaxFaults = 1
  MaxCrashes = 1
SPECIFICATION FairSpec
INVARIANTS SeenIsStored AnnouncementsAreBacked AnnouncementsAreBounded
PROPERTIES ImplementsCatalog ServedIsStored RowsAreSynced
