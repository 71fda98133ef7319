CONSTANTS
  splunk = splunk
  elastic = elastic
  e1 = e1
  e2 = e2
  Unrouted = Unrouted
  Ticker = Ticker
  Integration = {splunk, elastic}
  Event = {e1, e2}
  Wanted <- Filters
  BatchSize = 2
  MaxCrashes = 1
SPECIFICATION FairSpec
INVARIANTS EventsAreConserved QueuesHaveOwners
PROPERTIES ImplementsLedger QueuesAreFlushed
CHECK_DEADLOCK FALSE
