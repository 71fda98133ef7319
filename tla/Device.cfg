CONSTANTS
  h1 = h1
  h2 = h2
  alice = alice
  bob = bob
  sim1 = sim1
  sim2 = sim2
  Handler = {h1, h2}
  Account = {alice, bob}
  SIM = {sim1, sim2}
  Keep = 1
  Scene <- Scenes
  MaxRequests = 4
  MaxFaults = 1
  Nobody = Nobody
  NoSIM = NoSIM
SYMMETRY Symmetry
SPECIFICATION Spec
INVARIANTS StaleCacheIsExplained TrustIsKept SIMEventsBalance HistoryIsBounded
PROPERTIES RowStands
CHECK_DEADLOCK FALSE
