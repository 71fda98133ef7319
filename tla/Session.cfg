CONSTANTS
  app = app
  agent = agent
  a1 = a1
  a2 = a2
  g1 = g1
  Client = {app, agent}
  Request = {a1, a2, g1}
  ClientOf <- AppAndAgent
  UserRoute = {}
  MaxPairs = 5
  MaxRetries = 1
  MaxExpiries = 1
  MaxMishaps = 1
  None = None
SPECIFICATION FairSpec
INVARIANTS HeldKeysAreLive SessionsAreBounded
PROPERTY RequestsEndOrStrand
CHECK_DEADLOCK FALSE
