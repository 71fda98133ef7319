CONSTANTS
  app = app
  agent = agent
  a1 = a1
  a2 = a2
  g1 = g1
  Client = {app, agent}
  Request = {a1, a2, g1}
  ClientOf <- AppAndAgent
  UserRoute = {a1}
  MaxPairs = 6
  MaxRetries = 1
  MaxExpiries = 1
  MaxMishaps = 0
  None = None
SPECIFICATION FairSpec
PROPERTY RefreshEnds
CHECK_DEADLOCK FALSE
