CONSTANTS
  h1 = h1
  h2 = h2
  alice = alice
  phone = phone
  v1 = v1
  v2 = v2
  Handler = {h1, h2}
  Identity = {alice, phone}
  Reporter <- SharedPhone
  Value = {v1}
  Limit = 1
  MaxReports = 3
  MaxReviews = 3
  MaxFaults = 1
CHECK_DEADLOCK FALSE
SPECIFICATION Spec
INVARIANTS IntakeIsBounded ApprovedIsLive DecisionsAreBounded
SYMMETRY Symmetry
