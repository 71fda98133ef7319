CONSTANTS
  d1 = d1
  d2 = d2
  first = first
  base = base
  wild = wild
  shout = shout
  q1 = q1
  q2 = q2
  vpn = vpn
  Domain = {d1, d2}
  Rule = {first, base, wild, shout}
  Key <- Names
  Covers <- Matches
  DefaultRule = {base}
  UrlRule = {}
  IndicatorRule = {first}
  Query = {q1, q2}
  Server = {vpn}
  Scene = {"askers", "servers"}
  MaxTime = 3
  MaxQueries = 2
  MaxSyncs = 2
  MaxRestarts = 1
  None = None
SPECIFICATION FairSpec
INVARIANTS CachedAnswersHold DeltasAreComplete
PROPERTY BlockTakesEffectUnlessOvertaken
CHECK_DEADLOCK FALSE
