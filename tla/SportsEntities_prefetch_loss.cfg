SPECIFICATION Spec
CONSTANTS
  p1 = p1
  p2 = p2
  STATS = STATS
  EVENTS = EVENTS
  A = A
  B = B
  D = D
  X = X
  a1 = a1
  a2 = a2
  b1 = b1
  u1 = u1
  NoLeague = NoLeague
  DataType = {STATS}
  League = {A}
  Expected = {A}
  Scope <- MCScope
  Covered <- MCCovered
  OffSeason <- MCOffSeason
  Tracked = {A}
  Proc = {p1}
  Fixture = {a1, a2}
  LeagueOf <- MCLeagueOf
  Recovery <- MCRecovery
PROPERTIES CapturedFixturesSurvive
