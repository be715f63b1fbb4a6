SPECIFICATION Spec
CONSTANTS
  p1 = p1
  p2 = p2
  STATS = STATS
  EVENTS = EVENTS
  A = A
  B = B
  D = D
  X = X
  a1 = a1
  a2 = a2
  b1 = b1
  u1 = u1
  NoLeague = NoLeague
  DataType = {STATS}
  League = {A, B, D}
  Expected = {A, B, D}
  Scope <- MCScope
  Covered <- MCCovered
  OffSeason <- MCOffSeason
  Tracked = {A, B, D}
  Proc = {p1}
  Fixture = {a1, a2, b1}
  LeagueOf <- MCLeagueOf
  Recovery <- MCRecovery
INVARIANTS TypeOK CapturedHasRows NothingCapturedNeverEmpty
PROPERTIES EmptyNeverStampedOverData RecoveryPreserves
