SPECIFICATION Spec
CONSTANTS
  p1 = p1
  p2 = p2
  FIX = FIX
  A = A
  B = B
  a1 = a1
  a2 = a2
  b1 = b1
  NoLeague = NoLeague
  Schedule = FIX
  DataType = {FIX}
  League = {A, B}
  Expected = {A, B}
  Scope <- MCScope
  Covered <- MCCovered
  OffSeason = {B}
  Tracked = {A, B}
  Polled = {A, B}
  Resolved = {A, B}
  LastWindow = "refresh"
  Proc = {p1}
  Fixture = {a1, b1}
  LeagueOf <- MCLeagueOf
INVARIANTS TypeOK CapturedHasFixtures
PROPERTY CapturedNotMasked
