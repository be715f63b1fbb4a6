SPECIFICATION Spec
CONSTANTS
  p1 = p1
  p2 = p2
  FIX = FIX
  A = A
  B = B
  a1 = a1
  a2 = a2
  b1 = b1
  NoLeague = NoLeague
  Schedule = FIX
  DataType = {FIX}
  League = {A}
  Expected = {}
  Scope <- MCScope
  Covered <- MCCovered
  OffSeason = {}
  Tracked = {A}
  Polled = {A}
  Resolved = {A}
  LastWindow = "past"
  Proc = {p1}
  Fixture = {a1, a2}
  LeagueOf <- MCLeagueOf
INVARIANTS OutcomeHasRow RefreshSettles
PROPERTY FinishedStays
