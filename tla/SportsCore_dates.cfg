SPECIFICATION Spec
CONSTANTS
  T = T
  S = S
  I = I
  A = A
  B = B
  n1 = n1
  n2 = n2
  NoLeague = NoLeague
  Teams = T
  Standings = S
  Injuries = I
  DataType = {T, S, I}
  League = {A, B, n1, n2}
  Expected = {A, B}
  Scope <- MCScope
  Covered <- MCCovered
  OffSeason = {}
  MaxVisits = 2
  ApiId <- MCApiId
INVARIANTS TypeOK CapturedHasFile OutageNeverAbsent
PROPERTY EmptyNeverOverFile
CHECK_DEADLOCK FALSE
