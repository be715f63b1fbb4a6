SPECIFICATION Spec
CONSTANTS
  i1 = i1
  i2 = i2
  i3 = i3
  V = V
  Active = Active
  Instrument = {i1, i2, i3}
  Venue = {V}
  VenueOf <- MCVenueOf
  Answers <- MCAnswers
  Listed <- MCListed
  Ends <- MCEnds
  Job = {j1}
  WindowMin = 1
  Margin = 1
  RecentWindow = 3
  MaxRunDays = 1
  MaxDay = 4
  MaxJobs = 2
  MaxEdits = 1
INVARIANT TypeOK
PROPERTIES NeverLost FromNeverLater OnTimeSeen FullAuthoritative ThinDayClosesNobody OutageNotDelisting
CHECK_DEADLOCK FALSE
