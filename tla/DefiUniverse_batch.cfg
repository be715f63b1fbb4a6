SPECIFICATION Spec
CONSTANTS
  pyth = pyth
  aave = aave
  late = late
  protocol = protocol
  Venue = {pyth, aave}
  ManifestName <- MCManifestName
  LaunchDay <- MCLaunchDay
  LastDay = 2
  MaxRuns = 2
CHECK_DEADLOCK FALSE
INVARIANTS TypeOK DaysAgree CollapseNeverServed
PROPERTIES RetryableNeverZero
