SPECIFICATION Spec
CONSTANTS
  p1 = p1
  p2 = p2
  amm = amm
  cex = cex
  hub = hub
  lob = lob
  fut = fut
  Venue = {cex, fut, amm, hub}
  Proc = {p1}
  AssetGroup <- MCAssetGroup
  Launched = {cex, fut, amm}
  NonTrading = {fut}
  NoAdapter = {}
  Dispatch <- GroupDispatches
  RedoAll = {TRUE, FALSE}
  MaxRetries = 2
  Mode = "batch"
INVARIANTS TypeOK FailureVisible
PROPERTIES ImplementsCoverage SeedNeverMasks

