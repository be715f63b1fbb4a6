SPECIFICATION FairSpec
CONSTANTS
  p1 = p1
  p2 = p2
  amm = amm
  cex = cex
  fut = fut
  hub = hub
  lob = lob
  Venue = {cex, lob, hub}
  Proc = {p1}
  AssetGroup <- MCAssetGroup
  Launched = {cex, lob, hub}
  NonTrading = {}
  NoAdapter = {hub}
  Dispatch <- CefiAlone
  RedoAll = {TRUE, FALSE}
  MaxRetries = 2
  Mode = "batch"
INVARIANTS NoContradictoryStamp
PROPERTIES RunTerminates
