SPECIFICATION Spec
CONSTANTS
  p1 = p1
  p2 = p2
  cex = cex
  lob = lob
  hub = hub
  fut = fut
  amm = amm
  Venue = {cex, lob, hub}
  Proc = {p1, p2}
  AssetGroup <- MCAssetGroup
  Launched = {cex, lob}
  NonTrading = {}
  NoAdapter = {lob}
  Dispatch <- CefiAlone
  RedoAll = {TRUE, FALSE}
  MaxRetries = 2
  Mode = "batch"
INVARIANTS CapturedHasObject NoSilentAbsence
