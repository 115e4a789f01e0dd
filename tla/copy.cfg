SPECIFICATION FairSpec
CONSTANTS
  Reference = {0}
  Wallet = {"leader"}
  Address <- MCAddress
  Rule <- MCRule
  Transfers <- MCTransfers
  MaxBlock = 3
  Confirmations = 1
  MaxBlockRange = 1
  Held = {0, 2}
  MaxTracked = 1
  Tick = {t1, t2}
  Request = {r1}
  Nobody = nobody
  MaxFaults = 1
INVARIANTS GapOnlyByFailure TwiceOnlyInRace CopyWithinMeans
PROPERTIES CatchesUp
