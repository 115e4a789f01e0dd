SPECIFICATION FairSpec
CONSTANTS
  limit = limit sl = sl dca = dca snipe = snipe
  Tick = {k1}
  Rule = {limit, sl, dca}
  Params <- MCParams
  Price = {10, 20}
  Held = {0, 2}
  MaxTime = 2
  MaxArms = 2
  MaxCrashes = 1
 
PROPERTIES  ClosedExitsRetire
