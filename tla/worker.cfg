SPECIFICATION WorkerSpec
CONSTANTS
  snipe = snipe tp = tp trail = trail sl = sl
  Tick = {k1}
  Rule = {snipe, tp, trail}
  Params <- MCParams
  Price = {10, 15, 20}
  Held = {0, 2, 4}
  Fill = 2
  MaxTime = 1
  MaxArms = 2
  MaxCrashes = 1
  MaxPools = 2
  MaxFailures = 1
CHECK_DEADLOCK FALSE
  
PROPERTIES ProfitIsTaken
