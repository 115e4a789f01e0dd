SPECIFICATION WorkerSpec
CONSTANTS
  snipe = snipe tp = tp trail = trail sl = sl
  Tick = {k1}
  Rule = {snipe, tp, sl}
  Params <- MCParams
  Price = {10, 15, 20}
  Held = {0, 2, 4}
  Fill = 2
  MaxTime = 1
  MaxArms = 2
  MaxCrashes = 1
  MaxPools = 1
  MaxFailures = 0
CHECK_DEADLOCK FALSE
INVARIANTS RestartKeepsStop
