SPECIFICATION ChainSpec
CONSTANTS
  N = 2
  Weight <- MCWeight
  FailureThreshold = 2
  Cooldown = 1
  MaxCooldown = 2
  MaxAttempts = 2
  Request = {r1, r2}
  Order = {b, s}
  BuySide = {b}
  AmountIn = 10
  SlippageBps = 1000
  FeeBps = 30
  ReservePairs <- MCReserves
  MaxLost = 1
CHECK_DEADLOCK FALSE
INVARIANTS UnavailableOnlyAfterFailures CreditedOnlyOwnSwap UnreportedOnlyByLostCall
PROPERTIES Rejoins
