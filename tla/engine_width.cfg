SPECIFICATION FairSpec
CONSTANTS
  t1 = t1 t2 = t2
  buy1 = buy1 more1 = more1 buy2 = buy2 sell1 = sell1
  Token <- MCToken
  Intent <- MCIntent
  SideOf <- MCSideOf
  TokenOf <- MCTokenOf
  AmountOf <- MCAmountOf
  Simulated <- MCSimulated
  Live = TRUE
  Fill = {2}
  ColumnMax = 1
  MaxOpen = 1
  MaxTotal = 0
  MaxNotional = 2
  MaxRetries = 1
  DeliveriesOf <- MCDeliveriesOf
  MaxFaults = 0
CHECK_DEADLOCK FALSE
INVARIANTS FailedDidNotTrade
