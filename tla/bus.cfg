SPECIFICATION FairSpec
CONSTANTS
  Consumer = {c1, c2}
  BatchSize = 2
  MaxLen = 3
  MaxFaults = 1
CHECK_DEADLOCK FALSE
INVARIANTS NothingAbandoned
PROPERTIES DeliverySpec EveryEntryDispatched
