\* One trade in flight, as service.ts has it; three trades, two attempts each.
SPECIFICATION FairSpec
CHECK_DEADLOCK FALSE
CONSTANTS
  j1 = j1  j2 = j2  j3 = j3  k1 = k1  k2 = k2
  Jobs = {j1, j2, j3}
  Keys = {k1, k2}
  KeyOf <- TwiceTheSame
  MaxRetries = 2
  Other = Other
  MaxEvents = 0
  Concurrency = 1
INVARIANTS FirstRevertIsFinal SettlesInOrder
PROPERTIES ImplementsPromise EveryTradeIsReported
