\* The code does not keep DoneMeansDrained.
SPECIFICATION Spec
CHECK_DEADLOCK FALSE
CONSTANTS
  j1 = j1  j2 = j2  j3 = j3  k1 = k1  k2 = k2
  Jobs = {j1, j2}
  Keys = {k1, k2}
  KeyOf <- TwoTrades
  MaxRetries = 2
  Other = Other
  MaxEvents = 1
  Concurrency = 1
INVARIANT DoneMeansDrained
