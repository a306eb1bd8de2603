\* Three jobs, two of them with the same trade; two in flight, one attempt.
SPECIFICATION Spec
CHECK_DEADLOCK FALSE
CONSTANTS
  j1 = j1  j2 = j2  j3 = j3  k1 = k1  k2 = k2
  Jobs = {j1, j2, j3}
  Keys = {k1, k2}
  KeyOf <- TwiceTheSame
  MaxRetries = 1
  Other = Other
  MaxEvents = 1
  Concurrency = 2
INVARIANTS TypeOK SlotsInUse StatsAddUp
PROPERTY ImplementsPromise
