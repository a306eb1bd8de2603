SPECIFICATION FairSpec
CONSTANTS
  m1 = m1  k1 = k1  k2 = k2
  pool = pool
  NoRecord = NoRecord
  Torn = Torn
  Pools = {pool}
  Models = {m1}
  EncKeys = {k1, k2}
  MaxClock = 1
  MaxConnects = 2
  MaxCalls <- Limits
  EarlierKey <- RecordedWithK1
INVARIANTS TypeOK FeedsConserved TicksAccounted RecordsComplete DownloadsTheRecord
PROPERTIES BufferIsFlushed
CHECK_DEADLOCK FALSE
