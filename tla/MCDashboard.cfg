SPECIFICATION FairSpec
CONSTANTS
  a1 = a1  a2 = a2  c1 = c1  c2 = c2  s1 = s1  s2 = s2
  None = None  Typed = Typed  Invalid = Invalid  Unread = Unread
  Accounts = {a1, a2}
  Chains = {c1, c2}
  Slots = {s1, s2}
  MaxConnects = 2
  MaxHandlers = 2
  MaxMounts = 2
  MaxTrades = 1
  MaxOutages = 2
  MaxWork = 4
INVARIANTS TypeOK ShownIsTheWallets BusyMeansInFlight OneTransactionAtATime DestinationKnown
PROPERTIES PageConverges
CHECK_DEADLOCK FALSE
