SPECIFICATION Spec
CONSTANTS
  s1 = s1  s2 = s2  ETH = ETH  USDC = USDC  uni = uni  pool = pool  p1 = p1
  ZeroAddress = ZeroAddress
  Signers = {s1}
  Nonces = {0, 1}
  Pairs = {p1}
  Tokens = {ETH, USDC}
  Dexes = {uni, pool}
  Amounts = {0, 1}
  Outputs = {0, 1}
  PriceLimits = {0}
  DexMenu <- RoutingMenu
  MaxConfigs = 2
  PairMenu <- MC_Pair
  DayLength = 1
  MaxTime = 0
  MaxBalance = 2
  MaxStray = 1
INVARIANTS RouterLeftClean SpendsAtMostSignedAmount CapitalMatchesEvents
PROPERTY ImplementsLedger
