\* Two signers, two nonces, two days; one DEX that buys ETH for USDC.
SPECIFICATION Spec
CONSTANTS
  s1 = s1  s2 = s2  ETH = ETH  USDC = USDC  uni = uni  pool = pool  p1 = p1
  ZeroAddress = ZeroAddress
  Signers = {s1, s2}
  Nonces = {0, 1}
  Pairs = {p1}
  Tokens = {ETH, USDC}
  Dexes = {uni}
  Amounts = {1}
  Outputs = {1}
  PriceLimits = {0}
  DexMenu <- AccountsMenu
  MaxConfigs = 1
  PairMenu <- MC_Pairs
  DayLength = 1
  MaxTime = 1
  MaxBalance = 2
  MaxStray = 0
SYMMETRY SignerSymmetry
INVARIANTS TypeOK NonceSettlesOnce VolumeMatchesTrades
PROPERTY ImplementsLedger
