SPECIFICATION FairSpec
CONSTANTS
  p1 = p1  p2 = p2  u1 = u1  u2 = u2  u3 = u3
  None = None
  Pairs = {p1, p2}
  Updates = {u1, u2, u3}
  TopicOf <- Topics
  Earlier <- PricesFirst
  TargetPairs <- BothPairs
  MaxTrades = 3
  MaxNonce = 2
  MaxLives = 2
INVARIANTS TypeOK PriceNotOlderThanBook OnePending SettlesInSigningOrder OnlyRestartsReuseNonces MissesOnlyStartUp
PROPERTIES FollowsTheVault
