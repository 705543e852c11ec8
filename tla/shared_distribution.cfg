SPECIFICATION FairSpec
CONSTANTS
  Profiles <- TwoSleeves
  Wallet = Wallet
  Platform = Platform
  Nobody = Nobody
  Unsampled = Unsampled
  Openings <- Level
  OpeningCash = 1
  LateTrading = FALSE
  MaxTrades = 1
  MaxDeposits = 3
  MaxCrashes = 1
INVARIANTS FrozenIsHeld CashIsBacked
PROPERTIES DistributionEnds PromiseKept
CHECK_DEADLOCK FALSE
