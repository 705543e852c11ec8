SPECIFICATION FairSpec
CONSTANTS
  Profiles <- TwoSleeves
  Wallet = Wallet
  Platform = Platform
  Nobody = Nobody
  Unsampled = Unsampled
  Openings <- Opposed
  OpeningCash = 1
  LateTrading = FALSE
  MaxTrades = 0
  MaxDeposits = 0
  MaxCrashes = 0
PROPERTIES DistributionEnds
CHECK_DEADLOCK FALSE
