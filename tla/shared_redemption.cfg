SPECIFICATION Spec
CONSTANTS
  Profiles <- TwoSleeves
  Wallet = Wallet
  Platform = Platform
  Nobody = Nobody
  Unsampled = Unsampled
  Openings <- Mixed
  OpeningCash = 1
  LateTrading = TRUE
  MaxTrades = 1
  MaxDeposits = 1
  MaxCrashes = 1
INVARIANTS TypeOK OneRedemption NoLocalTakeover FinishedIsBooked
PROPERTIES FollowsTable
CHECK_DEADLOCK FALSE
