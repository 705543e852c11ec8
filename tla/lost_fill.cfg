SPECIFICATION Spec
CONSTANTS
  b1 = b1
  s1 = s1
  b2 = b2
  T1 = T1
  T2 = T2
  Actions <- RoundTrip
  Tokens <- TwoTokens
  TokenOf <- RoundTripToken
  SideOf <- RoundTripSide
  Rank <- RoundTripRank
  Want <- RoundTripWant
  MinSize = 1
  Wallet0 = 2
  Inventory0 <- NoInventory
  MaxAttempts = 1
  MaxCrashes = 0
  SettlementLag = TRUE
  DelayedVenue = FALSE
  PartialReceipts = FALSE
INVARIANT PositionIsReal
CHECK_DEADLOCK FALSE
