SPECIFICATION Spec
CONSTANTS
  b1 = b1
  s1 = s1
  b2 = b2
  T1 = T1
  T2 = T2
  Actions <- Shared
  Tokens <- TwoTokens
  TokenOf <- SharedToken
  SideOf <- SharedSide
  Rank <- SharedRank
  Want <- SharedWant
  MinSize = 1
  Wallet0 = 1
  Inventory0 <- NoInventory
  MaxAttempts = 2
  MaxCrashes = 1
  SettlementLag = FALSE
  DelayedVenue = FALSE
  PartialReceipts = FALSE
INVARIANTS
  PositionIsReal
  OrdersAreCovered
CHECK_DEADLOCK FALSE
