SPECIFICATION RepairSpec
CONSTANTS
  g = g
  b1 = b1
  s1 = s1
  T1 = T1
  Actions <- Late
  Tokens <- OneToken
  TokenOf <- LateToken
  SideOf <- LateSide
  Rank <- LateRank
  Want <- LateWant
  Gap <- LateGap
  Outages = TRUE
  MinSize = 2
  Wallet0 = 2
  Inventory0 <- LateInventory
  MaxAttempts = 1
  MaxCrashes = 1
  SettlementLag = FALSE
  DelayedVenue = FALSE
  PartialReceipts = FALSE
INVARIANTS
  RepairTypeOK
  RecoveredInOrder
  CompletedIsSettled
  RecordsAgree
