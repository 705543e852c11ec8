SPECIFICATION Spec
CONSTANTS
  b1 = b1
  s1 = s1
  b2 = b2
  T1 = T1
  T2 = T2
  Actions <- Reversal
  Tokens <- TwoTokens
  TokenOf <- ReversalToken
  SideOf <- ReversalSide
  Rank <- ReversalRank
  Want <- ReversalInParts
  MinSize = 1
  Wallet0 = 2
  Inventory0 <- ThreeShares
  MaxAttempts = 2
  MaxCrashes = 1
  SettlementLag = FALSE
  DelayedVenue = FALSE
  PartialReceipts = FALSE
INVARIANTS
  TypeOK
  LedgerAddsUp
  OrdersFitTarget
  NoDuplicateOrder
CHECK_DEADLOCK FALSE
