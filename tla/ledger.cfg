SPECIFICATION Spec
CONSTANTS
  b1 = b1
  s1 = s1
  b2 = b2
  T1 = T1
  T2 = T2
  Actions <- Reversal
  Tokens <- TwoTokens
  TokenOf <- ReversalToken
  SideOf <- ReversalSide
  Rank <- ReversalRank
  Want <- ReversalWant
  MinSize = 1
  Wallet0 = 2
  Inventory0 <- OneShare
  MaxAttempts = 2
  MaxCrashes = 1
  SettlementLag = TRUE
  DelayedVenue = TRUE
  PartialReceipts = TRUE
INVARIANTS
  ReservationBacksAttempt
  LedgerAddsUp
  OrdersFitTarget
  NoReconciliationAnomaly
  OneInFlightPerToken
PROPERTY OutcomesAreFinal
CHECK_DEADLOCK FALSE
