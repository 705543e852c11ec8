SPECIFICATION FairSpec
CONSTANTS
  ledger = ledger
  coordinator = coordinator
  Databases <- TwoDatabases
  MaxTrades = 2
  MaxFaults = 3
  MaxCrashes = 2
INVARIANTS
  TypeOK
  FleetFitsDatabases
  NothingForgottenBeforeStart
  CommitIsFinal
  NeverLeftStopped
PROPERTIES
  RewrittenOffline
  FleetReturns
