SPECIFICATION FairSpec
CONSTANTS
  Sources <- OneAction
  MaxBlock = 3
  Restarts <- BothRestart
  MaxCrashes = 0
  MaxFaults = 0
  BareAnswers = TRUE
  Releases = FALSE
PROPERTY SubmissionsSettle
CHECK_DEADLOCK FALSE
