SPECIFICATION FairSpec
CONSTANTS
  Sources <- OneAction
  MaxBlock = 3
  Restarts <- BothRestart
  MaxCrashes = 2
  MaxFaults = 1
  BareAnswers = FALSE
  Releases = FALSE
PROPERTIES
  CatchesUp
  SubmissionsSettle
CHECK_DEADLOCK FALSE
