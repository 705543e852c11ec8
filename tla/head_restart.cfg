SPECIFICATION Spec
CONSTANTS
  Sources <- TwoActions
  MaxBlock = 4
  Restarts <- BothRestart
  MaxCrashes = 2
  MaxFaults = 0
  BareAnswers = TRUE
  Releases = TRUE
INVARIANTS
  TypeOK
  NothingPassedUnseen
  NoBlindResubmission
PROPERTIES
  CursorMovesForward
  PassedIsExecuted
CHECK_DEADLOCK FALSE
