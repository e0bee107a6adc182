CONSTANTS
  Callers = {1, 2}
  UserKinds <- AllUserKinds
  MaxEvents = 2
  MaxGenerations = 3
SPECIFICATION FairSpec
INVARIANTS TypeOK OneBrowser StopFlagNamesThisBrowser NoRestartPlannedWhileHeld AutomationRespectsStop
PROPERTIES GuardClearedOnlyWhenDown GateIsReleased
CHECK_DEADLOCK FALSE
