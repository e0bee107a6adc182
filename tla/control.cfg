CONSTANTS
  MaxPages = 3
  MaxTabs = 1
  Preloaded <- Two
  MaxTargets = 3
  MaxSwitches = 1
  MaxFaults = 5
SPECIFICATION FairSpec
INVARIANTS TabsAreConsistent FiveLossesInARow
PROPERTIES SwitchIsNoFailure PreloadedAndShownStay ControlComesBack
CHECK_DEADLOCK FALSE
