CONSTANTS
  BaseDelay = 1
  MaxShift = 1
  MaxDelay = 2
  Stable = 2
  Window = 3
  Budget = 2
  WatchdogEnabled = TRUE
  WatchWindow = 2
  WatchMax = 1
  Suppress = 3
  MaxTime = 5
  MaxAttempts = 2
  MaxBoots = 1
SPECIFICATION PolicySpec
INVARIANTS BudgetHeld
PROPERTIES CrashLoopSlowsDown WatchdogPauseHeld
