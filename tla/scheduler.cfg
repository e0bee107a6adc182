CONSTANTS
  DayLen = 4
  HourLen = 2
  Week = 2
  Configs <- AllConfigs
  Callers = {"caller"}
  Wishes <- AllWishes
  Topics = {"motion"}
  MaxRound = 2
  MaxTime = 6
  MaxEvents = 2
SPECIFICATION Spec
INVARIANTS AsleepIsCurrent RoundConverges FileFollowsOverride OneReloadADay TimelineAgrees
CHECK_DEADLOCK FALSE
