CONSTANTS
  DayLen = 4
  HourLen = 2
  Week = 2
  Configs <- Rotations
  Callers = {}
  Wishes <- AllWishes
  Topics = {"motion"}
  MaxRound = 5
  MaxTime = 5
  MaxEvents = 2
SPECIFICATION Spec
INVARIANT RotationPositionIsMeaningful
CHECK_DEADLOCK FALSE
