CONSTANTS
  Requests = {"r1", "r2"}
  Releases <- AllReleases
  First <- FirstVersion
  HistoryCap = 2
  MaxEvents = 3
  NoVersion = NoVersion
SPECIFICATION Spec
INVARIANT ResultIsRecorded
CHECK_DEADLOCK FALSE
