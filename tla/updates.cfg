CONSTANTS
  Requests = {"r1", "r2"}
  Releases <- AllReleases
  First <- FirstVersion
  HistoryCap = 2
  MaxEvents = 3
  NoVersion = NoVersion
SPECIFICATION Spec
INVARIANTS OneInstallation HistoryIsTrue
PROPERTIES InstallationEnds
CHECK_DEADLOCK FALSE
