CONSTANTS
  CurrentVersion = 4
  DefaultSeconds = 3600
  Requests = {"r1", "r2"}
  Starts <- StartFiles
  Defaults <- Fresh
  Imports <- ImportFiles
  Changes <- ChangeNames
  Changed <- Apply
  Edits <- EditNames
  Edited <- Edit
  Keep = 2
  MaxEvents = 3
  MaxCrashes = 1
  NoConfig <- NoFile
  Damaged <- BrokenFile
SPECIFICATION Spec
INVARIANTS NormalForm
PROPERTIES SavesAllOrNothing SavesAreSerial MigrationKeepsProgramme
CHECK_DEADLOCK FALSE
