CONSTANTS
  MaxEvents = 4
SPECIFICATION LoopFairSpec
INVARIANTS LoginIsWatched
PROPERTIES ReloadIsJustified HungPageIsReloaded
