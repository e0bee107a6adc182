CONSTANTS
  Configs <- ThreeConfigs
  MaxInputs = 1
  MaxFaults = 1
SPECIFICATION Spec
INVARIANTS DiscoveryIsTracked CachedIsPublished
PROPERTY FollowsConfig
