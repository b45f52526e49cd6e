SPECIFICATION Spec
CONSTANTS
  Client = {c1}
  Key = {k1,k2}
  Value = {v1,v2}
  Background = Background
  Tombstone = Tombstone
  Absent = Absent
  Calls = {"Put","Delete","Get"}
  FlushThreshold = 1
  TierThreshold = 2
  StallSize = 3
  TierCapacity = 8
  MaxTiers = 3
  CrashPoints = {"quiet"}
  MaxWrites = 4
  MaxRestarts = 1
INVARIANTS WritesKept GetIsCurrent ManifestTablesExist
PROPERTIES CompactionKeepsView
SYMMETRY Symmetry
