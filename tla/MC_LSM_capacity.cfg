SPECIFICATION Spec
CONSTANTS
  Client = {c1}
  Key = {k1}
  Value = {v1}
  Background = Background
  Tombstone = Tombstone
  Absent = Absent
  Calls = {"Put"}
  FlushThreshold = 1
  TierThreshold = 4
  StallSize = 8
  TierCapacity = 16
  MaxTiers = 8
  CrashPoints = {}
  MaxWrites = 24
  MaxRestarts = 0
INVARIANTS ManifestFits
