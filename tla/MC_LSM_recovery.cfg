SPECIFICATION Spec
CONSTANTS
  Client = {c1}
  Key = {k1}
  Value = {v1,v2}
  Background = Background
  Tombstone = Tombstone
  Absent = Absent
  Calls = {"Put"}
  FlushThreshold = 3
  TierThreshold = 4
  StallSize = 8
  TierCapacity = 16
  MaxTiers = 8
  CrashPoints = {"quiet","recovery"}
  MaxWrites = 2
  MaxRestarts = 2
INVARIANTS WritesKept
