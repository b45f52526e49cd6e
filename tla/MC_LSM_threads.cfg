SPECIFICATION FairSpec
CONSTANTS
  Client = {c1,c2}
  Key = {k1}
  Value = {v1}
  Background = Background
  Tombstone = Tombstone
  Absent = Absent
  Calls = {"Put","Get"}
  FlushThreshold = 1
  TierThreshold = 2
  StallSize = 3
  TierCapacity = 3
  MaxTiers = 3
  CrashPoints = {"quiet"}
  MaxWrites = 3
  MaxRestarts = 1
INVARIANTS ReadersKeepTables
PROPERTIES CallsReturn CompactionSettles
