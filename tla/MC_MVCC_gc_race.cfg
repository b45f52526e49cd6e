SPECIFICATION Spec
CONSTANTS
  TxnCount = 2
  MaxKey = 1
  Levels = {"SNAPSHOT"}
  Calls = {"Write"}
  MaxOps = 1
  MaxGC = 1
  ShardCount = 2
  Preloaded = {1}
PROPERTIES SnapshotStable
