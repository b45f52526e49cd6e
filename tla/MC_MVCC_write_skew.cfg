SPECIFICATION Spec
CONSTANTS
  TxnCount = 2
  MaxKey = 2
  Levels = {"SERIALIZABLE_SNAPSHOT"}
  Calls = {"Read", "Write"}
  MaxOps = 2
  MaxGC = 0
  ShardCount = 2
  Preloaded = {}
INVARIANTS NoWriteSkew
