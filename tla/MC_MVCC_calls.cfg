SPECIFICATION FairSpec
ACTION_CONSTRAINT BegunInOrder
CONSTANTS
  TxnCount = 2
  MaxKey = 2
  Levels = {"SERIALIZABLE_SNAPSHOT"}
  Calls = {"Read", "Delete", "Abort"}
  MaxOps = 2
  MaxGC = 0
  ShardCount = 1
  Preloaded = {1}
INVARIANTS FirstCommitterWins SerializableReadsCurrent
PROPERTIES CallsReturn
