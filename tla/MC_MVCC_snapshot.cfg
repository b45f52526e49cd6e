SPECIFICATION Spec
ACTION_CONSTRAINTS NoBeginDuringGC BegunInOrder
CONSTANTS
  TxnCount = 2
  MaxKey = 2
  Levels = {"SNAPSHOT"}
  Calls = {"Write"}
  MaxOps = 2
  MaxGC = 1
  ShardCount = 2
  Preloaded = {1, 2}
INVARIANTS ReadsSnapshot WriteOrderIsCommitOrder PendingHasOwner
PROPERTIES ImplementsSnapshotIsolation LatestCommittedKept
