SPECIFICATION FairSpec
CONSTANTS
  Key = {k1}
  Value = {v1}
  Absent = Absent
  Pages = {{k1}}
  Calls = {"Delete", "Commit", "Abort"}
  CheckpointInterval = 1
  PowerLoss = TRUE
  MaxTxns = 2
  MaxLog = 5
  MaxCrashes = 2
INVARIANTS CheckpointComplete
PROPERTIES AckedCommitKept CallsReturn
