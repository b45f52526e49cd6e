SPECIFICATION IsolatedSpec
CONSTANTS
  Key = {k1, k2}
  Value = {v1}
  Absent = Absent
  Pages = {{k1}, {k2}}
  Calls = {"Delete", "Commit", "Abort"}
  CheckpointInterval = 1
  PowerLoss = FALSE
  MaxTxns = 2
  MaxLog = 6
  MaxCrashes = 2
INVARIANTS CommittedSurvives LosersUndone CompensatedOnce UndoLogIsChain
SYMMETRY Symmetry
