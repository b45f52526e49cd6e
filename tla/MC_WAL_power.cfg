SPECIFICATION Spec
CONSTANTS
  Key = {k1}
  Value = {v1, v2}
  Absent = Absent
  Pages = {{k1}}
  Calls = {"Commit"}
  CheckpointInterval = 1
  PowerLoss = TRUE
  MaxTxns = 2
  MaxLog = 6
  MaxCrashes = 1
INVARIANTS CommittedSurvives
SYMMETRY Symmetry
