SPECIFICATION MemSpec
CONSTANTS
  Record <- MCRecord
  PerPage = 2
  MaxRecords = 3
  MaxCrashes = 1
  PerDataPage = 2
  PerIndexPage = 1
  PerBloomPage = 3
  NumBits = 8
  NumHashes = 2
  Word = 16
  Hash1 <- MCHash1
  Hash2 <- MCHash2
  MaxKey = 3
  MaxHeight = 2
  NoValue = NoValue
  Garbage = Garbage
  Locked = FALSE
  TableKey = {1, 2, 3, 4, 5}
  TableContents <- MCTables
  v1 = v1
  t1 = t1
  t2 = t2
INVARIANTS ReadsShowHeld
