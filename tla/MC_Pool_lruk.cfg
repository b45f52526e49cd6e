SPECIFICATION ReplacerSpec
CONSTANTS
  Thread = {t1, t2}
  Frame = {f1, f2}
  Data = {d1, d2}
  Zero = Zero
  NoPage = NoPage
  MaxPages = 3
  MaxPins = 1
  K = 2
  MaxAccesses = 5
INVARIANTS PinnedPageStays NoWriteLost NullMeansAllPinned VictimIsLRUK
SYMMETRY Symmetry
