SPECIFICATION Spec
CONSTANTS
  Key = {1, 2, 3, 4, 5, 6, 7, 8, 9, 10}
  Value = {v}
  Absent = Absent
  LeafMax = 3
  InternalMax = 3
INVARIANTS LookupFindsContents ScanIsOrdered TreeWellFormed
PROPERTIES ImplementsKeyValueStore
