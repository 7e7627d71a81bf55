SPECIFICATION FairSpec
CONSTANTS
  Proc = {p1, p2, p3}
  Key = {k1, k2}
  Entry = {e1, e2, e3}
  None = None
INVARIANTS MutualExclusion RowsAreInUse
PROPERTIES ImplementsKeyLocks WaiterGetsKey
