SPECIFICATION MCSpec
CONSTANTS
  Proc = {p1, p2}
  d1 = d1
  d2 = d2
  f1 = f1
  Digest <- MCDigest
  Part <- MCPart
  Parts <- MCParts
  Natures <- MCNatures
  Slots = 1
  MaxCalls = 3
  MaxFaults = 1
  None = None
CHECK_DEADLOCK FALSE
INVARIANTS RefsAreWhole StoredAsAllowed PathsOut ChargedOnce NoCircularWait
PROPERTIES NeverOverwritten ImplementsBlobMap EveryCallReturns
