SPECIFICATION Spec
CONSTANTS
  k1 = k1
  k2 = k2
  Client = {c1, c2}
  Main = c1
  Recipe = c2
  Encoder = {x1, x2}
  Key = {k1, k2}
  BlobKey = k1
  PartKey = k2
  Offers <- MCOffers
  Holdings <- MCHoldings
  Packs <- MCPacks
  EmitBuffer = 1
  WriterCalls = 3
  WriterFaults = 1
  Chunks = 2
  Slots = 1
  Parts = 3
  TubeSlots = 1
  PullFaults = 2
  Nil = Nil
  Gone = Gone
CHECK_DEADLOCK FALSE
INVARIANTS ClosedIsWhole OutcomeIsRight PullIsHonest
PROPERTY EverythingEnds
