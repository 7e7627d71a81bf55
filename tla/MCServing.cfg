SPECIFICATION Spec
CONSTANTS
  Headers <- MCHeaders
  LayerSizes = {1, 2}
  MaxLayers = 2
  Whiteouts <- MCWhiteouts
  OpaqueMark = "wh.opq"
  MaxHops = 2
  Probes <- MCProbes
  Archives <- MCArchives
  Block = 2
  Contents <- MCContents
  Ranges <- MCRanges
  Children <- MCChildren
  PageNames = {1, 2, 3}
  PageSizes <- MCPageSizes
  MaxPageChanges = 2
  ListPage = 2
  Heights = {1, 3}
  RowCount = 3
  HexRow = 2
  Files <- MCFiles
  MaxWindowErrors = 1
  MaxTextLoads = 2
  Stored <- MCStored
  Exports <- MCExports
  Matching = {"m1"}
  NoTag = "none"
  MaxLacking = 2
  Attestations = {"m5"}
CHECK_DEADLOCK FALSE
INVARIANTS ServedAsBuilt EachFileItsRegion ResponseIsHonest RangeIsExact PagingIsFaithful PlanIsFaithful
PROPERTIES MergeIsOverlay FrameIsRight
