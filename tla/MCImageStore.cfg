SPECIFICATION Spec
CONSTANTS
  Proc = {p1, p2}
  img = img
  idx = idx
  top = top
  b1 = b1
  Manifest <- MCManifest
  Image <- MCImage
  Blob <- MCBlob
  Tag = {t1}
  Blobs <- MCBlobs
  Layers <- MCBlobs
  Children <- MCChildren
  Subject <- MCSubject
  MaxCalls = 3
  MaxBlobOps = 2
  MaxFaults = 1
  None = None
SYMMETRY Symmetry
CHECK_DEADLOCK FALSE
INVARIANTS RefsAreWhole NamesHaveManifests DeleteIsComplete PutTakesEffect
PROPERTY IndexNeedsChildren
