\* An image that is replaced, in the catalog, and two text surfaces that share a place.
CONSTANTS
  \* model values
  i = i
  a = a
  b = b
  c = c
  Image = {i}
  Texture = {a, b, c}
  Surface = {b, c}
  ImageOf <- ImageOfTexture
  Catalog = {a}
  Slot = {1, 2}
  MaxSurfaces = 1
  \* bounds
  MaxSerial = 3
  MaxLeases = 2
  MaxReplaced = 1
  MaxFrames = 2
  MaxRequests = 1
SPECIFICATION FairSpec
INVARIANTS
  TypeOK
  PresentedAsDrawn
  FramesAreAccounted
  CaptureIsCurrent
PROPERTIES
  WaitsEnd
\* everything is closed in the end
CHECK_DEADLOCK FALSE
