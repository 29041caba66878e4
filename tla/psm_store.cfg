SPECIFICATION Spec
CONSTANTS
  a = a
  b = b
  v1 = v1
  v2 = v2
  NoValue = NoValue
  Names = {a, b}
  Values = {v1, v2}
  BlockSize = 64
  PartSize = 256
  LenOf <- LenInside
  NameLen = 1
  Slacks = {0, 8}
  MaxObjects = 512
  FormatAllowed = TRUE
  FailPlaces <- OutsideFormat
INVARIANTS
  IInv
  ReadsAreDurable
  WritesHitBlankFlash
  AreasAreClean
  CountersMatchFlash
  IdsNameObjects
  NeverBricked
PROPERTIES
  ImplementsStore
