SPECIFICATION FairSpec
CONSTANTS
  a = a
  b = b
  v1 = v1
  v2 = v2
  NoValue = NoValue
  Names = {a, b}
  Values = {v1, v2}
  BlockSize = 64
  PartSize = 192
  LenOf <- LenFull
  NameLen = 1
  Slacks = {0, 8}
  MaxObjects = 512
  FormatAllowed = TRUE
  FailPlaces <- OutsideFormat
INVARIANTS
  DestinationNeverFull
PROPERTIES
  ImplementsSpace
  EventuallyServes
  CallsReturn
