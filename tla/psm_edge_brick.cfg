SPECIFICATION Spec
CONSTANTS
  a = a
  b = b
  v1 = v1
  v2 = v2
  NoValue = NoValue
  Names = {a, b}
  Values = {v1, v2}
  BlockSize = 64
  PartSize = 256
  LenOf <- LenTouch
  NameLen = 1
  Slacks = {0}
  MaxObjects = 512
  FormatAllowed = FALSE
  FailPlaces <- Everywhere
INVARIANTS
  NeverBricked
