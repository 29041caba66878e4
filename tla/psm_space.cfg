SPECIFICATION Spec
CONSTANTS
  BlockSize = 64
  PartSize = 256
  Sizes = {15, 34, 120}
INVARIANTS
  DataBelowSwap
  AdmissionNeverWraps
  CopyBackFits
  IInv
CHECK_DEADLOCK FALSE
