SPECIFICATION FairSpec
CONSTANTS
  c1 = c1
  c2 = c2
  None = None
  Callers = {c1, c2}
  QLen = 2
  Last = 3
INVARIANTS
  AnswerIsOwn
  FillsOwn
  IInv
PROPERTIES
  CommandsReturn
