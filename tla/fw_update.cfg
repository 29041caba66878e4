SPECIFICATION Spec
CONSTANTS
  s1 = s1
  s2 = s2
  NoTable = NoTable
  Sessions = {s1, s2}
  MaxGen = 12
  MaxLevel = 5
  Tables <- MCTables
CHECK_DEADLOCK FALSE
SYMMETRY Symmetry
INVARIANTS
  PartInv
  TableSurvives
  AlwaysBoots
  Rollback
  RunningIsActive
PROPERTIES
  ImplementsAtomicTable
