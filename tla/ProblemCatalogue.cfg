SPECIFICATION Spec
CONSTANTS
  Importers = {p1, p2}
  Seeder = seed
  Visible = 2
  MaxCases = 2
  MaxIds = 2
INVARIANTS PartialRowsOwned TestsInOrder
PROPERTIES RollbackOwnRow
SYMMETRY Symmetry
CHECK_DEADLOCK FALSE
