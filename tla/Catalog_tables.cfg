CONSTANTS
  Tx = {t1, t2}
  Name = {a, b}
  NoTx = NoTx
  kPOOL_CAPACITY = 2
  RowsPerPage = 1
  kMAX_CAPACITY = 5
  kFREE_LIST_LIMIT = 1
  Careful = TRUE
VIEW OpenTxs
SYMMETRY Symmetry
SPECIFICATION Spec
INVARIANTS
  PagesHaveOneOwner
  RowsMatchTables
  RollbackLeavesNothing
  UndoFindsItsTable
PROPERTIES
  ReopenFindsTheSameTables
