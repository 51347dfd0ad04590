CONSTANTS
  t1 = t1
  t2 = t2
  Thread = {t1, t2}
  kFREE_LIST_LIMIT = 1
  kMETADATA_BYTES = 40
  kMAX_CAPACITY = 5
  MaxCrashes = 1
SYMMETRY Symmetry
SPECIFICATION Spec
INVARIANTS
  FreePagesAreFree
  FreeListFitsPage
PROPERTIES
  LostOnlyAtTheLimit
