CONSTANTS
  a = a
  b = b
  t1 = t1
  Tx = {t1}
  Value = {a, b}
  Size = {1, 14}
  Blank = Blank
  NoTuple = NoTuple
  INVALID_PAGE_ID = INVALID_PAGE_ID
  kPAGE_SIZE = 26
  MaxPages = 1
  MaxSlots = 4
  MaxCalls = 3
  Patient = TRUE
  Loaded <- OneLarge
VIEW ReadBytes
SPECIFICATION Spec
INVARIANTS
  RollbackIsIntact
