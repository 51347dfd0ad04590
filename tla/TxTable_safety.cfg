CONSTANTS
  a = a
  t1 = t1
  t2 = t2
  Tx = {t1, t2}
  Value = {a}
  Size = {1, 2}
  Blank = Blank
  NoTuple = NoTuple
  INVALID_PAGE_ID = INVALID_PAGE_ID
  kPAGE_SIZE = 19
  MaxPages = 3
  MaxSlots = 2
  MaxCalls = 3
  Patient = TRUE
  Loaded <- Holed
SYMMETRY Symmetry
VIEW ReadBytes
SPECIFICATION Spec
INVARIANTS
  UnlockedIsCommitted
  ChangesAreLogged
  UndoFindsItsSlot
