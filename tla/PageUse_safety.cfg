CONSTANTS
  a = a
  b = b
  Value = {a, b}
  Size = {1, 2, 3}
  Blank = Blank
  NoTuple = NoTuple
  INVALID_PAGE_ID = INVALID_PAGE_ID
  kPAGE_SIZE = 25
  SlotLimit = 3
SYMMETRY Symmetry
VIEW ReadBytes
SPECIFICATION PageSpec
INVARIANTS
  TuplesApart
  SlotsAreKept
PROPERTIES
  CompactReclaims
