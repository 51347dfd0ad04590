CONSTANTS
  a = a
  t1 = t1
  t2 = t2
  f1 = f1
  f2 = f2
  Value = {a}
  Size = {1, 2}
  Blank = Blank
  INVALID_PAGE_ID = INVALID_PAGE_ID
  kPAGE_SIZE = 18
  kFREE_LIST_LIMIT = 8
  Thread = {t1, t2}
  Frame = {f1, f2}
  NoFrame = NoFrame
  NoTuple = NoTuple
  kMAX_CAPACITY = 6
  Careful = TRUE
  MaxCalls = 3
  kPIN_MODULUS = 8
  Stored <- FullPages
SYMMETRY Symmetry
VIEW ReadBytes
SPECIFICATION Spec
INVARIANTS
  ChainIsSound
  EveryPageHasAPlace
  RowsAreKept
  PinsAreHeld
PROPERTIES
  LinksStay
