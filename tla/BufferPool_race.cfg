CONSTANTS
  t1 = t1
  t2 = t2
  Thread = {t1, t2}
  NoThread = NoThread
  kPOOL_CAPACITY = 2
  kMAX_CAPACITY = 4
  kPIN_MODULUS = 8
  kMAX_PINS = 1
  kFREE_LIST_LIMIT = 8
  Exclusive = FALSE
  Faults = FALSE
SPECIFICATION Spec
INVARIANTS
  PinnedPageIsNotEvicted
