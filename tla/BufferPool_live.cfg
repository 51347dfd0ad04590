CONSTANTS
  t1 = t1
  t2 = t2
  Thread = {t1, t2}
  NoThread = NoThread
  kPOOL_CAPACITY = 1
  kMAX_CAPACITY = 4
  kPIN_MODULUS = 4
  kMAX_PINS = 1
  kFREE_LIST_LIMIT = 8
  Exclusive = FALSE
  Faults = TRUE
SPECIFICATION FairSpec
INVARIANTS
  TableMatchesFrames
PROPERTIES
  CallsReturn
