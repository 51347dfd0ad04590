CONSTANTS
  t1 = t1
  t2 = t2
  t3 = t3
  r1 = r1
  r2 = r2
  Tx = {t1, t2, t3}
  RID = {r1, r2}
SPECIFICATION FairSpec
INVARIANTS
  CompatibleHolders
  LockSetsMatchQueues
  NoLostWakeup
  UncommittedRowsAreLocked
  NothingLeftBehind
PROPERTIES
  LocksLeaveAtTheEnd
  WaitEnds
  RowLocksSpec
