CONSTANTS
  INT64_MAX = 3
  ToDouble <- Round
  NaN = NaN
  NoData = NoData
  Operands <- SomeValues
  MaxStack = 3
SPECIFICATION Spec
INVARIANTS
  TypeOK
  TruthIsKept
  TheTrueAreReturned
PROPERTIES
  WellTypedNeverThrows
