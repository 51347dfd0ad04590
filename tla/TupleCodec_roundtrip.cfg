CONSTANTS
  ByteBits = 2
  Columns <- AllTypes
  MaxColumns = 3
  MaxString = 2
  Ints <- TwoInts
SPECIFICATION Spec
INVARIANTS
  RowRoundTrips
  SchemaRoundTrips
