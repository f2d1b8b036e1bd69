SPECIFICATION Spec
CONSTANTS
  Schema <- MCSchema
  SIZEOF_INT = 2
  SR_FIELD_VALUE_MAX_LENGTH = 5
  MaxByte = 2
  Text <- MCText
  Number <- MCNumber
  NoRow = NoRow
INVARIANTS
  TypeOK
  ValuesTerminated
  FittingRowsArrive
