SPECIFICATION Spec
CONSTANTS
  Client = {c1, c2}
  DbName = {d1}
  LabelName = {l1}
  Schema <- MCSchema
  BadSchema = BadSchema
  DbId = {1, 2}
  TableId = {11, 12}
  RowsPerPage = 1
  Wild <- WildSchema
  NULL = NULL
  Failed = Failed
SYMMETRY ClientSymmetry
VIEW WithoutRsp
INVARIANTS
  TypeOK
  RowsFitTheirTables
CHECK_DEADLOCK FALSE
