SPECIFICATION FairSpec
CONSTANTS
  Client = {c1, c2}
  DbName = {d1, d2}
  LabelName = {l1}
  Schema <- OneSchema
  BadSchema = BadSchema
  DbId = {1, 2}
  TableId = {}
  RowsPerPage = 1
  Wild = {}
  NULL = NULL
  Failed = Failed
VIEW WithoutRsp
INVARIANT
  HeldIdsNameTheirDb
PROPERTY
  CallsReturn
CHECK_DEADLOCK FALSE
