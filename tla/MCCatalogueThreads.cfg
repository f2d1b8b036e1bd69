SPECIFICATION Spec
CONSTANTS
  Thread = {t1, t2}
  DbName = {a, b}
  LabelName = {l, k}
  Manager = {1, 2}
  Buffer = {1, 2, 3, 4, 5}
  DB_VECTOR_INIT_CAPACITY = 1
  MaxGenNum = 3
  MaxRowCnt = 2
  NULL = NULL
  Unused = Unused
  Freed = Freed
  Garbage = Garbage
SYMMETRY Symmetry
CONSTRAINT Telling
INVARIANTS
  ThreadsTypeOK
  IdsGivenOnce
  DbsKept
  TablesKept
  RowsKept
  
  NobodyStrays
CHECK_DEADLOCK FALSE
