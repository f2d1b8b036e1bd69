SPECIFICATION RtSpec
CONSTANTS
  NameA = NameA
  NameB = NameB
  DbName = {NameA, NameB}
  LabelName = {NameA, NameB}
  Json <- PageJson
  NoJson = NoJson
  Malformed = Malformed
  NotArray = NotArray
  Unsupported = Unsupported
  UINT32 = 8
  INT_SIZE = 2
  NUL = "x"
  SR_LABEL_MAX_FILED_CNT = 2
  FirstGenNum = 1
  TABLE_ID_DIFF = 10
  MaxGenNum = 4
  MaxRowCnt = 2
  SE_HEAP_PAGE_SIZE = 4
  Byte = {"x", "y"}
  Garbage = "garbage"
  DB_VECTOR_INIT_CAPACITY = 1
VIEW RequestView
INVARIANTS
  TypeOK
  PagesConsistent
PROPERTIES
  RowsStay
  NothingLeftBehind
  NothingReachableFreed
  FailuresKeepStore
