SPECIFICATION Spec
CONSTANTS
  NameA = NameA
  NameB = NameB
  DbName = {NameA, NameB}
  LabelName = {NameA, NameB}
  Json <- CatalogueJson
  NoJson = NoJson
  Malformed = Malformed
  NotArray = NotArray
  Unsupported = Unsupported
  UINT32 = 4
  INT_SIZE = 1
  NUL = "x"
  SR_LABEL_MAX_FILED_CNT = 2
  FirstGenNum = 1
  TABLE_ID_DIFF = 10
  MaxGenNum = 4
  MaxRowCnt = 1
  SE_HEAP_PAGE_SIZE = 1
  Byte = {"x", "y"}
  Garbage = "garbage"
INVARIANTS
  NamesUnique
  IdsIdentify
PROPERTIES
  ImplementsStore
  HandlersImplementRequests
