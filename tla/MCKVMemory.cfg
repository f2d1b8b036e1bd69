SPECIFICATION Spec
CONSTANTS
  memPtrArray = 8
  MEM_PAGE_SIZE = 32
  MEM_POOL_SLOT_CNT = 2
  MEM_BLOCK_SIZE <- MCBlockSize
  AllocSize = {8, 9, 24}
  HeapAddr = {72, 200}
INVARIANTS
  TypeOK
  FreeListExact
  NoOverlap
PROPERTIES
  HeldBlocksUntouched
  ImplementsContract
