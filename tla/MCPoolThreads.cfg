SPECIFICATION ThreadsSpec
CONSTANTS
  memPtrArray = 8
  MEM_PAGE_SIZE = 16
  MEM_POOL_SLOT_CNT = 2
  MEM_BLOCK_SIZE <- MCBlockSize
  AllocSize = {8, 9}
  HeapAddr = {100}
  Thread = {t1, t2}
  UINT32 = 4
  MaxHeld = 1
SYMMETRY ThreadSymmetry
INVARIANTS
  ThreadsTypeOK
  CalmListsExact
  SharingNeedsAlloc
PROPERTIES
  CallsAreAtomic
CHECK_DEADLOCK FALSE
