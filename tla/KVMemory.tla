------------------------------ MODULE KVMemory ------------------------------
(***************************************************************************)
(* The server's memory pool, common/kv_memory.c, as one thread sees it.    *)
(*                                                                         *)
(* MEM_POOL_SLOT_CNT pages lie one after the other from memPtrArray on.    *)
(* Page i is cut into blocks of MEM_BLOCK_SIZE[i] bytes.  The unused       *)
(* blocks of a page form a list threaded through the blocks themselves:    *)
(* the first word of an unused block is the address of the next one, so    *)
(* the same bytes are list structure while the block is free and caller    *)
(* data while it is handed out.  Addresses are numbers, NULL is 0.         *)
(*                                                                         *)
(* Of the contents of a block only the first word is kept, because it is   *)
(* the only one the allocator reads back.                                  *)
(***************************************************************************)
EXTENDS Integers

CONSTANTS
  memPtrArray,        \* address of the first page
  MEM_PAGE_SIZE,      \* bytes of a page
  MEM_POOL_SLOT_CNT,  \* number of pages, one size class each
  MEM_BLOCK_SIZE,     \* [slot |-> bytes of its blocks], in increasing order
  AllocSize,          \* the sizes callers ask for
  HeapAddr            \* the addresses malloc can return

Slot == 0 .. MEM_POOL_SLOT_CNT - 1

PoolEnd == memPtrArray + MEM_POOL_SLOT_CNT * MEM_PAGE_SIZE

ASSUME PoolAssumption ==
  /\ memPtrArray \in Nat \ {0}
  /\ MEM_PAGE_SIZE \in Nat \ {0}
  /\ MEM_POOL_SLOT_CNT \in Nat \ {0}
  /\ MEM_BLOCK_SIZE \in [Slot -> 1 .. MEM_PAGE_SIZE]
  /\ AllocSize \subseteq Nat

\* malloc returns regions outside the pages and apart from each other.
ASSUME HeapAssumption ==
  /\ HeapAddr \subseteq Nat \ {0}
  /\ \A h \in HeapAddr, s \in AllocSize :
       \/ PoolEnd <= h
       \/ h < memPtrArray /\ h + s <= memPtrArray
  /\ \A g, h \in HeapAddr, s \in AllocSize : g < h => g + s <= h

NULL == 0
USER_DATA == -1   \* a first word that a caller wrote
NotLive == -1     \* not a size: the address is not handed out

INVALID_SLOT_INDEX == MEM_POOL_SLOT_CNT

memPtr(i) == memPtrArray + i * MEM_PAGE_SIZE

BlockCnt(i) == MEM_PAGE_SIZE \div MEM_BLOCK_SIZE[i]

BlockAddr(i, j) == memPtr(i) + j * MEM_BLOCK_SIZE[i]

Blocks(i) == {BlockAddr(i, j) : j \in 0 .. BlockCnt(i) - 1}

Block == UNION {Blocks(i) : i \in Slot}

PageOf(b) == CHOOSE i \in Slot : b \in Blocks(i)

Addr == Block \cup HeapAddr

VARIABLES
  currMemPtr,    \* [slot |-> head of its list of unused blocks]
  freeBlockCnt,  \* [slot |-> length the code believes that list to have]
  word,          \* [block |-> its first word]
  live           \* [address |-> size it was handed out with, or NotLive]

vars == <<currMemPtr, freeBlockCnt, word, live>>

-----------------------------------------------------------------------------

\* Mutant: the address right behind the pages counts as one of theirs.
IsAllocByMemoryPoolToEnd(ptr) == memPtrArray <= ptr /\ ptr <= PoolEnd

IsAllocByMemoryPool(ptr) == memPtrArray <= ptr /\ ptr < PoolEnd

\* Mutant: the edge of a class is one byte too far.
ChooseSlotBlockIdByAllocSizeOffByOne(allocSize) ==
  LET fits == {i \in Slot : allocSize <= MEM_BLOCK_SIZE[i] + 1}
  IN  IF fits = {} THEN INVALID_SLOT_INDEX
                   ELSE CHOOSE i \in fits : \A j \in fits : i <= j

\* The first size class that is large enough.
ChooseSlotBlockIdByAllocSize(allocSize) ==
  LET fits == {i \in Slot : allocSize <= MEM_BLOCK_SIZE[i]}
  IN  IF fits = {} THEN INVALID_SLOT_INDEX
                   ELSE CHOOSE i \in fits : \A j \in fits : i <= j

\* memset(ptr, 0, n) clears the first word of every block that starts in the
\* n bytes: exactly one if ptr is a block of n bytes, more if it is smaller.
Memset(ptr, n) ==
  [b \in Block |-> IF ptr <= b /\ b < ptr + n THEN NULL ELSE word[b]]

KVMemoryPoolInit ==
  /\ currMemPtr = [i \in Slot |-> memPtr(i)]
  /\ freeBlockCnt = [i \in Slot |-> BlockCnt(i)]
  /\ word = [b \in Block |->
               LET next == b + MEM_BLOCK_SIZE[PageOf(b)]
               IN  IF next \in Blocks(PageOf(b)) THEN next ELSE NULL]
  /\ live = [a \in Addr |-> NotLive]

\* The pool serves the request: unlink the head block, then clear it.
KVMemPoolAlloc(allocSize) ==
  LET slotId == ChooseSlotBlockIdByAllocSize(allocSize)
      ptr    == currMemPtr[slotId]
  IN  /\ slotId # INVALID_SLOT_INDEX
      /\ freeBlockCnt[slotId] # 0
      /\ currMemPtr' = [currMemPtr EXCEPT ![slotId] = word[ptr]]
      /\ freeBlockCnt' = [freeBlockCnt EXCEPT ![slotId] = @ - 1]
      /\ word' = Memset(ptr, MEM_BLOCK_SIZE[slotId])
      /\ live' = [live EXCEPT ![ptr] = allocSize]

\* Mutant: the pool gives up with its last block unused.
KVMallocTooEarly(allocSize) ==
  LET slotId == ChooseSlotBlockIdByAllocSize(allocSize)
  IN  /\ slotId # INVALID_SLOT_INDEX => freeBlockCnt[slotId] <= 1
      /\ \E h \in {a \in HeapAddr : live[a] = NotLive} :
           live' = [live EXCEPT ![h] = allocSize]
      /\ UNCHANGED <<currMemPtr, freeBlockCnt, word>>

\* The pool answered NULL, so malloc serves the request.  (malloc may fail as
\* well; the caller then gets NULL and no state changes.)
KVMalloc(allocSize) ==
  LET slotId == ChooseSlotBlockIdByAllocSize(allocSize)
  IN  /\ slotId # INVALID_SLOT_INDEX => freeBlockCnt[slotId] = 0
      /\ \E h \in {a \in HeapAddr : live[a] = NotLive} :
           live' = [live EXCEPT ![h] = allocSize]
      /\ UNCHANGED <<currMemPtr, freeBlockCnt, word>>

KVMemAlloc(allocSize) == KVMemPoolAlloc(allocSize) \/ KVMalloc(allocSize)

\* Mutant: the head is moved before the block is linked, which links it to itself.
KVMemPoolFreeSwapped(ptr, freeSize) ==
  LET slotId == ChooseSlotBlockIdByAllocSize(freeSize)
  IN  IF slotId = INVALID_SLOT_INDEX
        THEN UNCHANGED <<currMemPtr, freeBlockCnt, word>>
        ELSE /\ currMemPtr' = [currMemPtr EXCEPT ![slotId] = ptr]
             /\ word' = [word EXCEPT ![ptr] = currMemPtr'[slotId]]
             /\ freeBlockCnt' = [freeBlockCnt EXCEPT ![slotId] = @ + 1]

\* Mutant: the link is written behind the block, not into it.
KVMemPoolFreeBehind(ptr, freeSize) ==
  LET slotId == ChooseSlotBlockIdByAllocSize(freeSize)
  IN  IF slotId = INVALID_SLOT_INDEX
        THEN UNCHANGED <<currMemPtr, freeBlockCnt, word>>
        ELSE /\ word' = [b \in Block |->
                           IF b = ptr + MEM_BLOCK_SIZE[slotId]
                             THEN currMemPtr[slotId] ELSE word[b]]
             /\ currMemPtr' = [currMemPtr EXCEPT ![slotId] = ptr]
             /\ freeBlockCnt' = [freeBlockCnt EXCEPT ![slotId] = @ + 1]

\* The list the block goes back to is chosen by the size the caller states,
\* not by the page the block came from.
KVMemPoolFree(ptr, freeSize) ==
  LET slotId == ChooseSlotBlockIdByAllocSize(freeSize)
  IN  IF slotId = INVALID_SLOT_INDEX
        THEN UNCHANGED <<currMemPtr, freeBlockCnt, word>>
        ELSE /\ word' = [word EXCEPT ![ptr] = currMemPtr[slotId]]
             /\ currMemPtr' = [currMemPtr EXCEPT ![slotId] = ptr]
             /\ freeBlockCnt' = [freeBlockCnt EXCEPT ![slotId] = @ + 1]

KVMemFree(ptr, freeSize) ==
  /\ live[ptr] # NotLive
  /\ live' = [live EXCEPT ![ptr] = NotLive]
  /\ IF IsAllocByMemoryPool(ptr)
       THEN KVMemPoolFree(ptr, freeSize)
       ELSE UNCHANGED <<currMemPtr, freeBlockCnt, word>>

\* A caller fills what it was given, and nothing else.
CallerWrites(ptr) ==
  /\ live[ptr] # NotLive
  /\ word' = [b \in Block |-> IF ptr <= b /\ b < ptr + live[ptr]
                                THEN USER_DATA ELSE word[b]]
  /\ UNCHANGED <<currMemPtr, freeBlockCnt, live>>

Init == KVMemoryPoolInit

\* Callers hand back the size they asked for.  (All but DMSrCreateDb, for a name
\* whose database's vector cannot be allocated, spr_db.c:48.  It is left out.)
Next ==
  \/ \E size \in AllocSize : KVMemAlloc(size)
  \/ \E ptr \in Addr : KVMemFree(ptr, live[ptr])
  \/ \E ptr \in Addr : CallerWrites(ptr)

Spec == Init /\ [][Next]_vars

-----------------------------------------------------------------------------
\* Properties

TypeOK ==
  /\ currMemPtr \in [Slot -> Block \cup {NULL}]
  /\ freeBlockCnt \in [Slot -> Nat]
  /\ word \in [Block -> Block \cup {NULL, USER_DATA}]
  /\ live \in [Addr -> AllocSize \cup {NotLive}]

Live(a) == live[a] # NotLive

\* g walks the list of slot i: n distinct blocks of its page, then NULL.
IsFreeList(i, n, g) ==
  /\ g[1] = currMemPtr[i]
  /\ g[n + 1] = NULL
  /\ \A k \in 1 .. n : g[k] \in Blocks(i) /\ word[g[k]] = g[k + 1]
  /\ \A k, l \in 1 .. n : g[k] = g[l] => k = l
  /\ \A b \in Blocks(i) : ~Live(b) <=> \E k \in 1 .. n : g[k] = b

\* Following the pointers kept inside the unused blocks of a page, from
\* currMemPtr, visits each unused block of that page once, no block that a
\* caller holds, and reaches NULL after exactly freeBlockCnt blocks: no block
\* is lost, none is listed twice, and the count test of KVMemPoolAlloc is what
\* keeps it from following a NULL pointer.
FreeListExactAt(i) ==
  \E g \in [1 .. freeBlockCnt[i] + 1 -> Blocks(i) \cup {NULL}] :
    IsFreeList(i, freeBlockCnt[i], g)

FreeListExact == \A i \in Slot : FreeListExactAt(i)

\* A block is handed out only for sizes of the class of its page, which is what
\* lets KVMemPoolFree find the page again from the size alone.
SizeOfItsPage ==
  \A i \in Slot : \A b \in Blocks(i) :
    Live(b) => ChooseSlotBlockIdByAllocSize(live[b]) = i

\* The byte ranges of two allocations that are out at once never overlap, be
\* they blocks of one page, of neighbouring pages, or of the C heap.
NoOverlap ==
  \A a, b \in Addr :
    Live(a) /\ Live(b) /\ a < b => a + live[a] <= b

\* While a caller holds a block, no allocation, release or write of another
\* caller changes what the block holds: its first word only ever becomes
\* caller data.  (The allocator writes list pointers into unused blocks and
\* clears whole blocks, so a wrong address or length would show here.)
HeldBlocksUntouched ==
  [][\A b \in Block :
       Live(b) /\ live'[b] = live[b] /\ word'[b] # word[b]
         => word'[b] = USER_DATA]_vars

PageContract == INSTANCE MemContract WITH
  BlockOf <- Blocks,
  SlotOf  <- ChooseSlotBlockIdByAllocSize

\* The lists implement the contract: which block is handed out when, and the
\* C heap only once every block of the class is out.
ImplementsContract == PageContract!Spec

=============================================================================
