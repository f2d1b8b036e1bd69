--------------------------- MODULE KVMemoryProofs ---------------------------
(***************************************************************************)
(* Proofs about the memory pool of common/kv_memory.c, for every number,   *)
(* size and place of pages, every block size and every set of request      *)
(* sizes; first one call at a time (KVMemory), then under any number of    *)
(* threads and every interleaving of their accesses (KVMemoryThreads).     *)
(*                                                                         *)
(* One call at a time: the first part is arithmetic, how the blocks lie in *)
(* the pages.  The second shows that the lists threaded through the unused *)
(* blocks stay exact (IInv), on which everything else rests.               *)
(*                                                                         *)
(* Under threads there are three layers.  OwnClass holds whatever the      *)
(* races: a call, a link and a held block stay in their class, so classes  *)
(* do not disturb each other.  Shares holds in a class as long as no       *)
(* allocation overlapped a call: the holders are apart, and what the pool  *)
(* hands out next is unused.  Exact holds in a class as long as no two     *)
(* calls overlapped: the list is the list of one thread, in the middle of  *)
(* at most one call.                                                       *)
(***************************************************************************)
EXTENDS KVMemoryThreads, FiniteSetTheorems, WellFoundedInduction, TLAPS

-----------------------------------------------------------------------------
(* How blocks lie in their pages.                                          *)

\* A product grows with its first factor.
LEMMA TimesMonotone ==
  ASSUME NEW k \in Nat, NEW l \in Nat, NEW s \in Nat, k < l
  PROVE  k * s \in Nat /\ k * s + s <= l * s
<1>1. PICK d \in Nat : l = k + 1 + d
  BY l - k - 1 \in Nat
<1>2. d * s \in Nat /\ k * s \in Nat
  OBVIOUS
<1>3. l * s = k * s + s + d * s
  BY <1>1
<1> QED BY <1>2, <1>3

LEMMA TimesSuccessor ==
  ASSUME NEW k \in Nat, NEW s \in Nat
  PROVE  (k + 1) * s = k * s + s
OBVIOUS

\* The blocks of a page are whole blocks.
LEMMA BlockCntFits ==
  ASSUME NEW i \in Slot
  PROVE  /\ MEM_BLOCK_SIZE[i] \in Nat \ {0}
         /\ BlockCnt(i) \in Nat \ {0}
         /\ BlockCnt(i) * MEM_BLOCK_SIZE[i] <= MEM_PAGE_SIZE
<1> DEFINE s == MEM_BLOCK_SIZE[i]
           q == MEM_PAGE_SIZE \div s
<1>1. s \in 1 .. MEM_PAGE_SIZE /\ MEM_PAGE_SIZE \in Nat \ {0}
  BY PoolAssumption
<1>2. q \in Int /\ s * q <= MEM_PAGE_SIZE /\ MEM_PAGE_SIZE < s * q + s
  BY <1>1, SMTT(30)
<1>3. q >= 1
  <2>1. SUFFICES ASSUME q <= 0 PROVE FALSE
    BY <1>2
  <2>2. s * q <= 0
    BY <2>1, <1>1, <1>2, SMTT(30)
  <2> QED BY <1>1, <1>2, <2>2
<1>4. q * s = s * q
  BY <1>1, <1>2
<1> QED BY <1>1, <1>2, <1>3, <1>4 DEF BlockCnt

\* A page follows the one before it.
LEMMA PagesApart ==
  ASSUME NEW i \in Slot, NEW j \in Slot, i < j
  PROVE  /\ memPtr(i) \in Nat
         /\ memPtr(j) \in Nat
         /\ memPtr(i) + MEM_PAGE_SIZE <= memPtr(j)
BY PoolAssumption, TimesMonotone DEF memPtr, Slot

\* A block lies inside its page, and its page inside the pool.
LEMMA BlockInPage ==
  ASSUME NEW i \in Slot, NEW b \in Blocks(i)
  PROVE  /\ b \in Nat \ {0}
         /\ memPtr(i) <= b
         /\ b + MEM_BLOCK_SIZE[i] <= memPtr(i) + MEM_PAGE_SIZE
         /\ memPtrArray <= b
         /\ b + MEM_BLOCK_SIZE[i] <= PoolEnd
<1>1. PICK k \in 0 .. BlockCnt(i) - 1 : b = memPtr(i) + k * MEM_BLOCK_SIZE[i]
  BY DEF Blocks, BlockAddr
<1>2. /\ k \in Nat /\ k < BlockCnt(i) /\ BlockCnt(i) \in Nat
      /\ MEM_BLOCK_SIZE[i] \in Nat \ {0}
      /\ BlockCnt(i) * MEM_BLOCK_SIZE[i] <= MEM_PAGE_SIZE
      /\ BlockCnt(i) * MEM_BLOCK_SIZE[i] \in Nat
  BY BlockCntFits
<1>3. /\ k * MEM_BLOCK_SIZE[i] \in Nat
      /\ k * MEM_BLOCK_SIZE[i] + MEM_BLOCK_SIZE[i]
           <= BlockCnt(i) * MEM_BLOCK_SIZE[i]
  BY <1>2, TimesMonotone
<1>4. /\ i \in Nat /\ MEM_POOL_SLOT_CNT \in Nat /\ i < MEM_POOL_SLOT_CNT
      /\ MEM_PAGE_SIZE \in Nat /\ memPtrArray \in Nat \ {0}
  BY PoolAssumption DEF Slot
<1>5. /\ i * MEM_PAGE_SIZE \in Nat
      /\ i * MEM_PAGE_SIZE + MEM_PAGE_SIZE <= MEM_POOL_SLOT_CNT * MEM_PAGE_SIZE
      /\ MEM_POOL_SLOT_CNT * MEM_PAGE_SIZE \in Nat
  BY <1>4, TimesMonotone
<1>6. memPtr(i) = memPtrArray + i * MEM_PAGE_SIZE /\ memPtr(i) \in Nat
  BY <1>4, <1>5 DEF memPtr
<1>7. /\ b \in Nat \ {0} /\ memPtr(i) <= b
      /\ b + MEM_BLOCK_SIZE[i] <= memPtr(i) + MEM_PAGE_SIZE
  <2>1. PICK p \in Nat : p = k * MEM_BLOCK_SIZE[i]
    BY <1>3
  <2>2. p + MEM_BLOCK_SIZE[i] <= MEM_PAGE_SIZE
    <3>1. PICK q \in Nat : q = BlockCnt(i) * MEM_BLOCK_SIZE[i]
      BY <1>2
    <3> QED BY <1>2, <1>3, <1>4, <2>1, <3>1
  <2>3. b = memPtr(i) + p
    BY <1>1, <2>1
  <2>4. memPtrArray <= memPtr(i)
    <3>1. PICK r \in Nat : r = i * MEM_PAGE_SIZE
      BY <1>5
    <3> QED BY <1>4, <1>6, <3>1
  <2> QED BY <1>2, <1>4, <1>6, <2>2, <2>3, <2>4
<1> QED BY <1>2, <1>4, <1>5, <1>6, <1>7 DEF PoolEnd

\* No block starts inside another: not in its page, not in another page.
LEMMA BlocksApart ==
  ASSUME NEW i \in Slot, NEW b \in Blocks(i),
         NEW j \in Slot, NEW c \in Blocks(j),
         b <= c, c < b + MEM_BLOCK_SIZE[i]
  PROVE  i = j /\ b = c
<1>1. /\ i \in Nat /\ j \in Nat /\ MEM_PAGE_SIZE \in Nat
      /\ MEM_BLOCK_SIZE[i] \in Nat \ {0}
      /\ MEM_BLOCK_SIZE[j] \in Nat \ {0}
      /\ b \in Nat /\ c \in Nat
  BY BlockCntFits, BlockInPage, PoolAssumption DEF Slot
<1>2. CASE i < j
  BY <1>1, <1>2, PagesApart, BlockInPage
<1>3. CASE j < i
  <2>1. c + MEM_BLOCK_SIZE[j] <= memPtr(j) + MEM_PAGE_SIZE /\ memPtr(i) <= b
    BY BlockInPage
  <2>2. /\ memPtr(j) + MEM_PAGE_SIZE <= memPtr(i)
        /\ memPtr(i) \in Nat /\ memPtr(j) \in Nat
    BY <1>3, PagesApart
  <2> QED BY <1>1, <2>1, <2>2
<1>4. CASE i = j
  <2>1. PICK k \in 0 .. BlockCnt(i) - 1 : b = memPtr(i) + k * MEM_BLOCK_SIZE[i]
    BY DEF Blocks, BlockAddr
  <2>2. PICK l \in 0 .. BlockCnt(i) - 1 : c = memPtr(i) + l * MEM_BLOCK_SIZE[i]
    BY <1>4 DEF Blocks, BlockAddr
  <2>3. k \in Nat /\ l \in Nat
    BY BlockCntFits
  <2>4. memPtr(i) \in Nat
    BY <1>1, PoolAssumption DEF memPtr
  <2>5. k * MEM_BLOCK_SIZE[i] \in Nat /\ l * MEM_BLOCK_SIZE[i] \in Nat
    BY <1>1, <2>3
  <2>6. ~ (k < l)
    <3>1. k < l => k * MEM_BLOCK_SIZE[i] + MEM_BLOCK_SIZE[i] <= l * MEM_BLOCK_SIZE[i]
      BY <1>1, <2>3, TimesMonotone
    <3> QED BY <1>1, <2>1, <2>2, <2>4, <2>5, <3>1
  <2>7. ~ (l < k)
    <3>1. l < k => l * MEM_BLOCK_SIZE[i] + MEM_BLOCK_SIZE[i] <= k * MEM_BLOCK_SIZE[i]
      BY <1>1, <2>3, TimesMonotone
    <3> QED BY <1>1, <2>1, <2>2, <2>4, <2>5, <3>1
  <2>8. k = l
    BY <2>3, <2>6, <2>7
  <2> QED BY <1>4, <2>1, <2>2, <2>8
<1> QED BY <1>1, <1>2, <1>3, <1>4


-----------------------------------------------------------------------------
(* What the lookups and the clearing of a block do.                        *)

\* The size class that ChooseSlotBlockIdByAllocSize finds is large enough.
LEMMA ChosenSlotFits ==
  ASSUME NEW size \in Nat
  PROVE  LET r == ChooseSlotBlockIdByAllocSize(size)
         IN  /\ INVALID_SLOT_INDEX \notin Slot
             /\ r \in Slot \cup {INVALID_SLOT_INDEX}
             /\ r \in Slot => size <= MEM_BLOCK_SIZE[r]
<1> DEFINE fits == {i \in Slot : size <= MEM_BLOCK_SIZE[i]}
<1>1. INVALID_SLOT_INDEX \notin Slot
  BY PoolAssumption DEF INVALID_SLOT_INDEX, Slot
<1>2. ASSUME fits # {}
      PROVE  \E i \in fits : \A j \in fits : i <= j
  <2>1. fits \subseteq Nat
    BY DEF Slot
  <2>2. PICK i \in fits : \A j \in fits : <<j, i>> \notin OpToRel(<, Nat)
    BY <1>2, <2>1, NatLessThanWellFounded, WFMin
  <2>3. \A j \in fits : ~ (j < i)
    BY <2>1, <2>2 DEF OpToRel
  <2>4. \A j \in fits : i <= j
    <3> TAKE j \in fits
    <3>1. i \in Nat /\ j \in Nat /\ ~ (j < i)
      BY <2>1, <2>3
    <3> QED BY <3>1
  <2> QED BY <2>4
<1>3. fits # {} => (CHOOSE i \in fits : \A j \in fits : i <= j) \in fits
  BY <1>2
<1> QED BY <1>1, <1>3 DEF ChooseSlotBlockIdByAllocSize

\* A block lies in one page.
LEMMA PageOfBlock ==
  ASSUME NEW i \in Slot, NEW b \in Blocks(i)
  PROVE  /\ b \in Block
         /\ PageOf(b) = i
         /\ \A j \in Slot : b \in Blocks(j) => j = i
<1>1. b \in Block
  BY DEF Block
<1>2. \A j \in Slot : b \in Blocks(j) => j = i
  <2>1. b <= b /\ b < b + MEM_BLOCK_SIZE[i]
    BY BlockInPage, BlockCntFits
  <2> QED BY <2>1, BlocksApart
<1> QED BY <1>1, <1>2 DEF PageOf

\* A byte range that starts at a block and is no longer than it holds the
\* start of no other block.
LEMMA OneBlockInRange ==
  ASSUME NEW i \in Slot, NEW b \in Blocks(i), NEW n \in Nat,
         n <= MEM_BLOCK_SIZE[i],
         NEW c \in Block, b <= c, c < b + n
  PROVE  c = b
<1>1. PICK j \in Slot : c \in Blocks(j)
  BY DEF Block
<1>2. c < b + MEM_BLOCK_SIZE[i]
  BY BlockCntFits, BlockInPage, <1>1
<1> QED BY <1>1, <1>2, BlocksApart

\* Clearing a whole block changes the first word of that block only.
LEMMA MemsetClearsOne ==
  ASSUME NEW i \in Slot, NEW b \in Blocks(i)
  PROVE  Memset(b, MEM_BLOCK_SIZE[i]) =
           [c \in Block |-> IF c = b THEN NULL ELSE word[c]]
<1>1. \A c \in Block : b <= c /\ c < b + MEM_BLOCK_SIZE[i] <=> c = b
  BY OneBlockInRange, BlockCntFits, BlockInPage
<1> QED BY <1>1 DEF Memset

\* NULL and the marker of caller data are no block addresses.
LEMMA NullIsNoBlock ==
  NULL \notin Block /\ USER_DATA \notin Block /\ NULL # USER_DATA
BY BlockInPage DEF Block, NULL, USER_DATA

\* What malloc returned lies outside the pool, and covers no block of it.
LEMMA HeapOutsidePool ==
  ASSUME NEW h \in HeapAddr, NEW s \in AllocSize
  PROVE  /\ ~ IsAllocByMemoryPool(h)
         /\ h \notin Block
         /\ \A b \in Block : ~ (h <= b /\ b < h + s)
<1>1. h \in Nat /\ s \in Nat /\ memPtrArray \in Nat
  BY PoolAssumption, HeapAssumption
<1>2. PoolEnd \in Nat
  <2>1. MEM_POOL_SLOT_CNT * MEM_PAGE_SIZE \in Nat
    BY PoolAssumption
  <2> QED BY <2>1, PoolAssumption DEF PoolEnd
<1>3. \A b \in Block : b \in Nat /\ memPtrArray <= b /\ b < PoolEnd
  BY <1>2, BlockInPage, BlockCntFits DEF Block
<1>4. PoolEnd <= h \/ (h < memPtrArray /\ h + s <= memPtrArray)
  BY HeapAssumption
<1> QED BY <1>1, <1>2, <1>3, <1>4 DEF IsAllocByMemoryPool

\* The blocks are in the pool, and so are recognised when they come back.
LEMMA BlockInPool ==
  ASSUME NEW b \in Block
  PROVE  IsAllocByMemoryPool(b)
<1>1. PICK i \in Slot : b \in Blocks(i)
  BY DEF Block
<1>2. PoolEnd \in Nat
  <2>1. MEM_POOL_SLOT_CNT * MEM_PAGE_SIZE \in Nat
    BY PoolAssumption
  <2> QED BY <2>1, PoolAssumption DEF PoolEnd
<1>3. /\ b \in Nat /\ memPtrArray <= b
      /\ b + MEM_BLOCK_SIZE[i] <= PoolEnd
      /\ MEM_BLOCK_SIZE[i] \in Nat \ {0}
  BY <1>1, BlockInPage, BlockCntFits
<1> QED BY <1>2, <1>3, PoolAssumption DEF IsAllocByMemoryPool

-----------------------------------------------------------------------------
(* The inductive invariant: the lists are exact, and every block that is   *)
(* out is out for a size of its own class, without which a block would     *)
(* come back to the list of another page.                                  *)

IInv == TypeOK /\ SizeOfItsPage /\ FreeListExact

\* The list of a page stays exact when neither its head and count, nor the
\* unused blocks of the page change.
LEMMA ListKept ==
  ASSUME NEW i \in Slot, FreeListExactAt(i),
         currMemPtr'[i] = currMemPtr[i],
         freeBlockCnt'[i] = freeBlockCnt[i],
         \A b \in Blocks(i) : /\ Live(b)' <=> Live(b)
                              /\ ~ Live(b) => word'[b] = word[b]
  PROVE  FreeListExactAt(i)'
<1>1. PICK g \in [1 .. freeBlockCnt[i] + 1 -> Blocks(i) \cup {NULL}] :
             IsFreeList(i, freeBlockCnt[i], g)
  BY DEF FreeListExactAt
<1>2. \A k \in 1 .. freeBlockCnt[i] : g[k] \in Blocks(i) /\ ~ Live(g[k])
  BY <1>1 DEF IsFreeList
<1>3. IsFreeList(i, freeBlockCnt[i], g)'
  BY <1>1, <1>2 DEF IsFreeList
<1> QED BY <1>1, <1>3 DEF FreeListExactAt

\* An exact list with a positive count starts with an unused block of its
\* page, and the rest of it is an exact list of the other unused blocks.
LEMMA ListPop ==
  ASSUME TypeOK, NEW i \in Slot, FreeListExactAt(i), freeBlockCnt[i] # 0,
         currMemPtr'[i] = word[currMemPtr[i]],
         freeBlockCnt'[i] = freeBlockCnt[i] - 1,
         \A b \in Blocks(i) \ {currMemPtr[i]} :
            live'[b] = live[b] /\ word'[b] = word[b],
         live'[currMemPtr[i]] # NotLive
  PROVE  FreeListExactAt(i)'
<1>0. PICK n \in Nat \ {0} : n = freeBlockCnt[i]
  BY DEF TypeOK
<1>1. PICK g \in [1 .. n + 1 -> Blocks(i) \cup {NULL}] : IsFreeList(i, n, g)
  BY <1>0 DEF FreeListExactAt
<1> DEFINE h == [k \in 1 .. (n - 1) + 1 |-> g[k + 1]]
<1>2. h \in [1 .. (n - 1) + 1 -> Blocks(i) \cup {NULL}]
  BY <1>0, <1>1
<1>3. g[1] = currMemPtr[i] /\ g[1] \in Blocks(i) /\ word[g[1]] = g[2]
  BY <1>0, <1>1 DEF IsFreeList
<1>4. \A k \in 1 .. n - 1 : g[k + 1] \in Blocks(i) /\ g[k + 1] # g[1]
  BY <1>0, <1>1 DEF IsFreeList
<1>5. h[1] = currMemPtr'[i] /\ h[(n - 1) + 1] = NULL
  BY <1>0, <1>1, <1>3 DEF IsFreeList
<1>6. \A k \in 1 .. n - 1 : h[k] \in Blocks(i) /\ word'[h[k]] = h[k + 1]
  <2> TAKE k \in 1 .. n - 1
  <2>1. k + 1 \in 1 .. n /\ k \in 1 .. (n - 1) + 1 /\ k + 1 \in 1 .. (n - 1) + 1
    BY <1>0
  <2>2. word[g[k + 1]] = g[k + 1 + 1]
    BY <1>1, <2>1 DEF IsFreeList
  <2> QED BY <1>3, <1>4, <2>1, <2>2
<1>7. \A k, l \in 1 .. n - 1 : h[k] = h[l] => k = l
  <2> TAKE k, l \in 1 .. n - 1
  <2>1. /\ k + 1 \in 1 .. n /\ l + 1 \in 1 .. n
        /\ k \in 1 .. (n - 1) + 1 /\ l \in 1 .. (n - 1) + 1
    BY <1>0
  <2>2. g[k + 1] = g[l + 1] => k + 1 = l + 1
    BY <1>1, <2>1 DEF IsFreeList
  <2> QED BY <2>1, <2>2
<1>8. \A b \in Blocks(i) : ~ Live(b)' <=> \E k \in 1 .. n - 1 : h[k] = b
  <2> TAKE b \in Blocks(i)
  <2>1. CASE b = g[1]
    <3>1. \A k \in 1 .. n - 1 : h[k] # b
      BY <1>0, <1>4, <2>1
    <3> QED BY <1>3, <2>1, <3>1 DEF Live
  <2>2. CASE b # g[1]
    <3>1. ~ Live(b)' <=> ~ Live(b)
      BY <1>3, <2>2 DEF Live
    <3>2. ~ Live(b) <=> \E k \in 1 .. n : g[k] = b
      BY <1>1 DEF IsFreeList
    <3>3. (\E k \in 1 .. n : g[k] = b) => \E k \in 1 .. n - 1 : h[k] = b
      <4> SUFFICES ASSUME NEW k \in 1 .. n, g[k] = b
                   PROVE  \E m \in 1 .. n - 1 : h[m] = b
        OBVIOUS
      <4>1. k # 1 /\ k - 1 \in 1 .. n - 1 /\ k - 1 \in 1 .. (n - 1) + 1
        BY <1>0, <2>2
      <4>2. h[k - 1] = b
        BY <4>1
      <4> QED BY <4>1, <4>2
    <3>4. (\E k \in 1 .. n - 1 : h[k] = b) => \E k \in 1 .. n : g[k] = b
      <4> SUFFICES ASSUME NEW k \in 1 .. n - 1, h[k] = b
                   PROVE  \E m \in 1 .. n : g[m] = b
        OBVIOUS
      <4>1. k + 1 \in 1 .. n /\ g[k + 1] = b
        BY <1>0
      <4> QED BY <4>1
    <3> QED BY <3>1, <3>2, <3>3, <3>4
  <2> QED BY <2>1, <2>2
<1>9. IsFreeList(i, n - 1, h)'
  BY <1>5, <1>6, <1>7, <1>8 DEF IsFreeList
<1> QED BY <1>0, <1>2, <1>9 DEF FreeListExactAt

\* Putting a block that was out in front of an exact list of its page gives
\* an exact list of the unused blocks with that one added.
LEMMA ListPush ==
  ASSUME TypeOK, NEW i \in Slot, FreeListExactAt(i),
         NEW p \in Blocks(i), Live(p),
         currMemPtr'[i] = p,
         freeBlockCnt'[i] = freeBlockCnt[i] + 1,
         word'[p] = currMemPtr[i],
         \A b \in Blocks(i) \ {p} : live'[b] = live[b] /\ word'[b] = word[b],
         ~ Live(p)'
  PROVE  FreeListExactAt(i)'
<1>0. PICK n \in Nat : n = freeBlockCnt[i]
  BY DEF TypeOK
<1>1. PICK g \in [1 .. n + 1 -> Blocks(i) \cup {NULL}] : IsFreeList(i, n, g)
  BY <1>0 DEF FreeListExactAt
<1> DEFINE h == [k \in 1 .. (n + 1) + 1 |-> IF k = 1 THEN p ELSE g[k - 1]]
<1>2. h \in [1 .. (n + 1) + 1 -> Blocks(i) \cup {NULL}]
  BY <1>0, <1>1
<1>3. \A k \in 1 .. n : g[k] \in Blocks(i) /\ g[k] # p
  BY <1>1 DEF IsFreeList
<1>4. h[1] = currMemPtr'[i] /\ h[(n + 1) + 1] = NULL
  BY <1>0, <1>1 DEF IsFreeList
<1>5. \A k \in 1 .. n + 1 : h[k] \in Blocks(i) /\ word'[h[k]] = h[k + 1]
  <2> TAKE k \in 1 .. n + 1
  <2>1. CASE k = 1
    BY <1>0, <1>1, <2>1 DEF IsFreeList
  <2>2. CASE k # 1
    <3>1. k - 1 \in 1 .. n /\ k + 1 # 1 /\ k + 1 \in 1 .. (n + 1) + 1
          /\ (k + 1) - 1 = (k - 1) + 1
      BY <1>0, <2>2
    <3>2. word[g[k - 1]] = g[(k - 1) + 1]
      BY <1>1, <3>1 DEF IsFreeList
    <3> QED BY <1>0, <1>3, <2>2, <3>1, <3>2
  <2> QED BY <2>1, <2>2
<1>6. \A k, l \in 1 .. n + 1 : h[k] = h[l] => k = l
  <2> TAKE k, l \in 1 .. n + 1
  <2>1. /\ k # 1 => k - 1 \in 1 .. n
        /\ l # 1 => l - 1 \in 1 .. n
    BY <1>0
  <2>2. k # 1 /\ l # 1 => (g[k - 1] = g[l - 1] => k - 1 = l - 1)
    BY <1>1, <2>1 DEF IsFreeList
  <2> QED BY <1>0, <1>3, <2>1, <2>2
<1>7. \A b \in Blocks(i) : ~ Live(b)' <=> \E k \in 1 .. n + 1 : h[k] = b
  <2> TAKE b \in Blocks(i)
  <2>1. CASE b = p
    BY <1>0, <2>1
  <2>2. CASE b # p
    <3>1. ~ Live(b)' <=> ~ Live(b)
      BY <2>2 DEF Live
    <3>2. ~ Live(b) <=> \E k \in 1 .. n : g[k] = b
      BY <1>1 DEF IsFreeList
    <3>3. (\E k \in 1 .. n : g[k] = b) => \E k \in 1 .. n + 1 : h[k] = b
      <4> SUFFICES ASSUME NEW k \in 1 .. n, g[k] = b
                   PROVE  \E m \in 1 .. n + 1 : h[m] = b
        OBVIOUS
      <4>1. k + 1 \in 1 .. n + 1 /\ h[k + 1] = b
        BY <1>0
      <4> QED BY <4>1
    <3>4. (\E k \in 1 .. n + 1 : h[k] = b) => \E k \in 1 .. n : g[k] = b
      <4> SUFFICES ASSUME NEW k \in 1 .. n + 1, h[k] = b
                   PROVE  \E m \in 1 .. n : g[m] = b
        OBVIOUS
      <4>1. k # 1 /\ k - 1 \in 1 .. n /\ g[k - 1] = b
        BY <1>0, <2>2
      <4> QED BY <4>1
    <3> QED BY <3>1, <3>2, <3>3, <3>4
  <2> QED BY <2>1, <2>2
<1>8. IsFreeList(i, n + 1, h)'
  BY <1>4, <1>5, <1>6, <1>7 DEF IsFreeList
<1> QED BY <1>0, <1>2, <1>8 DEF FreeListExactAt

\* The pool's head block, when the count says there is one.
LEMMA HeadIsUnused ==
  ASSUME TypeOK, NEW i \in Slot, FreeListExactAt(i), freeBlockCnt[i] # 0
  PROVE  currMemPtr[i] \in Blocks(i) /\ ~ Live(currMemPtr[i])
<1>1. PICK n \in Nat \ {0} : n = freeBlockCnt[i]
  BY DEF TypeOK
<1>2. PICK g \in [1 .. n + 1 -> Blocks(i) \cup {NULL}] : IsFreeList(i, n, g)
  BY <1>1 DEF FreeListExactAt
<1>3. 1 \in 1 .. n
  BY <1>1
<1> QED BY <1>2, <1>3 DEF IsFreeList

\* With a count of zero, every block of the page is out.
LEMMA EmptyListAllOut ==
  ASSUME NEW i \in Slot, FreeListExactAt(i), freeBlockCnt[i] = 0,
         NEW b \in Blocks(i)
  PROVE  Live(b)
BY DEF FreeListExactAt, IsFreeList

\* KVMemoryPoolInit chains the blocks of each page in address order.
LEMMA InitIInv == Init => IInv
<1> SUFFICES ASSUME Init PROVE IInv
  OBVIOUS
<1>1. \A i \in Slot : \A b \in Blocks(i) : b \in Block /\ b \in Addr /\ PageOf(b) = i
  BY PageOfBlock DEF Addr
<1>2. \A i \in Slot : memPtr(i) \in Blocks(i)
  <2> TAKE i \in Slot
  <2>1. 0 \in 0 .. BlockCnt(i) - 1 /\ BlockAddr(i, 0) = memPtr(i)
    BY BlockCntFits, PoolAssumption DEF BlockAddr, memPtr, Slot
  <2> QED BY <2>1 DEF Blocks
<1>3. TypeOK
  <2>1. currMemPtr \in [Slot -> Block \cup {NULL}]
    BY <1>1, <1>2 DEF Init, KVMemoryPoolInit
  <2>2. freeBlockCnt \in [Slot -> Nat]
    BY BlockCntFits DEF Init, KVMemoryPoolInit
  <2>3. word \in [Block -> Block \cup {NULL, USER_DATA}]
    BY <1>1 DEF Init, KVMemoryPoolInit, Block
  <2>4. live \in [Addr -> AllocSize \cup {NotLive}]
    BY DEF Init, KVMemoryPoolInit
  <2> QED BY <2>1, <2>2, <2>3, <2>4 DEF TypeOK
<1>4. SizeOfItsPage
  BY <1>1 DEF SizeOfItsPage, Live, Init, KVMemoryPoolInit
<1>5. ASSUME NEW i \in Slot PROVE FreeListExactAt(i)
  <2>1. PICK n \in Nat \ {0} : n = BlockCnt(i)
    BY BlockCntFits
  <2> DEFINE g == [k \in 1 .. n + 1 |-> IF k = n + 1 THEN NULL
                                                    ELSE BlockAddr(i, k - 1)]
  <2>2. \A k \in 1 .. n : /\ k \in 1 .. n + 1
                          /\ k # n + 1
                          /\ g[k] = BlockAddr(i, k - 1)
                          /\ g[k] \in Blocks(i)
    BY <2>1 DEF Blocks
  <2>3. g \in [1 .. n + 1 -> Blocks(i) \cup {NULL}] /\ g[n + 1] = NULL
    <3>1. n + 1 \in 1 .. n + 1 /\ g[n + 1] = NULL
      BY <2>1
    <3>2. \A k \in 1 .. n + 1 : k = n + 1 \/ k \in 1 .. n
      BY <2>1
    <3>3. \A k \in 1 .. n + 1 : g[k] \in Blocks(i) \cup {NULL}
      <4> HIDE DEF g
      <4> QED BY <2>2, <3>1, <3>2
    <3> QED BY <3>1, <3>3
  <2>4. \A k \in 0 .. n : BlockAddr(i, k) = memPtr(i) + k * MEM_BLOCK_SIZE[i]
    BY DEF BlockAddr
  <2>5. memPtr(i) \in Nat /\ MEM_BLOCK_SIZE[i] \in Nat \ {0}
    BY <1>2, BlockInPage, BlockCntFits
  <2>6. \A k, l \in 0 .. n : k < l => BlockAddr(i, k) < BlockAddr(i, l)
    <3> TAKE k, l \in 0 .. n
    <3>1. k < l => k * MEM_BLOCK_SIZE[i] + MEM_BLOCK_SIZE[i] <= l * MEM_BLOCK_SIZE[i]
      BY <2>5, TimesMonotone
    <3>2. k * MEM_BLOCK_SIZE[i] \in Nat /\ l * MEM_BLOCK_SIZE[i] \in Nat
      BY <2>5
    <3> QED BY <2>4, <2>5, <3>1, <3>2
  <2>7. \A k \in 0 .. n : BlockAddr(i, k) \in Nat
    <3> TAKE k \in 0 .. n
    <3>1. k * MEM_BLOCK_SIZE[i] \in Nat
      BY <2>5
    <3> QED BY <2>4, <2>5, <3>1
  <2>8. \A k, l \in 1 .. n : g[k] = g[l] => k = l
    <3> TAKE k, l \in 1 .. n
    <3>1. /\ k - 1 \in 0 .. n /\ l - 1 \in 0 .. n
          /\ k < l => k - 1 < l - 1
          /\ l < k => l - 1 < k - 1
          /\ ~ (k < l) /\ ~ (l < k) => k = l
      BY <2>1
    <3> HIDE DEF g
    <3> QED BY <2>2, <2>6, <2>7, <3>1
  <2>9. \A k \in 0 .. n - 1 : BlockAddr(i, k) + MEM_BLOCK_SIZE[i] = BlockAddr(i, k + 1)
    <3> TAKE k \in 0 .. n - 1
    <3>1. PICK p \in Nat : p = k * MEM_BLOCK_SIZE[i]
      BY <2>5
    <3>2. (k + 1) * MEM_BLOCK_SIZE[i] = p + MEM_BLOCK_SIZE[i]
      <4>1. k \in Nat /\ MEM_BLOCK_SIZE[i] \in Nat
        BY <2>5
      <4>2. (k + 1) * MEM_BLOCK_SIZE[i] = k * MEM_BLOCK_SIZE[i] + MEM_BLOCK_SIZE[i]
        BY <4>1, TimesSuccessor
      <4> QED BY <3>1, <4>2
    <3>3. /\ BlockAddr(i, k) = memPtr(i) + p
          /\ BlockAddr(i, k + 1) = memPtr(i) + (p + MEM_BLOCK_SIZE[i])
      BY <2>4, <3>1, <3>2
    <3> QED BY <2>5, <3>3
  <2>10. BlockAddr(i, n) \notin Blocks(i)
    <3>1. \A k \in 0 .. n - 1 : BlockAddr(i, k) # BlockAddr(i, n)
      BY <2>1, <2>6, <2>7
    <3> QED BY <2>1, <3>1 DEF Blocks
  <2>11. \A k \in 1 .. n : word[g[k]] = g[k + 1]
    <3> TAKE k \in 1 .. n
    <3>1. word[g[k]] = IF g[k] + MEM_BLOCK_SIZE[i] \in Blocks(i)
                         THEN g[k] + MEM_BLOCK_SIZE[i] ELSE NULL
      <4>1. g[k] \in Block /\ PageOf(g[k]) = i
        BY <1>1, <2>2
      <4> HIDE DEF g
      <4> QED BY <4>1 DEF Init, KVMemoryPoolInit
    <3>2. g[k] + MEM_BLOCK_SIZE[i] = BlockAddr(i, k)
      <4>1. k - 1 \in 0 .. n - 1 /\ (k - 1) + 1 = k
        BY <2>1
      <4> HIDE DEF g
      <4> QED BY <2>2, <2>9, <4>1
    <3>3. CASE k = n
      <4> HIDE DEF g
      <4> QED BY <2>3, <2>10, <3>1, <3>2, <3>3
    <3>4. CASE k # n
      <4>1. k + 1 \in 1 .. n /\ (k + 1) - 1 = k
        BY <2>1, <3>4
      <4> HIDE DEF g
      <4> QED BY <2>2, <3>1, <3>2, <4>1
    <3> QED BY <3>3, <3>4
  <2>12. \A b \in Blocks(i) : ~ Live(b) <=> \E k \in 1 .. n : g[k] = b
    <3> TAKE b \in Blocks(i)
    <3>1. ~ Live(b)
      BY <1>1 DEF Live, Init, KVMemoryPoolInit
    <3>2. PICK j \in 0 .. n - 1 : b = BlockAddr(i, j)
      BY <2>1 DEF Blocks
    <3>3. j + 1 \in 1 .. n /\ (j + 1) - 1 = j
      BY <2>1
    <3> HIDE DEF g
    <3> QED BY <2>2, <3>1, <3>2, <3>3
  <2>13. g[1] = currMemPtr[i]
    <3>1. 1 \in 1 .. n /\ 1 - 1 = 0
      BY <2>1
    <3>2. BlockAddr(i, 0) = memPtr(i)
      BY <2>5 DEF BlockAddr
    <3> HIDE DEF g
    <3> QED BY <2>2, <3>1, <3>2 DEF Init, KVMemoryPoolInit
  <2>14. freeBlockCnt[i] = n
    BY <2>1 DEF Init, KVMemoryPoolInit
  <2> HIDE DEF g
  <2>15. IsFreeList(i, n, g)
    BY <2>2, <2>3, <2>8, <2>11, <2>12, <2>13 DEF IsFreeList
  <2> QED BY <2>3, <2>14, <2>15 DEF FreeListExactAt
<1> QED BY <1>3, <1>4, <1>5 DEF IInv, FreeListExact

\* Facts about types that every step below uses.
LEMMA TypeFacts ==
  ASSUME TypeOK
  PROVE  /\ currMemPtr \in [Slot -> Block \cup {NULL}]
         /\ freeBlockCnt \in [Slot -> Nat]
         /\ word \in [Block -> Block \cup {NULL, USER_DATA}]
         /\ live \in [Addr -> AllocSize \cup {NotLive}]
         /\ \A a \in Addr : Live(a) => live[a] \in AllocSize /\ live[a] \in Nat
         /\ AllocSize \subseteq Nat
         /\ Block \subseteq Addr
         /\ \A s \in AllocSize : s # NotLive
<1>1. \A s \in AllocSize : s \in Nat /\ s # NotLive
  BY PoolAssumption DEF NotLive
<1>2. live \in [Addr -> AllocSize \cup {NotLive}]
  BY DEF TypeOK
<1>3. \A a \in Addr : Live(a) => live[a] \in AllocSize
  BY <1>2 DEF Live
<1> QED BY <1>1, <1>3 DEF TypeOK, Addr

LEMMA AllocKeepsIInv ==
  ASSUME IInv, NEW size \in AllocSize, KVMemPoolAlloc(size)
  PROVE  IInv'
<1> USE DEF IInv
<1>1. PICK i \in Slot : /\ i = ChooseSlotBlockIdByAllocSize(size)
                        /\ freeBlockCnt[i] # 0
                        /\ size \in Nat
  BY ChosenSlotFits, TypeFacts DEF KVMemPoolAlloc
<1>2. PICK p \in Blocks(i) : p = currMemPtr[i] /\ ~ Live(p)
  BY <1>1, HeadIsUnused DEF FreeListExact
<1>3. p \in Block /\ p \in Addr /\ \A j \in Slot : p \in Blocks(j) => j = i
  BY PageOfBlock DEF Addr
<1>4. /\ currMemPtr' = [currMemPtr EXCEPT ![i] = word[p]]
      /\ freeBlockCnt' = [freeBlockCnt EXCEPT ![i] = @ - 1]
      /\ word' = [c \in Block |-> IF c = p THEN NULL ELSE word[c]]
      /\ live' = [live EXCEPT ![p] = size]
  BY <1>1, <1>2, MemsetClearsOne DEF KVMemPoolAlloc
<1>5. word[p] # USER_DATA
  <2>1. PICK n \in Nat \ {0} : n = freeBlockCnt[i]
    BY <1>1, TypeFacts
  <2>2. PICK g \in [1 .. n + 1 -> Blocks(i) \cup {NULL}] : IsFreeList(i, n, g)
    BY <2>1 DEF FreeListExact, FreeListExactAt
  <2>3. 1 \in 1 .. n /\ 2 \in 1 .. n + 1 /\ g[2] \in Blocks(i) \cup {NULL}
    BY <2>1
  <2>4. g[1] = p /\ word[g[1]] = g[1 + 1]
    BY <1>2, <2>2, <2>3 DEF IsFreeList
  <2>5. \A b \in Blocks(i) : b \in Block
    BY PageOfBlock
  <2> QED BY <2>3, <2>4, <2>5, NullIsNoBlock
<1>6. TypeOK'
  <2>1. currMemPtr' \in [Slot -> Block \cup {NULL}]
    BY <1>3, <1>4, <1>5, TypeFacts
  <2>2. freeBlockCnt' \in [Slot -> Nat]
    BY <1>1, <1>4, TypeFacts
  <2>3. word' \in [Block -> Block \cup {NULL, USER_DATA}]
    BY <1>4, TypeFacts
  <2>4. live' \in [Addr -> AllocSize \cup {NotLive}]
    BY <1>3, <1>4, TypeFacts
  <2> QED BY <2>1, <2>2, <2>3, <2>4 DEF TypeOK
<1>7. SizeOfItsPage'
  <2> SUFFICES ASSUME NEW j \in Slot, NEW b \in Blocks(j), Live(b)'
               PROVE  ChooseSlotBlockIdByAllocSize(live'[b]) = j
    BY DEF SizeOfItsPage
  <2>1. b \in Addr
    BY PageOfBlock DEF Addr
  <2>2. CASE b = p
    BY <1>1, <1>3, <1>4, <2>1, <2>2, TypeFacts
  <2>3. CASE b # p
    <3>1. live'[b] = live[b] /\ Live(b)
      BY <1>4, <2>1, <2>3, TypeFacts DEF Live
    <3> QED BY <3>1 DEF SizeOfItsPage
  <2> QED BY <2>2, <2>3
<1>8. ASSUME NEW j \in Slot PROVE FreeListExactAt(j)'
  <2>1. \A b \in Blocks(j) : b \in Block /\ b \in Addr
    BY PageOfBlock DEF Addr
  <2>2. FreeListExactAt(j)
    BY DEF FreeListExact
  <2>3. CASE j = i
    <3>1. /\ currMemPtr'[i] = word[currMemPtr[i]]
          /\ freeBlockCnt'[i] = freeBlockCnt[i] - 1
          /\ live'[currMemPtr[i]] # NotLive
      BY <1>2, <1>3, <1>4, TypeFacts
    <3>2. \A b \in Blocks(i) \ {currMemPtr[i]} :
             live'[b] = live[b] /\ word'[b] = word[b]
      BY <1>2, <1>4, <2>1, <2>3, TypeFacts
    <3> QED BY <1>1, <2>2, <2>3, <3>1, <3>2, ListPop
  <2>4. CASE j # i
    <3>1. currMemPtr'[j] = currMemPtr[j] /\ freeBlockCnt'[j] = freeBlockCnt[j]
      BY <1>4, <2>4, TypeFacts
    <3>2. \A b \in Blocks(j) : live'[b] = live[b] /\ word'[b] = word[b]
      BY <1>3, <1>4, <2>1, <2>4, TypeFacts
    <3> QED BY <2>2, <3>1, <3>2, ListKept DEF Live
  <2> QED BY <2>3, <2>4
<1> QED BY <1>6, <1>7, <1>8 DEF FreeListExact

\* What malloc serves, and what goes back to it, leaves the lists alone.
LEMMA HeapKeepsIInv ==
  ASSUME IInv, UNCHANGED <<currMemPtr, freeBlockCnt, word>>,
         live' \in [Addr -> AllocSize \cup {NotLive}],
         \A b \in Block : live'[b] = live[b]
  PROVE  IInv'
<1>1. \A i \in Slot : \A b \in Blocks(i) : live'[b] = live[b]
  BY PageOfBlock
<1>2. TypeOK'
  BY DEF IInv, TypeOK
<1>3. SizeOfItsPage'
  BY <1>1 DEF IInv, SizeOfItsPage, Live
<1>4. ASSUME NEW i \in Slot PROVE FreeListExactAt(i)'
  <2>1. FreeListExactAt(i)
    BY DEF IInv, FreeListExact
  <2> QED BY <1>1, <2>1, ListKept DEF Live
<1> QED BY <1>2, <1>3, <1>4 DEF IInv, FreeListExact

LEMMA MallocKeepsIInv ==
  ASSUME IInv, NEW size \in AllocSize, KVMalloc(size)
  PROVE  IInv'
<1>1. PICK h \in HeapAddr : live' = [live EXCEPT ![h] = size]
  BY DEF KVMalloc
<1>2. h \in Addr /\ h \notin Block
  BY HeapOutsidePool DEF Addr
<1>3. live' \in [Addr -> AllocSize \cup {NotLive}]
  BY <1>1, <1>2, TypeFacts DEF IInv
<1>4. \A b \in Block : live'[b] = live[b]
  BY <1>1, <1>2, TypeFacts DEF IInv
<1> QED BY <1>3, <1>4, HeapKeepsIInv DEF KVMalloc

LEMMA FreeKeepsIInv ==
  ASSUME IInv, NEW p \in Addr, KVMemFree(p, live[p])
  PROVE  IInv'
<1>1. /\ Live(p) /\ live[p] \in AllocSize /\ live[p] \in Nat
      /\ live' = [live EXCEPT ![p] = NotLive]
      /\ live' \in [Addr -> AllocSize \cup {NotLive}]
  BY TypeFacts DEF KVMemFree, Live, IInv
<1>2. CASE p \in Block
  <2>1. PICK i \in Slot : p \in Blocks(i)
    BY <1>2 DEF Block
  <2>2. i = ChooseSlotBlockIdByAllocSize(live[p]) /\ i # INVALID_SLOT_INDEX
    BY <1>1, <2>1, ChosenSlotFits DEF IInv, SizeOfItsPage
  <2>3. /\ currMemPtr' = [currMemPtr EXCEPT ![i] = p]
        /\ freeBlockCnt' = [freeBlockCnt EXCEPT ![i] = @ + 1]
        /\ word' = [word EXCEPT ![p] = currMemPtr[i]]
    BY <1>2, <2>2, BlockInPool DEF KVMemFree, KVMemPoolFree
  <2>4. TypeOK'
    <3>1. currMemPtr' \in [Slot -> Block \cup {NULL}]
      BY <1>2, <2>3, TypeFacts DEF IInv
    <3>2. freeBlockCnt' \in [Slot -> Nat]
      BY <2>3, TypeFacts DEF IInv
    <3>3. word' \in [Block -> Block \cup {NULL, USER_DATA}]
      BY <2>1, <2>3, TypeFacts DEF IInv
    <3> QED BY <1>1, <3>1, <3>2, <3>3 DEF TypeOK
  <2>5. SizeOfItsPage'
    <3> SUFFICES ASSUME NEW j \in Slot, NEW b \in Blocks(j), Live(b)'
                 PROVE  ChooseSlotBlockIdByAllocSize(live'[b]) = j
      BY DEF SizeOfItsPage
    <3>1. b \in Addr
      BY PageOfBlock DEF Addr
    <3>2. live'[b] = live[b] /\ Live(b)
      BY <1>1, <3>1, TypeFacts DEF IInv, Live
    <3> QED BY <3>2 DEF IInv, SizeOfItsPage
  <2>6. ASSUME NEW j \in Slot PROVE FreeListExactAt(j)'
    <3>1. \A b \in Blocks(j) : b \in Block /\ b \in Addr
      BY PageOfBlock DEF Addr
    <3>2. FreeListExactAt(j)
      BY DEF IInv, FreeListExact
    <3>3. CASE j = i
      <4>1. /\ currMemPtr'[i] = p
            /\ freeBlockCnt'[i] = freeBlockCnt[i] + 1
            /\ word'[p] = currMemPtr[i]
            /\ ~ Live(p)'
        BY <1>1, <1>2, <2>3, TypeFacts DEF IInv, Live
      <4>2. \A b \in Blocks(i) \ {p} : live'[b] = live[b] /\ word'[b] = word[b]
        BY <1>1, <2>3, <3>1, <3>3, TypeFacts DEF IInv
      <4>3. TypeOK
        BY DEF IInv
      <4> QED BY <1>1, <2>1, <3>2, <3>3, <4>1, <4>2, <4>3, ListPush
    <3>4. CASE j # i
      <4>1. currMemPtr'[j] = currMemPtr[j] /\ freeBlockCnt'[j] = freeBlockCnt[j]
        BY <2>3, <3>4, TypeFacts DEF IInv
      <4>2. \A b \in Blocks(j) : live'[b] = live[b] /\ word'[b] = word[b]
        BY <1>1, <2>1, <2>3, <3>1, <3>4, PageOfBlock, TypeFacts DEF IInv
      <4> QED BY <3>2, <4>1, <4>2, ListKept DEF Live
    <3> QED BY <3>3, <3>4
  <2> QED BY <2>4, <2>5, <2>6 DEF IInv, FreeListExact
<1>3. CASE p \notin Block
  <2>1. p \in HeapAddr /\ ~ IsAllocByMemoryPool(p)
    BY <1>1, <1>3, HeapOutsidePool DEF Addr
  <2>2. UNCHANGED <<currMemPtr, freeBlockCnt, word>>
    BY <2>1 DEF KVMemFree
  <2>3. \A b \in Block : live'[b] = live[b]
    BY <1>1, <1>3, TypeFacts DEF IInv
  <2> QED BY <1>1, <2>2, <2>3, HeapKeepsIInv
<1> QED BY <1>2, <1>3

\* Callers write inside what they hold, so no unused block changes.
LEMMA WriteStaysInside ==
  ASSUME IInv, NEW p \in Addr, CallerWrites(p)
  PROVE  \A b \in Block : word'[b] # word[b] => b = p /\ Live(b)
<1> SUFFICES ASSUME NEW b \in Block, p <= b, b < p + live[p]
             PROVE  b = p /\ Live(b)
  BY DEF CallerWrites
<1>1. Live(p) /\ live[p] \in AllocSize /\ live[p] \in Nat
  BY TypeFacts DEF CallerWrites, Live, IInv
<1>2. p \in Block
  BY <1>1, HeapOutsidePool DEF Addr
<1>3. PICK i \in Slot : p \in Blocks(i)
  BY <1>2 DEF Block
<1>4. live[p] <= MEM_BLOCK_SIZE[i]
  BY <1>1, <1>3, ChosenSlotFits DEF IInv, SizeOfItsPage
<1> QED BY <1>1, <1>3, <1>4, OneBlockInRange

LEMMA WriteKeepsIInv ==
  ASSUME IInv, NEW p \in Addr, CallerWrites(p)
  PROVE  IInv'
<1>1. TypeOK'
  BY TypeFacts DEF IInv, TypeOK, CallerWrites
<1>2. SizeOfItsPage'
  BY DEF IInv, SizeOfItsPage, Live, CallerWrites
<1>3. ASSUME NEW i \in Slot PROVE FreeListExactAt(i)'
  <2>1. FreeListExactAt(i)
    BY DEF IInv, FreeListExact
  <2>2. \A b \in Blocks(i) : ~ Live(b) => word'[b] = word[b]
    BY PageOfBlock, WriteStaysInside
  <2> QED BY <2>1, <2>2, ListKept DEF Live, CallerWrites
<1> QED BY <1>1, <1>2, <1>3 DEF IInv, FreeListExact

LEMMA NextKeepsIInv == IInv /\ [Next]_vars => IInv'
<1> SUFFICES ASSUME IInv, [Next]_vars PROVE IInv'
  OBVIOUS
<1>1. ASSUME NEW size \in AllocSize, KVMemAlloc(size) PROVE IInv'
  BY <1>1, AllocKeepsIInv, MallocKeepsIInv DEF KVMemAlloc
<1>2. ASSUME NEW p \in Addr, KVMemFree(p, live[p]) PROVE IInv'
  BY <1>2, FreeKeepsIInv
<1>3. ASSUME NEW p \in Addr, CallerWrites(p) PROVE IInv'
  BY <1>3, WriteKeepsIInv
<1>4. CASE UNCHANGED vars
  BY <1>4 DEF vars, IInv, TypeOK, SizeOfItsPage, FreeListExact,
              FreeListExactAt, IsFreeList, Live
<1> QED BY <1>1, <1>2, <1>3, <1>4 DEF Next

\* The lists of unused blocks stay exact, whatever callers do with the blocks
\* they hold, as long as they give back the size they asked for.
THEOREM PoolInvariant == Spec => []IInv
<1> QED BY InitIInv, NextKeepsIInv, PTL DEF Spec

-----------------------------------------------------------------------------
(* What follows from it.                                                   *)

\* The state has its type in every reachable state.
THEOREM TypeCorrect == Spec => []TypeOK
<1>1. IInv => TypeOK
  BY DEF IInv
<1> QED BY <1>1, PoolInvariant, PTL

\* Every unused block is on the list of its page exactly once, and the list
\* ends after freeBlockCnt blocks.
THEOREM FreeListsExact == Spec => []FreeListExact
<1>1. IInv => FreeListExact
  BY DEF IInv
<1> QED BY <1>1, PoolInvariant, PTL

\* A block is out only for sizes of the class of its page.
THEOREM SizesMatchPages == Spec => []SizeOfItsPage
<1>1. IInv => SizeOfItsPage
  BY DEF IInv
<1> QED BY <1>1, PoolInvariant, PTL

\* Allocations that are out together share no byte.
THEOREM AllocationsDisjoint == Spec => []NoOverlap
<1>1. IInv => NoOverlap
  <2> SUFFICES ASSUME IInv,
                      NEW a \in Addr, NEW b \in Addr,
                      Live(a), Live(b), a < b
               PROVE  a + live[a] <= b
    BY DEF NoOverlap
  <2>1. live[a] \in AllocSize /\ live[a] \in Nat
    BY TypeFacts DEF IInv
  <2>2. CASE a \in Block
    <3>1. PICK i \in Slot : a \in Blocks(i)
      BY <2>2 DEF Block
    <3>2. live[a] <= MEM_BLOCK_SIZE[i]
      BY <2>1, <3>1, ChosenSlotFits DEF IInv, SizeOfItsPage
    <3>3. /\ a \in Nat /\ MEM_BLOCK_SIZE[i] \in Nat
          /\ memPtrArray <= a /\ a + MEM_BLOCK_SIZE[i] <= PoolEnd
      BY <3>1, BlockInPage, BlockCntFits
    <3>4. CASE b \in Block
      <4>1. b \in Nat
        BY <3>4, BlockInPage DEF Block
      <4>2. ~ (b < a + live[a])
        BY <2>1, <3>1, <3>2, <3>3, <3>4, <4>1, OneBlockInRange
      <4> QED BY <2>1, <3>3, <4>1, <4>2
    <3>5. CASE b \in HeapAddr
      <4>1. PICK s \in AllocSize : s \in Nat
        BY <2>1
      <4>2. b \in Nat /\ (PoolEnd <= b \/ b < memPtrArray)
        BY <3>5, <4>1, HeapAssumption
      <4>3. PoolEnd \in Nat /\ memPtrArray \in Nat
        <5>1. MEM_POOL_SLOT_CNT * MEM_PAGE_SIZE \in Nat
          BY PoolAssumption
        <5> QED BY <5>1, PoolAssumption DEF PoolEnd
      <4> QED BY <2>1, <3>2, <3>3, <4>2, <4>3
    <3> QED BY <3>4, <3>5 DEF Addr
  <2>3. CASE a \in HeapAddr
    <3>1. a \in Nat
      BY <2>3, HeapAssumption
    <3>2. CASE b \in Block
      <4>1. b \in Nat
        BY <3>2, BlockInPage DEF Block
      <4>2. ~ (a <= b /\ b < a + live[a])
        BY <2>1, <2>3, <3>2, HeapOutsidePool
      <4> QED BY <2>1, <3>1, <4>1, <4>2
    <3>3. CASE b \in HeapAddr
      BY <2>1, <2>3, <3>3, HeapAssumption
    <3> QED BY <3>2, <3>3 DEF Addr
  <2> QED BY <2>2, <2>3 DEF Addr
<1> QED BY <1>1, PoolInvariant, PTL

\* No step of the allocator or of another caller changes a block while it is
\* out: its first word changes only by its holder writing to it.
THEOREM HeldBlocksSafe == Spec => HeldBlocksUntouched
<1> DEFINE A == \A b \in Block :
                  Live(b) /\ live'[b] = live[b] /\ word'[b] # word[b]
                    => word'[b] = USER_DATA
<1>1. IInv /\ [Next]_vars => [A]_vars
  <2> SUFFICES ASSUME IInv, Next, NEW b \in Block,
                      Live(b), live'[b] = live[b], word'[b] # word[b]
               PROVE  word'[b] = USER_DATA
    BY DEF A
  <2>1. b \in Addr
    BY DEF Addr
  <2>2. ASSUME NEW size \in AllocSize, KVMemPoolAlloc(size)
        PROVE  FALSE
    <3>1. PICK i \in Slot : /\ i = ChooseSlotBlockIdByAllocSize(size)
                            /\ freeBlockCnt[i] # 0
      BY <2>2, ChosenSlotFits, TypeFacts DEF KVMemPoolAlloc, IInv
    <3>2. currMemPtr[i] \in Blocks(i) /\ ~ Live(currMemPtr[i])
      BY <3>1, HeadIsUnused DEF IInv, FreeListExact
    <3>3. word' = [c \in Block |-> IF c = currMemPtr[i] THEN NULL ELSE word[c]]
      BY <2>2, <3>1, <3>2, MemsetClearsOne DEF KVMemPoolAlloc
    <3> QED BY <3>2, <3>3
  <2>3. ASSUME NEW size \in AllocSize, KVMalloc(size) PROVE FALSE
    BY <2>3 DEF KVMalloc
  <2>4. ASSUME NEW p \in Addr, KVMemFree(p, live[p]) PROVE FALSE
    <3>1. b # p
      BY <2>1, <2>4, TypeFacts DEF KVMemFree, Live, IInv
    <3>2. word' = word \/ \E w : word' = [word EXCEPT ![p] = w]
      BY <2>4 DEF KVMemFree, KVMemPoolFree
    <3> QED BY <3>1, <3>2, TypeFacts DEF IInv
  <2>5. ASSUME NEW p \in Addr, CallerWrites(p) PROVE word'[b] = USER_DATA
    BY <2>5 DEF CallerWrites
  <2> QED BY <2>2, <2>3, <2>4, <2>5 DEF Next, KVMemAlloc
<1>2. HeldBlocksUntouched <=> [][A]_vars
  BY DEF HeldBlocksUntouched
<1> QED BY <1>1, <1>2, PoolInvariant, PTL DEF Spec

\* The allocator with its lists implements the contract of MemContract: a pool
\* block while one of the class is left, the C heap only after that.
THEOREM PoolImplementsContract == Spec => ImplementsContract
<1>1. PageContract!Addr = Addr
  BY DEF PageContract!Addr, Addr, Block
<1>2. Init => PageContract!Init
  BY <1>1 DEF Init, KVMemoryPoolInit, PageContract!Init
<1>3. IInv /\ [Next]_vars => [PageContract!Next]_live
  <2> SUFFICES ASSUME IInv, Next PROVE PageContract!Next \/ UNCHANGED live
    BY DEF vars
  <2>1. ASSUME NEW size \in AllocSize, KVMemPoolAlloc(size)
        PROVE  PageContract!AllocBlock(size)
    <3>1. PICK i \in Slot : /\ i = ChooseSlotBlockIdByAllocSize(size)
                            /\ freeBlockCnt[i] # 0
      BY <2>1, ChosenSlotFits, TypeFacts DEF KVMemPoolAlloc, IInv
    <3>2. currMemPtr[i] \in Blocks(i) /\ ~ Live(currMemPtr[i])
      BY <3>1, HeadIsUnused DEF IInv, FreeListExact
    <3>3. live' = [live EXCEPT ![currMemPtr[i]] = size]
      BY <2>1, <3>1 DEF KVMemPoolAlloc
    <3> QED BY <3>1, <3>2, <3>3
            DEF PageContract!AllocBlock, PageContract!Free, PageContract!Give, Live
  <2>2. ASSUME NEW size \in AllocSize, KVMalloc(size)
        PROVE  PageContract!AllocHeap(size)
    <3>1. \A i \in Slot : i = ChooseSlotBlockIdByAllocSize(size)
                            => freeBlockCnt[i] = 0
      BY <2>2, ChosenSlotFits, TypeFacts DEF KVMalloc, IInv
    <3>2. \A i \in Slot : i = ChooseSlotBlockIdByAllocSize(size)
                            => \A b \in Blocks(i) : Live(b)
      BY <3>1, EmptyListAllOut DEF IInv, FreeListExact
    <3> QED BY <2>2, <3>2
            DEF KVMalloc, PageContract!AllocHeap, PageContract!Free,
                PageContract!Give, Live
  <2>3. ASSUME NEW p \in Addr, KVMemFree(p, live[p])
        PROVE  PageContract!Release(p)
    BY <2>3 DEF KVMemFree, PageContract!Release
  <2>4. ASSUME NEW p \in Addr, CallerWrites(p) PROVE UNCHANGED live
    BY <2>4 DEF CallerWrites
  <2> QED BY <1>1, <2>1, <2>2, <2>3, <2>4 DEF Next, KVMemAlloc, PageContract!Next
<1> QED BY <1>2, <1>3, PoolInvariant, PTL
        DEF Spec, ImplementsContract, PageContract!Spec

-----------------------------------------------------------------------------
(* Several threads.                                                        *)

\* What a link of class i can be: a block of it, the end, or caller data.
Link(i) == Blocks(i) \cup {NULL, USER_DATA}

Word == Block \cup {NULL, USER_DATA}

Call == [pc     : AllocPc \cup FreePc \cup {"idle", "wild"},
         size   : AllocSize \cup {0},
         slotId : Slot \cup {INVALID_SLOT_INDEX},
         ptr    : Word,
         next   : Word,
         cnt    : 0 .. UINT32 - 1]

At(t, i, pcs) == call[t].slotId = i /\ call[t].pc \in pcs

Inside(t, i) == At(t, i, AllocPc \cup FreePc)

Unused(i) == {b \in Blocks(i) : live[b] = NotLive}

\* From h the links w lead through the n blocks of S, each once, to NULL.
Chain(h, n, S, w) ==
  \E g \in [1 .. n + 1 -> S \cup {NULL}] :
    /\ g[1] = h
    /\ g[n + 1] = NULL
    /\ \A k \in 1 .. n : g[k] \in S /\ w[g[k]] = g[k + 1]
    /\ \A k, l \in 1 .. n : g[k] = g[l] => k = l
    /\ \A b \in S : \E k \in 1 .. n : g[k] = b

\* From h the links lead through some of the blocks of U to NULL.
Leads(h, U, w) == \E S \in SUBSET U : \E n \in Nat : Chain(h, n, S, w)

-----------------------------------------------------------------------------
(* The inductive invariant                                                 *)

CallInClass(t) ==
  LET c == call[t]
  IN  /\ c.pc \in AllocPc \cup FreePc =>
           c.size \in AllocSize /\ c.slotId = ChooseSlotBlockIdByAllocSize(c.size)
      /\ c.pc \in (AllocPc \ {"malloc"}) \cup FreePc => c.slotId \in Slot
      /\ c.pc = "link" => c.ptr \in Link(c.slotId)
      /\ c.pc \in {"unlink", "load", "store", "clear"} \cup FreePc =>
           c.ptr \in Blocks(c.slotId)
      /\ c.pc \in {"unlink", "freeLink"} => c.next \in Link(c.slotId)

HeldInClass(t) ==
  \A held \in mine[t] : \A i \in Slot :
    held[1] \in Blocks(i) => ChooseSlotBlockIdByAllocSize(held[2]) = i

HeapHeld(t) ==
  \A held \in mine[t] : held[1] \in HeapAddr =>
    /\ live[held[1]] = held[2]
    /\ \A u \in Thread : \A other \in mine[u] :
         other[1] = held[1] => u = t

OwnClass ==
  /\ currMemPtr \in [Slot -> Word]
  /\ freeBlockCnt \in [Slot -> 0 .. UINT32 - 1]
  /\ word \in [Block -> Word]
  /\ live \in [Addr -> AllocSize \cup {NotLive}]
  /\ call \in [Thread -> Call]
  /\ mine \in [Thread -> SUBSET (Addr \X AllocSize)]
  /\ overlap \in [Slot -> {"none", "frees", "any"}]
  /\ \A i \in Slot : currMemPtr[i] \in Link(i)
  /\ \A i \in Slot : \A b \in Blocks(i) : word[b] \in Link(i)
  /\ \A t \in Thread : CallInClass(t) /\ HeldInClass(t) /\ HeapHeld(t)

\* An allocation is alone in its class.
Turns(i) ==
  \A t, u \in Thread :
    Inside(t, i) /\ Inside(u, i) /\ call[t].pc \in AllocPc => t = u

\* What a thread holds is out for the size it knows, and only it holds it.
Holders(i) ==
  /\ \A t \in Thread : \A held \in mine[t] :
       held[1] \in Blocks(i) => live[held[1]] = held[2]
  /\ \A t, u \in Thread : \A held \in mine[t], other \in mine[u] :
       held[1] \in Blocks(i) /\ held[1] = other[1] => t = u

Leaving == {"freeHead", "freeLink"}

\* A block on its way back is still out, and nobody else's.
Leavers(i) ==
  /\ \A t \in Thread : At(t, i, Leaving) =>
       /\ live[call[t].ptr] = call[t].size
       /\ \A u \in Thread : \A held \in mine[u] : held[1] # call[t].ptr
  /\ \A t, u \in Thread :
       At(t, i, Leaving) /\ At(u, i, Leaving) /\ call[t].ptr = call[u].ptr => t = u

\* Wherever the head is or is about to be put, unused blocks lead to NULL.
AimsAt(t, i) ==
  /\ At(t, i, {"link", "unlink"}) => call[t].ptr = currMemPtr[i]
  /\ At(t, i, {"unlink"}) => call[t].next = word[call[t].ptr]
  /\ At(t, i, {"load", "store", "clear"}) =>
       /\ call[t].ptr \in Unused(i)
       /\ Leads(currMemPtr[i], Unused(i) \ {call[t].ptr}, word)
  /\ At(t, i, {"freeLink"}) => Leads(call[t].next, Unused(i), word)
  /\ At(t, i, {"freePush"}) => Leads(call[t].ptr, Unused(i), word)

Heads(i) ==
  /\ Leads(currMemPtr[i], Unused(i), word)
  /\ \A t \in Thread : AimsAt(t, i)

Shares(i) == Turns(i) /\ Holders(i) /\ Leavers(i) /\ Heads(i)

\* One call at a time.
OneCall(i) == \A t, u \in Thread : Inside(t, i) /\ Inside(u, i) => t = u

\* What a call that is alone knows of its class.
Knows(t, i) ==
  /\ At(t, i, {"head", "link", "unlink", "load", "store"}) => freeBlockCnt[i] # 0
  /\ At(t, i, {"malloc"}) => freeBlockCnt[i] = 0
  /\ At(t, i, {"load", "store", "clear"}) => currMemPtr[i] = word[call[t].ptr]
  /\ At(t, i, {"store", "freeStore"}) => call[t].cnt = freeBlockCnt[i]
  /\ At(t, i, {"clear", "freePush", "freeLoad", "freeStore"}) =>
       freeBlockCnt[i] + 1 < UINT32
  /\ At(t, i, {"freeLink"}) => call[t].next = currMemPtr[i]

Exact(i) ==
  /\ OneCall(i)
  /\ \A t \in Thread : Knows(t, i)
  /\ Chain(HeadNow(i), CountNow(i), Unused(i), word)

ClassInv(i) ==
  /\ overlap[i] # "any" => Shares(i)
  /\ Calm(i) => Exact(i)

ThreadsInv == OwnClass /\ \A i \in Slot : ClassInv(i)

-----------------------------------------------------------------------------
(* Chains: what an access does to one.                                     *)

LEMMA ChainEnd ==
  ASSUME NEW h, NEW n \in Nat, NEW S, NEW w, Chain(h, n, S, w), NULL \notin S
  PROVE  /\ n = 0 <=> S = {}
         /\ n = 0 <=> h = NULL
         /\ n # 0 => h \in S
<1>1. PICK g \in [1 .. n + 1 -> S \cup {NULL}] :
        /\ g[1] = h /\ g[n + 1] = NULL
        /\ \A k \in 1 .. n : g[k] \in S
        /\ \A b \in S : \E k \in 1 .. n : g[k] = b
  BY DEF Chain
<1>2. n # 0 => 1 \in 1 .. n
  OBVIOUS
<1>3. n = 0 => 1 .. n = {}
  OBVIOUS
<1> QED BY <1>1, <1>2, <1>3

\* A chain does not depend on the words of other blocks.
LEMMA ChainKept ==
  ASSUME NEW h, NEW n \in Nat, NEW S, NEW w, NEW v, Chain(h, n, S, w),
         \A b \in S : v[b] = w[b]
  PROVE  Chain(h, n, S, v)
<1>1. PICK g \in [1 .. n + 1 -> S \cup {NULL}] :
        /\ g[1] = h /\ g[n + 1] = NULL
        /\ \A k \in 1 .. n : g[k] \in S /\ w[g[k]] = g[k + 1]
        /\ \A k, l \in 1 .. n : g[k] = g[l] => k = l
        /\ \A b \in S : \E k \in 1 .. n : g[k] = b
  BY DEF Chain
<1>2. \A k \in 1 .. n : v[g[k]] = g[k + 1]
  BY <1>1
<1> QED BY <1>1, <1>2 DEF Chain

\* Behind the first block, a chain is the chain of the others.
LEMMA ChainPop ==
  ASSUME NEW h, NEW n \in Nat, NEW S, NEW w, Chain(h, n, S, w), n # 0
  PROVE  h \in S /\ n - 1 \in Nat /\ Chain(w[h], n - 1, S \ {h}, w)
<1>1. PICK g \in [1 .. n + 1 -> S \cup {NULL}] :
        /\ g[1] = h /\ g[n + 1] = NULL
        /\ \A k \in 1 .. n : g[k] \in S /\ w[g[k]] = g[k + 1]
        /\ \A k, l \in 1 .. n : g[k] = g[l] => k = l
        /\ \A b \in S : \E k \in 1 .. n : g[k] = b
  BY DEF Chain
<1> DEFINE f == [k \in 1 .. (n - 1) + 1 |-> g[k + 1]]
           R == S \ {h}
<1>2. /\ n - 1 \in Nat /\ 1 \in 1 .. n
      /\ \A k \in 1 .. n - 1 : /\ k + 1 \in 1 .. n /\ k \in 1 .. (n - 1) + 1
                               /\ k + 1 # 1 /\ k + 1 \in 1 .. (n - 1) + 1
      /\ 1 \in 1 .. (n - 1) + 1 /\ (n - 1) + 1 = n
  OBVIOUS
<1>3. \A k \in 1 .. n - 1 : g[k + 1] \in R
  BY <1>1, <1>2
<1>4. \A k \in 1 .. n : k = n \/ k \in 1 .. n - 1
  OBVIOUS
<1>5. f \in [1 .. (n - 1) + 1 -> R \cup {NULL}]
  <2>1. \A k \in 1 .. n : g[k + 1] \in R \cup {NULL}
    BY <1>1, <1>3, <1>4
  <2> QED BY <1>2, <2>1
<1>6. f[1] = w[h] /\ f[(n - 1) + 1] = NULL
  BY <1>1, <1>2
<1>7. \A k \in 1 .. n - 1 : f[k] \in R /\ w[f[k]] = f[k + 1]
  BY <1>1, <1>2, <1>3
<1>8. \A k, l \in 1 .. n - 1 : f[k] = f[l] => k = l
  <2> TAKE k, l \in 1 .. n - 1
  <2>1. g[k + 1] = g[l + 1] => k + 1 = l + 1
    BY <1>1, <1>2
  <2> QED BY <1>2, <2>1
<1>9. \A b \in R : \E k \in 1 .. n - 1 : f[k] = b
  <2> TAKE b \in R
  <2>1. PICK k \in 1 .. n : g[k] = b
    BY <1>1
  <2>2. k # 1 /\ k - 1 \in 1 .. n - 1 /\ k - 1 \in 1 .. (n - 1) + 1 /\ (k - 1) + 1 = k
    BY <1>1, <2>1
  <2> QED BY <2>1, <2>2
<1> HIDE DEF f, R
<1>10. Chain(w[h], n - 1, R, w)
  BY <1>5, <1>6, <1>7, <1>8, <1>9 DEF Chain
<1> QED BY <1>1, <1>2, <1>10 DEF R

\* A block linked in front of a chain makes a chain with it.
LEMMA ChainPush ==
  ASSUME NEW h, NEW n \in Nat, NEW S, NEW w, Chain(h, n, S, w),
         NEW p, p \notin S, NEW v, v[p] = h, \A b \in S : v[b] = w[b]
  PROVE  Chain(p, n + 1, S \cup {p}, v)
<1>1. PICK g \in [1 .. n + 1 -> S \cup {NULL}] :
        /\ g[1] = h /\ g[n + 1] = NULL
        /\ \A k \in 1 .. n : g[k] \in S /\ w[g[k]] = g[k + 1]
        /\ \A k, l \in 1 .. n : g[k] = g[l] => k = l
        /\ \A b \in S : \E k \in 1 .. n : g[k] = b
  BY DEF Chain
<1> DEFINE f == [k \in 1 .. (n + 1) + 1 |-> IF k = 1 THEN p ELSE g[k - 1]]
           R == S \cup {p}
<1>2. \A k \in 1 .. (n + 1) + 1 : k = 1 \/ k - 1 \in 1 .. n + 1
  OBVIOUS
<1>3. f \in [1 .. (n + 1) + 1 -> R \cup {NULL}]
  BY <1>1, <1>2
<1>4. /\ 1 \in 1 .. (n + 1) + 1 /\ (n + 1) + 1 \in 1 .. (n + 1) + 1
      /\ (n + 1) + 1 # 1 /\ ((n + 1) + 1) - 1 = n + 1
  OBVIOUS
<1>5. f[1] = p /\ f[(n + 1) + 1] = NULL
  BY <1>1, <1>4
<1>6. \A k \in 1 .. n + 1 :
        /\ k \in 1 .. (n + 1) + 1 /\ k + 1 \in 1 .. (n + 1) + 1
        /\ k + 1 # 1 /\ (k + 1) - 1 = k
        /\ k # 1 => k - 1 \in 1 .. n /\ (k - 1) + 1 = k
  OBVIOUS
<1>7. \A k \in 1 .. n + 1 : f[k + 1] = g[k]
  BY <1>6
<1>8. \A k \in 1 .. n + 1 : k # 1 => f[k] = g[k - 1] /\ f[k] \in S
  BY <1>1, <1>6
<1>9. ASSUME NEW k \in 1 .. n + 1 PROVE f[k] \in R /\ v[f[k]] = f[k + 1]
  <2>1. CASE k = 1
    BY <1>1, <1>5, <1>7, <2>1
  <2>2. CASE k # 1
    <3>1. w[g[k - 1]] = g[k] /\ g[k - 1] \in S
      BY <1>1, <1>6, <2>2
    <3> HIDE DEF f
    <3> QED BY <1>7, <1>8, <2>2, <3>1
  <2> QED BY <2>1, <2>2
<1>10. ASSUME NEW k \in 1 .. n + 1, NEW l \in 1 .. n + 1, f[k] = f[l] PROVE k = l
  <2>1. k # 1 /\ l # 1 => (g[k - 1] = g[l - 1] => k - 1 = l - 1)
    BY <1>1, <1>6
  <2>2. k # 1 /\ l # 1 => k = l
    BY <1>6, <1>8, <1>10, <2>1
  <2>3. k # 1 => f[k] # p
    BY <1>8
  <2>4. l # 1 => f[l] # p
    BY <1>8
  <2> HIDE DEF f
  <2> QED BY <1>5, <1>10, <2>2, <2>3, <2>4
<1>11. ASSUME NEW b \in R PROVE \E k \in 1 .. n + 1 : f[k] = b
  <2>1. CASE b = p
    <3>1. 1 \in 1 .. n + 1
      OBVIOUS
    <3> HIDE DEF f
    <3> QED BY <1>5, <2>1, <3>1
  <2>2. CASE b # p
    <3>1. PICK k \in 1 .. n : g[k] = b
      BY <1>1, <2>2
    <3>2. k + 1 \in 1 .. n + 1 /\ k \in 1 .. n + 1
      OBVIOUS
    <3> HIDE DEF f
    <3> QED BY <1>7, <3>1, <3>2
  <2> QED BY <2>1, <2>2
<1> HIDE DEF f, R
<1>12. Chain(p, n + 1, R, v)
  BY <1>3, <1>5, <1>9, <1>10, <1>11 DEF Chain
<1> QED BY <1>12 DEF R

\* A chain is no longer than the page has blocks.
LEMMA ChainFits ==
  ASSUME NEW i \in Slot, NEW h, NEW n \in Nat, NEW S, NEW w,
         Chain(h, n, S, w), S \subseteq Blocks(i)
  PROVE  n <= BlockCnt(i)
<1> DEFINE c == BlockCnt(i)
           J == 0 .. c - 1
           K == 1 .. n
<1>1. c \in Nat \ {0} /\ c - 1 \in Int
  BY BlockCntFits
<1>2. IsFiniteSet(J) /\ Cardinality(J) = c
  <2> HIDE DEF c
  <2>1. /\ IsFiniteSet(0 .. c - 1)
        /\ Cardinality(0 .. c - 1) = IF 0 > c - 1 THEN 0 ELSE (c - 1) - 0 + 1
    BY <1>1, FS_Interval
  <2>2. (IF 0 > c - 1 THEN 0 ELSE (c - 1) - 0 + 1) = c
    BY <1>1
  <2> QED BY <2>1, <2>2
<1>3. IsFiniteSet(K) /\ Cardinality(K) = n
  <2>1. /\ IsFiniteSet(1 .. n)
        /\ Cardinality(1 .. n) = IF 1 > n THEN 0 ELSE n - 1 + 1
    BY FS_Interval
  <2>2. (IF 1 > n THEN 0 ELSE n - 1 + 1) = n
    OBVIOUS
  <2> QED BY <2>1, <2>2
<1>4. PICK g \in [1 .. n + 1 -> S \cup {NULL}] :
        /\ \A k \in K : g[k] \in S
        /\ \A k, l \in K : g[k] = g[l] => k = l
  BY DEF Chain
<1> DEFINE f == [k \in K |-> CHOOSE j \in J : g[k] = BlockAddr(i, j)]
<1>5. \A k \in K : f[k] \in J /\ g[k] = BlockAddr(i, f[k])
  BY <1>4 DEF Blocks
<1>6. f \in [K -> J]
  BY <1>5
<1> HIDE DEF f, J, K, c
<1>7. c < n => \E k, l \in K : k # l /\ f[k] = f[l]
  BY <1>2, <1>3, <1>6, FS_PigeonHole
<1>8. ~ (c < n)
  BY <1>4, <1>5, <1>7
<1> QED BY <1>1, <1>8 DEF c

LEMMA LeadsKept ==
  ASSUME NEW h, NEW U, NEW w, NEW T, NEW v, Leads(h, U, w), U \subseteq T,
         \A b \in U : v[b] = w[b]
  PROVE  Leads(h, T, v)
<1>1. PICK S \in SUBSET U, n \in Nat : Chain(h, n, S, w)
  BY DEF Leads
<1>2. Chain(h, n, S, v)
  BY <1>1, ChainKept
<1> QED BY <1>1, <1>2 DEF Leads

LEMMA LeadsPop ==
  ASSUME NEW h, NEW U, NEW w, Leads(h, U, w), h # NULL
  PROVE  h \in U /\ Leads(w[h], U \ {h}, w)
<1>1. PICK S \in SUBSET U, n \in Nat : Chain(h, n, S, w)
  BY DEF Leads
<1>2. n # 0
  BY <1>1 DEF Chain
<1>3. h \in S /\ n - 1 \in Nat /\ Chain(w[h], n - 1, S \ {h}, w)
  BY <1>1, <1>2, ChainPop
<1> QED BY <1>3 DEF Leads

LEMMA LeadsPush ==
  ASSUME NEW h, NEW U, NEW w, Leads(h, U, w), NEW p, p \notin U, NEW v, v[p] = h,
         \A b \in U : v[b] = w[b]
  PROVE  Leads(p, U \cup {p}, v)
<1>1. PICK S \in SUBSET U, n \in Nat : Chain(h, n, S, w)
  BY DEF Leads
<1>2. Chain(p, n + 1, S \cup {p}, v)
  BY <1>1, ChainPush
<1> QED BY <1>2 DEF Leads

-----------------------------------------------------------------------------
(* The accesses, one field of the thread's call at a time.                 *)

\* Thread t's call goes on; the calls of the others stay.
Becomes(t, pc, ptr, next, cnt) ==
  /\ call' \in [Thread -> Call]
  /\ call'[t].pc = pc
  /\ call'[t].size = call[t].size
  /\ call'[t].slotId = call[t].slotId
  /\ call'[t].ptr = ptr
  /\ call'[t].next = next
  /\ call'[t].cnt = cnt
  /\ \A u \in Thread \ {t} : call'[u] = call[u]

\* Thread t's call is over.
Ends(t) ==
  /\ call' \in [Thread -> Call]
  /\ call'[t] = NoCall
  /\ \A u \in Thread \ {t} : call'[u] = call[u]

LEMMA CallFields ==
  ASSUME NEW c \in Call
  PROVE  /\ c.pc \in AllocPc \cup FreePc \cup {"idle", "wild"}
         /\ c.size \in AllocSize \cup {0}
         /\ c.slotId \in Slot \cup {INVALID_SLOT_INDEX}
         /\ c.ptr \in Word /\ c.next \in Word
         /\ c.cnt \in 0 .. UINT32 - 1
BY DEF Call

LEMMA NoCallIsCall == NoCall \in Call
<1>1. 0 \in Slot /\ UINT32 \in Nat /\ BlockCnt(0) \in Nat /\ BlockCnt(0) < UINT32
  BY ThreadsAssumption, PoolAssumption, BlockCntFits DEF Slot
<1>2. 0 \in 0 .. UINT32 - 1
  BY <1>1
<1> QED BY <1>2 DEF NoCall, Call, Word

LEMMA MovesOn ==
  ASSUME call \in [Thread -> Call], NEW t \in Thread,
         NEW pc \in AllocPc \cup FreePc \cup {"idle", "wild"},
         call' = [call EXCEPT ![t].pc = pc]
  PROVE  Becomes(t, pc, call[t].ptr, call[t].next, call[t].cnt)
<1>1. call'[t] = [call[t] EXCEPT !.pc = pc] /\ call[t] \in Call
  BY DEF Call
<1>2. call'[t] \in Call
  BY <1>1 DEF Call
<1>3. \A u \in Thread \ {t} : call'[u] = call[u]
  OBVIOUS
<1>4. call' \in [Thread -> Call]
  <2>1. DOMAIN call' = Thread
    OBVIOUS
  <2> QED BY <1>2
<1> QED BY <1>1, <1>3, <1>4 DEF Becomes, Call

LEMMA NoCallEnds ==
  ASSUME call \in [Thread -> Call], NEW t \in Thread,
         call' = [call EXCEPT ![t] = NoCall]
  PROVE  Ends(t)
BY NoCallIsCall DEF Ends

LEMMA MovesWithPtr ==
  ASSUME call \in [Thread -> Call], NEW t \in Thread,
         NEW pc \in AllocPc \cup FreePc \cup {"idle", "wild"}, NEW p \in Word,
         call' = [call EXCEPT ![t].pc = pc, ![t].ptr = p]
  PROVE  Becomes(t, pc, p, call[t].next, call[t].cnt)
<1>1. call'[t] = [call[t] EXCEPT !.pc = pc, !.ptr = p] /\ call[t] \in Call
  BY DEF Call
<1>2. call'[t] \in Call
  BY <1>1 DEF Call
<1>3. \A u \in Thread \ {t} : call'[u] = call[u]
  OBVIOUS
<1>4. call' \in [Thread -> Call]
  <2>1. DOMAIN call' = Thread
    OBVIOUS
  <2> QED BY <1>2
<1> QED BY <1>1, <1>3, <1>4 DEF Becomes, Call

LEMMA MovesWithNext ==
  ASSUME call \in [Thread -> Call], NEW t \in Thread,
         NEW pc \in AllocPc \cup FreePc \cup {"idle", "wild"}, NEW p \in Word,
         call' = [call EXCEPT ![t].pc = pc, ![t].next = p]
  PROVE  Becomes(t, pc, call[t].ptr, p, call[t].cnt)
<1>1. call'[t] = [call[t] EXCEPT !.pc = pc, !.next = p] /\ call[t] \in Call
  BY DEF Call
<1>2. call'[t] \in Call
  BY <1>1 DEF Call
<1>3. \A u \in Thread \ {t} : call'[u] = call[u]
  OBVIOUS
<1>4. call' \in [Thread -> Call]
  <2>1. DOMAIN call' = Thread
    OBVIOUS
  <2> QED BY <1>2
<1> QED BY <1>1, <1>3, <1>4 DEF Becomes, Call

LEMMA MovesWithCount ==
  ASSUME call \in [Thread -> Call], NEW t \in Thread,
         NEW pc \in AllocPc \cup FreePc \cup {"idle", "wild"},
         NEW c \in 0 .. UINT32 - 1,
         call' = [call EXCEPT ![t].pc = pc, ![t].cnt = c]
  PROVE  Becomes(t, pc, call[t].ptr, call[t].next, c)
<1>1. call'[t] = [call[t] EXCEPT !.pc = pc, !.cnt = c] /\ call[t] \in Call
  BY DEF Call
<1>2. call'[t] \in Call
  BY <1>1 DEF Call
<1>3. \A u \in Thread \ {t} : call'[u] = call[u]
  OBVIOUS
<1>4. call' \in [Thread -> Call]
  <2>1. DOMAIN call' = Thread
    OBVIOUS
  <2> QED BY <1>2
<1> QED BY <1>1, <1>3, <1>4 DEF Becomes, Call

\* Thread t enters a call.
Starts(t, pc, size, slotId, ptr) ==
  /\ call' \in [Thread -> Call]
  /\ call'[t].pc = pc
  /\ call'[t].size = size
  /\ call'[t].slotId = slotId
  /\ call'[t].ptr = ptr
  /\ \A u \in Thread \ {t} : call'[u] = call[u]

LEMMA CallMade ==
  ASSUME NEW pc \in AllocPc \cup FreePc \cup {"idle", "wild"},
         NEW size \in AllocSize, NEW slotId \in Slot \cup {INVALID_SLOT_INDEX},
         NEW ptr \in Word
  PROVE  [pc |-> pc, size |-> size, slotId |-> slotId, ptr |-> ptr,
          next |-> NULL, cnt |-> 0] \in Call
<1>1. /\ 0 \in 0 .. UINT32 - 1 /\ NULL \in Word
      /\ size \in AllocSize \cup {0}
  BY NoCallIsCall, CallFields DEF NoCall, Word
<1> QED BY <1>1 DEF Call

LEMMA AllocStarts ==
  ASSUME call \in [Thread -> Call], NEW t \in Thread,
         NEW pc \in AllocPc, NEW size \in AllocSize,
         NEW slotId \in Slot \cup {INVALID_SLOT_INDEX},
         call' = [call EXCEPT ![t] =
                    [NoCall EXCEPT !.pc = pc, !.size = size, !.slotId = slotId]]
  PROVE  Starts(t, pc, size, slotId, NULL)
<1>1. call'[t] = [NoCall EXCEPT !.pc = pc, !.size = size, !.slotId = slotId]
  OBVIOUS
<1>2. call'[t] = [pc |-> pc, size |-> size, slotId |-> slotId, ptr |-> NULL,
                  next |-> NULL, cnt |-> 0]
  BY <1>1 DEF NoCall
<1>3. NULL \in Word /\ pc \in AllocPc \cup FreePc \cup {"idle", "wild"}
  BY DEF Word
<1>4. call'[t] \in Call
  BY <1>2, <1>3, CallMade
<1>5. \A u \in Thread \ {t} : call'[u] = call[u]
  OBVIOUS
<1>6. call' \in [Thread -> Call]
  <2>1. DOMAIN call' = Thread
    OBVIOUS
  <2> QED BY <1>4
<1> QED BY <1>2, <1>5, <1>6 DEF Starts

LEMMA FreeStarts ==
  ASSUME call \in [Thread -> Call], NEW t \in Thread,
         NEW size \in AllocSize, NEW slotId \in Slot, NEW p \in Word,
         call' = [call EXCEPT ![t] =
                    [NoCall EXCEPT !.pc = "freeHead", !.size = size,
                                   !.slotId = slotId, !.ptr = p]]
  PROVE  Starts(t, "freeHead", size, slotId, p)
<1>1. call'[t] = [NoCall EXCEPT !.pc = "freeHead", !.size = size,
                                !.slotId = slotId, !.ptr = p]
  OBVIOUS
<1>2. call'[t] = [pc |-> "freeHead", size |-> size, slotId |-> slotId, ptr |-> p,
                  next |-> NULL, cnt |-> 0]
  BY <1>1 DEF NoCall
<1>3. slotId \in Slot \cup {INVALID_SLOT_INDEX}
      /\ "freeHead" \in AllocPc \cup FreePc \cup {"idle", "wild"}
  BY DEF FreePc
<1>4. call'[t] \in Call
  BY <1>2, <1>3, CallMade
<1>5. \A u \in Thread \ {t} : call'[u] = call[u]
  OBVIOUS
<1>6. call' \in [Thread -> Call]
  <2>1. DOMAIN call' = Thread
    OBVIOUS
  <2> QED BY <1>4
<1> QED BY <1>2, <1>5, <1>6 DEF Starts

-----------------------------------------------------------------------------
(* OwnClass, whatever the races.                                           *)

LEMMA ClassFacts ==
  ASSUME NEW i \in Slot
  PROVE  /\ Link(i) \subseteq Word
         /\ Blocks(i) \subseteq Block /\ Blocks(i) \subseteq Addr
         /\ Blocks(i) \subseteq Link(i)
         /\ NULL \notin Blocks(i) /\ USER_DATA \notin Blocks(i)
         /\ \A j \in Slot : \A b \in Blocks(j) : b \in Blocks(i) => j = i
         /\ i # INVALID_SLOT_INDEX
         /\ NULL \in Link(i) /\ USER_DATA \in Link(i)
         /\ \A b \in Block : b \in Link(i) => b \in Blocks(i)
<1>1. Blocks(i) \subseteq Block
  BY PageOfBlock
<1>2. NULL \notin Block /\ USER_DATA \notin Block
  BY NullIsNoBlock
<1>3. \A j \in Slot : \A b \in Blocks(j) : b \in Blocks(i) => j = i
  BY PageOfBlock
<1>4. i # INVALID_SLOT_INDEX
  BY PoolAssumption DEF INVALID_SLOT_INDEX, Slot
<1> QED BY <1>1, <1>2, <1>3, <1>4 DEF Link, Word, Addr

\* A step that moves one call, keeps what the threads hold, and links blocks
\* of a class with blocks of that class only.
LEMMA OwnClassStep ==
  ASSUME OwnClass, NEW t \in Thread,
         call' \in [Thread -> Call], \A u \in Thread \ {t} : call'[u] = call[u],
         CallInClass(t)',
         mine' = mine,
         overlap' \in [Slot -> {"none", "frees", "any"}],
         currMemPtr' \in [Slot -> Word], \A i \in Slot : currMemPtr'[i] \in Link(i),
         freeBlockCnt' \in [Slot -> 0 .. UINT32 - 1],
         word' \in [Block -> Word],
         \A i \in Slot : \A b \in Blocks(i) : word'[b] \in Link(i),
         live' \in [Addr -> AllocSize \cup {NotLive}],
         \A h \in HeapAddr : live'[h] = live[h]
  PROVE  OwnClass'
<1>1. ASSUME NEW u \in Thread PROVE CallInClass(u)'
  <2>1. CASE u = t
    BY <2>1
  <2>2. CASE u # t
    <3>1. call'[u] = call[u]
      BY <2>2
    <3> QED BY <3>1 DEF OwnClass, CallInClass
  <2> QED BY <2>1, <2>2
<1>2. ASSUME NEW u \in Thread PROVE HeldInClass(u)'
  BY DEF OwnClass, HeldInClass
<1>3. ASSUME NEW u \in Thread PROVE HeapHeld(u)'
  BY DEF OwnClass, HeapHeld
<1>4. mine' \in [Thread -> SUBSET (Addr \X AllocSize)]
  BY DEF OwnClass
<1> QED BY <1>1, <1>2, <1>3, <1>4 DEF OwnClass

\* A step that touches nothing but the call.
LEMMA OwnClassMove ==
  ASSUME OwnClass, NEW t \in Thread,
         call' \in [Thread -> Call], \A u \in Thread \ {t} : call'[u] = call[u],
         CallInClass(t)', mine' = mine,
         overlap' \in [Slot -> {"none", "frees", "any"}], UNCHANGED pool
  PROVE  OwnClass'
BY OwnClassStep DEF OwnClass, pool

LEMMA EntersType ==
  ASSUME OwnClass, NEW i, NEW isFree, Enters(i, isFree)
  PROVE  overlap' \in [Slot -> {"none", "frees", "any"}]
BY DEF OwnClass, Enters

LEMMA NoCallInClass ==
  ASSUME NEW t \in Thread, call'[t] = NoCall
  PROVE  CallInClass(t)'
BY DEF CallInClass, NoCall, AllocPc, FreePc

-----------------------------------------------------------------------------
(* The class of the step, and the other classes.                           *)

HeadAhead == {"load", "store", "clear", "freePush"}
CountAhead == {"clear", "freePush", "freeLoad", "freeStore"}

\* What the list of a class is worth while its one call is t's.
NowWithin(t, i) ==
  /\ HeadNow(i) = IF call[t].pc \in HeadAhead THEN call[t].ptr ELSE currMemPtr[i]
  /\ CountNow(i) = IF call[t].pc \in CountAhead THEN (freeBlockCnt[i] + 1) % UINT32
                                                ELSE freeBlockCnt[i]

NowIsKnown ==
  \A i \in Slot :
    /\ \A t \in Thread : OneCall(i) /\ Inside(t, i) => NowWithin(t, i)
    /\ (\A t \in Thread : ~ Inside(t, i)) =>
         HeadNow(i) = currMemPtr[i] /\ CountNow(i) = freeBlockCnt[i]

LEMMA NowKnown == NowIsKnown
<1> SUFFICES ASSUME NEW i \in Slot
             PROVE  /\ \A t \in Thread : OneCall(i) /\ Inside(t, i) => NowWithin(t, i)
                    /\ (\A t \in Thread : ~ Inside(t, i)) =>
                         HeadNow(i) = currMemPtr[i] /\ CountNow(i) = freeBlockCnt[i]
  BY DEF NowIsKnown
<1> DEFINE hs == InSlot(i, HeadAhead)
           cs == InSlot(i, CountAhead)
<1>1. HeadNow(i) = IF hs = {} THEN currMemPtr[i] ELSE call[CHOOSE t \in hs : TRUE].ptr
  BY DEF HeadNow, HeadAhead
<1>2. CountNow(i) = IF cs = {} THEN freeBlockCnt[i] ELSE (freeBlockCnt[i] + 1) % UINT32
  BY DEF CountNow, CountAhead
<1>3. HeadAhead \subseteq AllocPc \cup FreePc /\ CountAhead \subseteq AllocPc \cup FreePc
  BY DEF HeadAhead, CountAhead, AllocPc, FreePc
<1>4. \A u \in Thread : u \in hs \/ u \in cs => Inside(u, i)
  BY <1>3 DEF InSlot, Inside, At
<1>5. hs \subseteq Thread /\ cs \subseteq Thread
  BY DEF InSlot
<1>6. ASSUME NEW t \in Thread, OneCall(i), Inside(t, i) PROVE NowWithin(t, i)
  <2>1. hs \subseteq {t} /\ cs \subseteq {t}
    BY <1>4, <1>5, <1>6 DEF OneCall
  <2>2. t \in hs <=> call[t].pc \in HeadAhead
    BY <1>6 DEF InSlot, Inside, At
  <2>3. t \in cs <=> call[t].pc \in CountAhead
    BY <1>6 DEF InSlot, Inside, At
  <2> HIDE DEF hs, cs
  <2>4. hs = {} \/ hs = {t}
    BY <2>1
  <2>5. hs # {} => (CHOOSE u \in hs : TRUE) = t
    BY <2>1
  <2>6. HeadNow(i) = IF call[t].pc \in HeadAhead THEN call[t].ptr ELSE currMemPtr[i]
    BY <1>1, <2>2, <2>4, <2>5
  <2>7. cs = {} <=> call[t].pc \notin CountAhead
    BY <2>1, <2>3
  <2> QED BY <1>2, <2>6, <2>7 DEF NowWithin
<1>7. ASSUME \A t \in Thread : ~ Inside(t, i)
      PROVE  HeadNow(i) = currMemPtr[i] /\ CountNow(i) = freeBlockCnt[i]
  <2>1. hs = {} /\ cs = {}
    BY <1>4, <1>5, <1>7
  <2> HIDE DEF hs, cs
  <2> QED BY <1>1, <1>2, <2>1
<1> QED BY <1>6, <1>7

LEMMA NowKnownNext == NowIsKnown'
BY NowKnown, PTL

LEMMA CountIsNat ==
  ASSUME OwnClass, NEW i \in Slot
  PROVE  CountNow(i) \in 0 .. UINT32 - 1 /\ CountNow(i) \in Nat
<1>1. freeBlockCnt[i] \in 0 .. UINT32 - 1 /\ UINT32 \in Nat
  BY ThreadsAssumption DEF OwnClass
<1>2. (freeBlockCnt[i] + 1) % UINT32 \in 0 .. UINT32 - 1
  <2>1. UINT32 \in Nat \ {0} /\ freeBlockCnt[i] + 1 \in Nat
    BY <1>1
  <2> QED BY <2>1
<1> QED BY <1>1, <1>2 DEF CountNow

\* FreeListExact, of the pool seen through HeadNow and CountNow, is a chain
\* through the unused blocks.
LEMMA ExactList ==
  ASSUME NEW i \in Slot, CountNow(i) \in Nat
  PROVE  Pool!FreeListExactAt(i) <=> Chain(HeadNow(i), CountNow(i), Unused(i), word)
<1> DEFINE n == CountNow(i)
           G(g) == /\ g[1] = HeadNow(i)
                   /\ g[n + 1] = NULL
                   /\ \A k \in 1 .. n : g[k] \in Blocks(i) /\ word[g[k]] = g[k + 1]
                   /\ \A k, l \in 1 .. n : g[k] = g[l] => k = l
                   /\ \A b \in Blocks(i) : live[b] = NotLive <=> \E k \in 1 .. n : g[k] = b
<1>1. Pool!FreeListExactAt(i) <=> \E g \in [1 .. n + 1 -> Blocks(i) \cup {NULL}] : G(g)
  <2>1. Pool!Blocks(i) = Blocks(i)
    BY DEF Pool!Blocks, Blocks, Pool!BlockAddr, BlockAddr, Pool!memPtr, memPtr,
           Pool!BlockCnt, BlockCnt
  <2>2. [j \in Slot |-> HeadNow(j)][i] = HeadNow(i) /\ [j \in Slot |-> CountNow(j)][i] = n
    OBVIOUS
  <2> HIDE DEF n
  <2>3. ASSUME NEW g PROVE Pool!IsFreeList(i, n, g) <=> G(g)
    BY <2>1, <2>2 DEF Pool!IsFreeList, Pool!Live, Pool!NotLive, NotLive, Pool!NULL, NULL, Pool!Slot, Slot
  <2> HIDE DEF G
  <2> QED BY <2>1, <2>2, <2>3 DEF Pool!FreeListExactAt, Pool!NULL, NULL, Pool!Slot, Slot
<1>2. \A k \in 1 .. n + 1 : k = n + 1 \/ k \in 1 .. n
  OBVIOUS
<1>3. ASSUME NEW g \in [1 .. n + 1 -> Blocks(i) \cup {NULL}], G(g)
      PROVE  Chain(HeadNow(i), n, Unused(i), word)
  <2>1. \A k \in 1 .. n : g[k] \in Unused(i)
    BY <1>3 DEF Unused
  <2>2. g \in [1 .. n + 1 -> Unused(i) \cup {NULL}]
    <3> HIDE DEF n
    <3> QED BY <1>2, <1>3, <2>1
  <2>3. \A b \in Unused(i) : \E k \in 1 .. n : g[k] = b
    BY <1>3 DEF Unused
  <2> HIDE DEF n
  <2> QED BY <1>3, <2>1, <2>2, <2>3 DEF Chain
<1>4. ASSUME Chain(HeadNow(i), n, Unused(i), word)
      PROVE  \E g \in [1 .. n + 1 -> Blocks(i) \cup {NULL}] : G(g)
  <2> HIDE DEF n
  <2>1. PICK g \in [1 .. n + 1 -> Unused(i) \cup {NULL}] :
          /\ g[1] = HeadNow(i)
          /\ g[n + 1] = NULL
          /\ \A k \in 1 .. n : g[k] \in Unused(i) /\ word[g[k]] = g[k + 1]
          /\ \A k, l \in 1 .. n : g[k] = g[l] => k = l
          /\ \A b \in Unused(i) : \E k \in 1 .. n : g[k] = b
    BY <1>4 DEF Chain
  <2>2. g \in [1 .. n + 1 -> Blocks(i) \cup {NULL}]
    BY DEF Unused
  <2>3. \A b \in Blocks(i) : live[b] = NotLive <=> \E k \in 1 .. n : g[k] = b
    BY <2>1 DEF Unused
  <2>4. \A k \in 1 .. n : g[k] \in Blocks(i)
    BY <2>1 DEF Unused
  <2>5. G(g)
    BY <2>1, <2>3, <2>4
  <2> QED BY <2>2, <2>5
<1> QED BY <1>1, <1>3, <1>4

\* A step of t that neither enters nor leaves class j, nor writes its head, its
\* count or a link of it: an access to another class, malloc and free of the C
\* library, and a caller that fills what it holds.
LEMMA ElsewhereKept ==
  ASSUME OwnClass, NEW j \in Slot, ClassInv(j), NEW t \in Thread,
         \A u \in Thread \ {t} : call'[u] = call[u],
         ~ Inside(t, j), ~ Inside(t, j)',
         currMemPtr'[j] = currMemPtr[j], freeBlockCnt'[j] = freeBlockCnt[j],
         overlap'[j] = overlap[j],
         \A b \in Blocks(j) : live'[b] = live[b] /\ (live[b] = NotLive => word'[b] = word[b]),
         \A u \in Thread : \A held \in mine'[u] : held[1] \in Blocks(j) => held \in mine[u]
  PROVE  ClassInv(j)'
<1>1. \A u \in Thread : /\ Inside(u, j)' <=> Inside(u, j)
                        /\ Inside(u, j) => call'[u] = call[u]
                        /\ Inside(u, j) => call[u].slotId = j
  BY DEF Inside, At
<1>2. \A pcs \in SUBSET (AllocPc \cup FreePc) : \A u \in Thread :
        /\ At(u, j, pcs)' <=> At(u, j, pcs)
        /\ At(u, j, pcs) => call'[u] = call[u]
        /\ At(u, j, pcs) => call[u].slotId = j /\ call[u].pc \in pcs
  <2> SUFFICES ASSUME NEW pcs \in SUBSET (AllocPc \cup FreePc), NEW u \in Thread
               PROVE  /\ At(u, j, pcs)' <=> At(u, j, pcs)
                      /\ At(u, j, pcs) => call'[u] = call[u]
    BY DEF At
  <2>1. CASE u = t
    BY <2>1 DEF Inside, At
  <2>2. CASE u # t
    BY <2>2 DEF At
  <2> QED BY <2>1, <2>2
<1>3. Unused(j)' = Unused(j)
  BY DEF Unused
<1>4. \A b \in Unused(j) : word'[b] = word[b]
  BY DEF Unused
<1>5. ASSUME Shares(j) PROVE Shares(j)'
  <2>1. Turns(j)'
    BY <1>1, <1>5 DEF Shares, Turns
  <2>2. Holders(j)'
    BY <1>5 DEF Shares, Holders
  <2>3. Leavers(j)'
    <3>1. Leaving \in SUBSET (AllocPc \cup FreePc)
      BY DEF Leaving, AllocPc, FreePc
    <3>2. \A u \in Thread : At(u, j, Leaving) => call[u].ptr \in Blocks(j)
      BY DEF OwnClass, CallInClass, At, Leaving, AllocPc, FreePc
    <3>3. \A u \in Thread : At(u, j, Leaving)' =>
            /\ At(u, j, Leaving) /\ call'[u] = call[u] /\ call[u].ptr \in Blocks(j)
            /\ live'[call[u].ptr] = live[call[u].ptr]
      BY <1>2, <3>1, <3>2
    <3>4. ASSUME NEW u \in Thread, At(u, j, Leaving)'
          PROVE  /\ live'[call'[u].ptr] = call'[u].size
                 /\ \A v \in Thread : \A held \in mine'[v] : held[1] # call'[u].ptr
      BY <1>5, <3>3, <3>4 DEF Shares, Leavers
    <3>5. ASSUME NEW u \in Thread, NEW v \in Thread,
                 At(u, j, Leaving)', At(v, j, Leaving)', call'[u].ptr = call'[v].ptr
          PROVE  u = v
      BY <1>5, <3>3, <3>5 DEF Shares, Leavers
    <3> QED BY <3>4, <3>5 DEF Leavers
  <2>4. Heads(j)'
    <3>1. /\ Leads(currMemPtr[j], Unused(j), word)
          /\ \A u \in Thread :
               /\ At(u, j, {"link", "unlink"}) => call[u].ptr = currMemPtr[j]
               /\ At(u, j, {"unlink"}) => call[u].next = word[call[u].ptr]
               /\ At(u, j, {"load", "store", "clear"}) =>
                    /\ call[u].ptr \in Unused(j)
                    /\ Leads(currMemPtr[j], Unused(j) \ {call[u].ptr}, word)
               /\ At(u, j, {"freeLink"}) => Leads(call[u].next, Unused(j), word)
               /\ At(u, j, {"freePush"}) => Leads(call[u].ptr, Unused(j), word)
      BY <1>5 DEF Shares, Heads, AimsAt
    <3>2. Leads(currMemPtr'[j], Unused(j)', word')
      BY <1>3, <1>4, <3>1, LeadsKept
    <3>3. ASSUME NEW u \in Thread
          PROVE  /\ At(u, j, {"link", "unlink"})' => call'[u].ptr = currMemPtr'[j]
                 /\ At(u, j, {"unlink"})' => call'[u].next = word'[call'[u].ptr]
      <4>1. At(u, j, {"link", "unlink"})' => At(u, j, {"link", "unlink"}) /\ call'[u] = call[u]
        BY <1>2 DEF AllocPc
      <4>2. At(u, j, {"unlink"})' => At(u, j, {"unlink"}) /\ call'[u] = call[u]
        BY <1>2 DEF AllocPc
      <4>3. At(u, j, {"unlink"}) => call[u].ptr \in Unused(j)
        <5>1. At(u, j, {"unlink"}) => call[u].ptr = currMemPtr[j]
          <6>1. At(u, j, {"unlink"}) => At(u, j, {"link", "unlink"})
            BY DEF At
          <6> QED BY <3>1, <6>1
        <5>2. At(u, j, {"unlink"}) => call[u].ptr \in Blocks(j)
          BY DEF At, OwnClass, CallInClass
        <5>3. currMemPtr[j] \in Blocks(j) => currMemPtr[j] # NULL
          BY ClassFacts
        <5>4. currMemPtr[j] # NULL => currMemPtr[j] \in Unused(j)
          BY <3>1, LeadsPop
        <5> QED BY <5>1, <5>2, <5>3, <5>4
      <4>4. At(u, j, {"link", "unlink"}) => call[u].ptr = currMemPtr[j]
        BY <3>1
      <4>5. At(u, j, {"unlink"}) => call[u].next = word[call[u].ptr]
        BY <3>1
      <4> QED BY <1>4, <4>1, <4>2, <4>3, <4>4, <4>5
    <3>4. ASSUME NEW u \in Thread, At(u, j, {"load", "store", "clear"})'
          PROVE  /\ call'[u].ptr \in Unused(j)'
                 /\ Leads(currMemPtr'[j], Unused(j)' \ {call'[u].ptr}, word')
      <4>1. At(u, j, {"load", "store", "clear"}) /\ call'[u] = call[u]
        BY <1>2, <3>4 DEF AllocPc
      <4> DEFINE U == Unused(j) \ {call[u].ptr}
      <4>2. Leads(currMemPtr[j], U, word) /\ U \subseteq U /\ \A b \in U : word'[b] = word[b]
        BY <1>4, <3>1, <4>1
      <4> HIDE DEF U
      <4>3. Leads(currMemPtr[j], U, word')
        BY <4>2, LeadsKept
      <4> QED BY <1>3, <3>1, <4>1, <4>3 DEF U
    <3>5. ASSUME NEW u \in Thread, At(u, j, {"freeLink"})'
          PROVE  Leads(call'[u].next, Unused(j)', word')
      <4>1. At(u, j, {"freeLink"}) /\ call'[u] = call[u]
        BY <1>2, <3>5 DEF FreePc
      <4>2. Leads(call[u].next, Unused(j), word)
        BY <3>1, <4>1
      <4>3. Leads(call[u].next, Unused(j), word')
        BY <1>4, <4>2, LeadsKept
      <4> QED BY <1>3, <4>1, <4>3
    <3>6. ASSUME NEW u \in Thread, At(u, j, {"freePush"})'
          PROVE  Leads(call'[u].ptr, Unused(j)', word')
      <4>1. At(u, j, {"freePush"}) /\ call'[u] = call[u]
        BY <1>2, <3>6 DEF FreePc
      <4>2. Leads(call[u].ptr, Unused(j), word)
        BY <3>1, <4>1
      <4>3. Leads(call[u].ptr, Unused(j), word')
        BY <1>4, <4>2, LeadsKept
      <4> QED BY <1>3, <4>1, <4>3
    <3> QED BY <3>2, <3>3, <3>4, <3>5, <3>6 DEF Heads, AimsAt
  <2> QED BY <2>1, <2>2, <2>3, <2>4 DEF Shares
<1>6. ASSUME Shares(j), Exact(j) PROVE Exact(j)'
  <2>1. OneCall(j)'
    BY <1>1, <1>6 DEF Exact, OneCall
  <2>2. HeadNow(j)' = HeadNow(j) /\ CountNow(j)' = CountNow(j)
    <3>1. CASE \E u \in Thread : Inside(u, j)
      <4>1. PICK u \in Thread : Inside(u, j)
        BY <3>1
      <4>2. NowWithin(u, j) /\ NowWithin(u, j)'
        BY <1>1, <1>6, <2>1, <4>1, NowKnown, NowKnownNext DEF NowIsKnown, Exact
      <4>3. call'[u] = call[u]
        BY <1>1, <4>1
      <4> QED BY <4>2, <4>3 DEF NowWithin
    <3>2. CASE \A u \in Thread : ~ Inside(u, j)
      <4>1. \A u \in Thread : ~ Inside(u, j)'
        BY <1>1, <3>2
      <4> QED BY <3>2, <4>1, NowKnown, NowKnownNext DEF NowIsKnown
    <3> QED BY <3>1, <3>2
  <2>3. Chain(HeadNow(j)', CountNow(j)', Unused(j)', word')
    <3>1. CountNow(j) \in Nat
      BY CountIsNat
    <3> QED BY <1>3, <1>4, <1>6, <2>2, <3>1, ChainKept DEF Exact
  <2>4. ASSUME NEW u \in Thread PROVE Knows(u, j)'
    <3>1. Knows(u, j)
      BY <1>6 DEF Exact
    <3>2. CASE ~ Inside(u, j)
      <4>1. \A pcs \in SUBSET (AllocPc \cup FreePc) : ~ At(u, j, pcs)'
        BY <1>1, <3>2 DEF Inside, At
      <4> QED BY <4>1 DEF Knows, AllocPc, FreePc
    <3>3. CASE Inside(u, j)
      <4>1. call'[u] = call[u] /\ call[u].slotId = j
        BY <1>1, <3>3
      <4>2. At(u, j, {"load", "store", "clear"}) => call[u].ptr \in Unused(j)
        BY <1>6 DEF Shares, Heads, AimsAt
      <4> QED BY <1>4, <3>1, <4>1, <4>2 DEF Knows, At
    <3> QED BY <3>2, <3>3
  <2> QED BY <2>1, <2>3, <2>4 DEF Exact
<1>7. overlap'[j] # "any" => Shares(j) /\ Shares(j)'
  BY <1>5 DEF ClassInv
<1>8. Calm(j)' => Shares(j) /\ Exact(j)
  BY DEF Calm, ClassInv
<1> QED BY <1>6, <1>7, <1>8 DEF ClassInv

-----------------------------------------------------------------------------
(* Allocation, in its class.                                               *)

\* Thread t does not change what the others do, and t's call stays in class i
\* or ends.
LEMMA OthersKnow ==
  ASSUME NEW i \in Slot, NEW t \in Thread, \A u \in Thread \ {t} : ~ Inside(u, i),
         \A u \in Thread \ {t} : call'[u] = call[u]
  PROVE  /\ OneCall(i)' /\ Turns(i)'
         /\ \A u \in Thread \ {t} :
              /\ ~ Inside(u, i)'
              /\ Knows(u, i)' /\ AimsAt(u, i)'
              /\ ~ At(u, i, Leaving)'
<1>1. \A u \in Thread \ {t} : ~ Inside(u, i)'
  BY DEF Inside, At
<1>2. \A u \in Thread \ {t} : \A pcs \in SUBSET (AllocPc \cup FreePc) : ~ At(u, i, pcs)'
  BY <1>1 DEF Inside, At
<1>3. \A u \in Thread \ {t} : Knows(u, i)'
  BY <1>2 DEF Knows, AllocPc, FreePc
<1>4. \A u \in Thread \ {t} : AimsAt(u, i)'
  BY <1>2 DEF AimsAt, AllocPc, FreePc
<1>5. \A u \in Thread \ {t} : ~ At(u, i, Leaving)'
  BY <1>2 DEF Leaving, AllocPc, FreePc
<1> QED BY <1>1, <1>3, <1>4, <1>5 DEF OneCall, Turns

\* An allocation under way in a class where it is alone.
LEMMA AllocGoesOn ==
  ASSUME NEW i \in Slot, NEW t \in Thread, ClassInv(i),
         At(t, i, AllocPc), \A u \in Thread \ {t} : call'[u] = call[u],
         At(t, i, AllocPc \cup {"wild"})',
         mine' = mine, live' = live, overlap' = overlap,
         Shares(i) => Leads(currMemPtr'[i], Unused(i), word') /\ AimsAt(t, i)',
         Shares(i) /\ Exact(i) =>
           /\ Inside(t, i)'
           /\ Knows(t, i)'
           /\ NowWithin(t, i) /\ NowWithin(t, i)' =>
                Chain(HeadNow(i)', CountNow(i)', Unused(i), word')
  PROVE  ClassInv(i)'
<1>1. Unused(i)' = Unused(i)
  BY DEF Unused
<1>2. Inside(t, i) /\ call[t].pc \in AllocPc
  BY DEF Inside, At
<1>3. ASSUME Shares(i) PROVE Shares(i)'
  <2>1. \A u \in Thread \ {t} : ~ Inside(u, i)
    BY <1>2, <1>3 DEF Shares, Turns
  <2>2. Turns(i)' /\ \A u \in Thread \ {t} : AimsAt(u, i)' /\ ~ At(u, i, Leaving)'
    BY <2>1, OthersKnow
  <2>3. ~ At(t, i, Leaving)'
    BY DEF At, Leaving, AllocPc
  <2>4. Leavers(i)'
    BY <2>2, <2>3 DEF Leavers
  <2>5. Holders(i)'
    BY <1>3 DEF Shares, Holders
  <2>6. Heads(i)'
    BY <1>1, <1>3, <2>2 DEF Heads
  <2> QED BY <2>2, <2>4, <2>5, <2>6 DEF Shares
<1>4. ASSUME Shares(i), Exact(i) PROVE Exact(i)'
  <2>1. \A u \in Thread \ {t} : ~ Inside(u, i)
    BY <1>2, <1>4 DEF Exact, OneCall
  <2>2. OneCall(i)' /\ \A u \in Thread \ {t} : Knows(u, i)'
    BY <2>1, OthersKnow
  <2>3. NowWithin(t, i) /\ NowWithin(t, i)'
    BY <1>2, <1>4, <2>2, NowKnown, NowKnownNext DEF NowIsKnown, Exact
  <2> QED BY <1>1, <1>4, <2>2, <2>3 DEF Exact
<1> QED BY <1>3, <1>4 DEF ClassInv, Calm

\* Which class a step of t is in.
LEMMA InItsClass ==
  ASSUME OwnClass, NEW t \in Thread, call[t].pc \in (AllocPc \ {"malloc"}) \cup FreePc
  PROVE  /\ call[t].slotId \in Slot
         /\ call[t].slotId = ChooseSlotBlockIdByAllocSize(call[t].size)
         /\ call[t].size \in AllocSize
         /\ \A j \in Slot : j # call[t].slotId => ~ Inside(t, j)
BY DEF OwnClass, CallInClass, Inside, At

\* A step inside class i that leaves the blocks of the other classes alone.
LEMMA OtherClasses ==
  ASSUME ThreadsInv, NEW i \in Slot, NEW t \in Thread, call[t].slotId = i,
         call'[t].slotId = i \/ call'[t].slotId = INVALID_SLOT_INDEX,
         \A u \in Thread \ {t} : call'[u] = call[u],
         \A j \in Slot \ {i} :
            /\ currMemPtr'[j] = currMemPtr[j]
            /\ freeBlockCnt'[j] = freeBlockCnt[j]
            /\ overlap'[j] = overlap[j]
            /\ \A b \in Blocks(j) : live'[b] = live[b] /\ word'[b] = word[b]
            /\ \A u \in Thread : \A held \in mine'[u] :
                 held[1] \in Blocks(j) => held \in mine[u]
  PROVE  \A j \in Slot \ {i} : ClassInv(j)'
<1> TAKE j \in Slot \ {i}
<1>1. ~ Inside(t, j) /\ ~ Inside(t, j)'
  BY ClassFacts DEF Inside, At
<1> QED BY <1>1, ElsewhereKept DEF ThreadsInv

LEMMA CheckCountKeeps ==
  ASSUME ThreadsInv, NEW t \in Thread, CheckCount(t)
  PROVE  ThreadsInv'
<1> DEFINE pc == IF freeBlockCnt[call[t].slotId] = 0 THEN "malloc" ELSE "head"
<1>1. /\ call[t].pc = "count" /\ call' = [call EXCEPT ![t].pc = pc]
      /\ UNCHANGED <<pool, mine, overlap>> /\ call \in [Thread -> Call] /\ OwnClass
  BY DEF CheckCount, Step, ThreadsInv, OwnClass
<1>2. PICK i \in Slot : /\ i = call[t].slotId
                        /\ i = ChooseSlotBlockIdByAllocSize(call[t].size)
                        /\ call[t].size \in AllocSize
  BY <1>1, InItsClass DEF AllocPc
<1>3. Becomes(t, pc, call[t].ptr, call[t].next, call[t].cnt)
  <2>1. pc \in AllocPc \cup FreePc \cup {"idle", "wild"}
    BY DEF AllocPc
  <2> HIDE DEF pc
  <2> QED BY <1>1, <2>1, MovesOn
<1>4. OwnClass'
  <2>1. CallInClass(t)'
    BY <1>2, <1>3 DEF CallInClass, Becomes, AllocPc, FreePc
  <2>2. overlap' \in [Slot -> {"none", "frees", "any"}]
    BY <1>1 DEF OwnClass
  <2> QED BY <1>1, <1>3, <2>1, <2>2, OwnClassMove DEF Becomes
<1>5. \A j \in Slot \ {i} : ClassInv(j)'
  BY <1>1, <1>2, <1>3, OtherClasses DEF Becomes, pool
<1>6. ClassInv(i)'
  <2>1. ClassInv(i) /\ At(t, i, AllocPc) /\ At(t, i, AllocPc)' /\ At(t, i, AllocPc \cup {"wild"})'
    BY <1>1, <1>2, <1>3 DEF ThreadsInv, At, Becomes, AllocPc
  <2>2. Shares(i) => Leads(currMemPtr'[i], Unused(i), word') /\ AimsAt(t, i)'
    BY <1>1, <1>2, <1>3 DEF Shares, Heads, AimsAt, At, Becomes, pool
  <2>3. ASSUME Exact(i)
        PROVE  /\ Inside(t, i)' /\ Knows(t, i)'
               /\ NowWithin(t, i) /\ NowWithin(t, i)' =>
                    Chain(HeadNow(i)', CountNow(i)', Unused(i), word')
    <3>1. Inside(t, i)'
      BY <2>1 DEF Inside, At
    <3>2. Knows(t, i)'
      BY <1>1, <1>2, <1>3 DEF Knows, At, Becomes, pool
    <3>3. ASSUME NowWithin(t, i), NowWithin(t, i)'
          PROVE  HeadNow(i)' = HeadNow(i) /\ CountNow(i)' = CountNow(i)
      BY <1>1, <1>3, <3>3 DEF NowWithin, HeadAhead, CountAhead, Becomes, pool
    <3> QED BY <1>1, <2>3, <3>1, <3>2, <3>3 DEF Exact, pool
  <2> QED BY <1>1, <1>3, <2>1, <2>2, <2>3, AllocGoesOn DEF Becomes, pool
<1> QED BY <1>4, <1>5, <1>6 DEF ThreadsInv

\* A call that found the count positive finds an unused block at the head.
LEMMA HeadThere ==
  ASSUME OwnClass, NEW i \in Slot, NEW t \in Thread, Exact(i),
         At(t, i, {"head", "link", "unlink"})
  PROVE  currMemPtr[i] \in Unused(i)
<1>1. Inside(t, i) /\ freeBlockCnt[i] # 0 /\ call[t].pc \notin HeadAhead \cup CountAhead
  BY DEF Inside, At, AllocPc, Exact, Knows, HeadAhead, CountAhead
<1>2. NowWithin(t, i) /\ Chain(HeadNow(i), CountNow(i), Unused(i), word)
  BY <1>1, NowKnown DEF NowIsKnown, Exact
<1>3. HeadNow(i) = currMemPtr[i] /\ CountNow(i) = freeBlockCnt[i] /\ CountNow(i) \in Nat
  BY <1>1, <1>2, CountIsNat DEF NowWithin
<1> QED BY <1>1, <1>2, <1>3, ChainPop

LEMMA ReadHeadKeeps ==
  ASSUME ThreadsInv, NEW t \in Thread, ReadHead(t)
  PROVE  ThreadsInv'
<1>1. /\ call[t].pc = "head" /\ UNCHANGED <<pool, mine, overlap>>
      /\ call \in [Thread -> Call] /\ OwnClass
  BY DEF ReadHead, ThreadsInv, OwnClass
<1>2. PICK i \in Slot : /\ i = call[t].slotId
                        /\ i = ChooseSlotBlockIdByAllocSize(call[t].size)
                        /\ call[t].size \in AllocSize
  BY <1>1, InItsClass DEF AllocPc
<1>3. currMemPtr[i] \in Word /\ currMemPtr[i] \in Link(i)
  BY <1>1 DEF OwnClass
<1>4. Becomes(t, "link", currMemPtr[i], call[t].next, call[t].cnt)
  <2>1. call' = [call EXCEPT ![t].pc = "link", ![t].ptr = currMemPtr[i]]
    BY <1>2 DEF ReadHead
  <2>2. "link" \in AllocPc \cup FreePc \cup {"idle", "wild"}
    BY DEF AllocPc
  <2> QED BY <1>1, <1>3, <2>1, <2>2, MovesWithPtr
<1>5. OwnClass'
  <2>1. CallInClass(t)'
    BY <1>2, <1>3, <1>4 DEF CallInClass, Becomes, AllocPc, FreePc
  <2>2. overlap' \in [Slot -> {"none", "frees", "any"}]
    BY <1>1 DEF OwnClass
  <2> QED BY <1>1, <1>4, <2>1, <2>2, OwnClassMove DEF Becomes
<1>6. \A j \in Slot \ {i} : ClassInv(j)'
  BY <1>1, <1>2, <1>4, OtherClasses DEF Becomes, pool
<1>7. ClassInv(i)'
  <2>1. ClassInv(i) /\ At(t, i, AllocPc) /\ At(t, i, AllocPc)' /\ At(t, i, AllocPc \cup {"wild"})'
    BY <1>1, <1>2, <1>4 DEF ThreadsInv, At, Becomes, AllocPc
  <2>2. Shares(i) => Leads(currMemPtr'[i], Unused(i), word') /\ AimsAt(t, i)'
    BY <1>1, <1>2, <1>4 DEF Shares, Heads, AimsAt, At, Becomes, pool
  <2>3. ASSUME Exact(i)
        PROVE  /\ Inside(t, i)' /\ Knows(t, i)'
               /\ NowWithin(t, i) /\ NowWithin(t, i)' =>
                    Chain(HeadNow(i)', CountNow(i)', Unused(i), word')
    <3>1. Inside(t, i)'
      BY <2>1 DEF Inside, At
    <3>2. Knows(t, i)'
      BY <1>1, <1>2, <1>4, <2>3 DEF Exact, Knows, At, Becomes, pool
    <3>3. ASSUME NowWithin(t, i), NowWithin(t, i)'
          PROVE  HeadNow(i)' = HeadNow(i) /\ CountNow(i)' = CountNow(i)
      BY <1>1, <1>4, <3>3 DEF NowWithin, HeadAhead, CountAhead, Becomes, pool
    <3> QED BY <1>1, <2>3, <3>1, <3>2, <3>3 DEF Exact, pool
  <2> QED BY <1>1, <1>4, <2>1, <2>2, <2>3, AllocGoesOn DEF Becomes, pool
<1> QED BY <1>5, <1>6, <1>7 DEF ThreadsInv

LEMMA ReadLinkKeeps ==
  ASSUME ThreadsInv, NEW t \in Thread, ReadLink(t)
  PROVE  ThreadsInv'
<1>1. /\ call[t].pc = "link" /\ UNCHANGED <<pool, mine, overlap>>
      /\ call \in [Thread -> Call] /\ OwnClass
  BY DEF ReadLink, ThreadsInv, OwnClass
<1>2. PICK i \in Slot : /\ i = call[t].slotId
                        /\ i = ChooseSlotBlockIdByAllocSize(call[t].size)
                        /\ call[t].size \in AllocSize
  BY <1>1, InItsClass DEF AllocPc
<1> DEFINE found == call[t].ptr \in Block
           pc    == IF found THEN "unlink" ELSE "wild"
           next  == IF found THEN word[call[t].ptr] ELSE call[t].next
<1>3. found => /\ call[t].ptr \in Blocks(i)
               /\ word[call[t].ptr] \in Link(i) /\ word[call[t].ptr] \in Word
  <2>1. found => call[t].ptr \in Blocks(i)
    BY <1>1, <1>2, ClassFacts DEF OwnClass, CallInClass
  <2> QED BY <1>1, <2>1 DEF OwnClass
<1>4. Becomes(t, pc, call[t].ptr, next, call[t].cnt)
  <2>1. CASE found
    <3>1. call' = [call EXCEPT ![t].pc = "unlink", ![t].next = word[call[t].ptr]]
      BY <2>1 DEF ReadLink
    <3>2. "unlink" \in AllocPc \cup FreePc \cup {"idle", "wild"}
      BY DEF AllocPc
    <3>3. Becomes(t, "unlink", call[t].ptr, word[call[t].ptr], call[t].cnt)
      BY <1>1, <1>3, <2>1, <3>1, <3>2, MovesWithNext
    <3> QED BY <2>1, <3>3
  <2>2. CASE ~ found
    <3>1. call' = [call EXCEPT ![t].pc = "wild"]
      BY <2>2 DEF ReadLink
    <3>2. "wild" \in AllocPc \cup FreePc \cup {"idle", "wild"}
      OBVIOUS
    <3>3. Becomes(t, "wild", call[t].ptr, call[t].next, call[t].cnt)
      BY <1>1, <3>1, <3>2, MovesOn
    <3> QED BY <2>2, <3>3
  <2> QED BY <2>1, <2>2
<1>5. OwnClass'
  <2>1. CallInClass(t)'
    BY <1>2, <1>3, <1>4 DEF CallInClass, Becomes, AllocPc, FreePc
  <2>2. overlap' \in [Slot -> {"none", "frees", "any"}]
    BY <1>1 DEF OwnClass
  <2> QED BY <1>1, <1>4, <2>1, <2>2, OwnClassMove DEF Becomes
<1>6. \A j \in Slot \ {i} : ClassInv(j)'
  BY <1>1, <1>2, <1>4, OtherClasses DEF Becomes, pool
<1>7. ClassInv(i)'
  <2>1. ClassInv(i) /\ At(t, i, AllocPc) /\ At(t, i, AllocPc \cup {"wild"})'
    BY <1>1, <1>2, <1>4 DEF ThreadsInv, At, Becomes, AllocPc
  <2>2. Shares(i) => Leads(currMemPtr'[i], Unused(i), word') /\ AimsAt(t, i)'
    BY <1>1, <1>2, <1>4 DEF Shares, Heads, AimsAt, At, Becomes, pool
  <2>3. ASSUME Shares(i), Exact(i)
        PROVE  /\ Inside(t, i)' /\ Knows(t, i)'
               /\ NowWithin(t, i) /\ NowWithin(t, i)' =>
                    Chain(HeadNow(i)', CountNow(i)', Unused(i), word')
    <3>0. found
      <4>1. currMemPtr[i] \in Unused(i)
        BY <1>1, <1>2, <2>3, HeadThere DEF At
      <4>2. call[t].ptr = currMemPtr[i]
        BY <1>1, <1>2, <2>3 DEF Shares, Heads, AimsAt, At
      <4> QED BY <4>1, <4>2, ClassFacts DEF Unused
    <3>1. Inside(t, i)'
      BY <1>2, <1>4, <3>0 DEF Inside, At, Becomes, AllocPc
    <3>2. Knows(t, i)'
      BY <1>1, <1>2, <1>4, <2>3, <3>0 DEF Exact, Knows, At, Becomes, pool
    <3>3. ASSUME NowWithin(t, i), NowWithin(t, i)'
          PROVE  HeadNow(i)' = HeadNow(i) /\ CountNow(i)' = CountNow(i)
      BY <1>1, <1>4, <3>0, <3>3 DEF NowWithin, HeadAhead, CountAhead, Becomes, pool
    <3> QED BY <1>1, <2>3, <3>1, <3>2, <3>3 DEF Exact, pool
  <2> QED BY <1>1, <1>4, <2>1, <2>2, <2>3, AllocGoesOn DEF Becomes, pool
<1> QED BY <1>5, <1>6, <1>7 DEF ThreadsInv

LEMMA WriteHeadKeeps ==
  ASSUME ThreadsInv, NEW t \in Thread, WriteHead(t)
  PROVE  ThreadsInv'
<1>1. /\ call[t].pc = "unlink" /\ call' = [call EXCEPT ![t].pc = "load"]
      /\ UNCHANGED <<freeBlockCnt, word, live, mine, overlap>>
      /\ call \in [Thread -> Call] /\ OwnClass
  BY DEF WriteHead, Step, ThreadsInv, OwnClass
<1>2. PICK i \in Slot : /\ i = call[t].slotId
                        /\ i = ChooseSlotBlockIdByAllocSize(call[t].size)
                        /\ call[t].size \in AllocSize
  BY <1>1, InItsClass DEF AllocPc
<1>3. Becomes(t, "load", call[t].ptr, call[t].next, call[t].cnt)
  <2>1. "load" \in AllocPc \cup FreePc \cup {"idle", "wild"}
    BY DEF AllocPc
  <2> QED BY <1>1, <2>1, MovesOn
<1>4. /\ call[t].next \in Link(i) /\ call[t].next \in Word
      /\ call[t].ptr \in Blocks(i)
  <2>1. call[t].next \in Link(i) /\ call[t].ptr \in Blocks(i)
    BY <1>1, <1>2 DEF OwnClass, CallInClass
  <2> QED BY <2>1, ClassFacts
<1>5. /\ currMemPtr' = [currMemPtr EXCEPT ![i] = call[t].next]
      /\ currMemPtr'[i] = call[t].next
      /\ currMemPtr' \in [Slot -> Word]
      /\ \A j \in Slot \ {i} : currMemPtr'[j] = currMemPtr[j]
  BY <1>1, <1>2, <1>4 DEF WriteHead, OwnClass
<1>6. OwnClass'
  <2>1. CallInClass(t)'
    BY <1>2, <1>3, <1>4 DEF CallInClass, Becomes, AllocPc, FreePc
  <2>2. \A j \in Slot : currMemPtr'[j] \in Link(j)
    BY <1>1, <1>4, <1>5 DEF OwnClass
  <2> QED BY <1>1, <1>3, <1>5, <2>1, <2>2, OwnClassStep DEF Becomes, OwnClass
<1>7. \A j \in Slot \ {i} : ClassInv(j)'
  BY <1>1, <1>2, <1>3, <1>5, OtherClasses DEF Becomes
<1>8. ClassInv(i)'
  <2>1. ClassInv(i) /\ At(t, i, AllocPc) /\ At(t, i, AllocPc)' /\ At(t, i, AllocPc \cup {"wild"})'
    BY <1>1, <1>2, <1>3 DEF ThreadsInv, At, Becomes, AllocPc
  <2>2. ASSUME Shares(i)
        PROVE  /\ call[t].ptr = currMemPtr[i] /\ call[t].next = word[call[t].ptr]
               /\ Leads(currMemPtr'[i], Unused(i), word') /\ AimsAt(t, i)'
    <3>1. /\ call[t].ptr = currMemPtr[i] /\ call[t].next = word[call[t].ptr]
          /\ Leads(currMemPtr[i], Unused(i), word)
      BY <1>1, <1>2, <2>2 DEF Shares, Heads, AimsAt, At
    <3>2. call[t].ptr \in Unused(i)
          /\ Leads(call[t].next, Unused(i) \ {call[t].ptr}, word)
      <4>1. currMemPtr[i] # NULL
        BY <1>4, <3>1, ClassFacts
      <4>2. /\ currMemPtr[i] \in Unused(i)
            /\ Leads(word[currMemPtr[i]], Unused(i) \ {currMemPtr[i]}, word)
        BY <3>1, <4>1, LeadsPop
      <4> QED BY <3>1, <4>2
    <3>3. Leads(call[t].next, Unused(i), word)
      BY <3>2, LeadsKept
    <3>4. Unused(i)' = Unused(i)
      BY <1>1 DEF Unused
    <3>5. AimsAt(t, i)'
      BY <1>1, <1>3, <1>5, <3>2, <3>4 DEF AimsAt, At, Becomes
    <3> QED BY <1>1, <1>5, <3>1, <3>3, <3>5
  <2>3. ASSUME Shares(i), Exact(i)
        PROVE  /\ Inside(t, i)' /\ Knows(t, i)'
               /\ NowWithin(t, i) /\ NowWithin(t, i)' =>
                    Chain(HeadNow(i)', CountNow(i)', Unused(i), word')
    <3>1. Inside(t, i)'
      BY <2>1 DEF Inside, At
    <3>2. Knows(t, i)'
      BY <1>1, <1>2, <1>3, <1>5, <2>2, <2>3 DEF Exact, Knows, At, Becomes
    <3>3. ASSUME NowWithin(t, i), NowWithin(t, i)'
          PROVE  HeadNow(i)' = HeadNow(i) /\ CountNow(i)' = CountNow(i)
      BY <1>1, <1>3, <2>2, <2>3, <3>3 DEF NowWithin, HeadAhead, CountAhead, Becomes
    <3> QED BY <1>1, <2>3, <3>1, <3>2, <3>3 DEF Exact
  <2> QED BY <1>1, <1>3, <2>1, <2>2, <2>3, AllocGoesOn DEF Becomes
<1> QED BY <1>6, <1>7, <1>8 DEF ThreadsInv

LEMMA LoadCountKeeps ==
  ASSUME ThreadsInv, NEW t \in Thread, LoadCount(t)
  PROVE  ThreadsInv'
<1>1. /\ call[t].pc = "load" /\ UNCHANGED <<pool, mine, overlap>>
      /\ call \in [Thread -> Call] /\ OwnClass
  BY DEF LoadCount, ThreadsInv, OwnClass
<1>2. PICK i \in Slot : /\ i = call[t].slotId
                        /\ i = ChooseSlotBlockIdByAllocSize(call[t].size)
                        /\ call[t].size \in AllocSize
                        /\ call[t].ptr \in Blocks(i)
  BY <1>1, InItsClass DEF AllocPc, OwnClass, CallInClass
<1>3. Becomes(t, "store", call[t].ptr, call[t].next, freeBlockCnt[i])
  <2>1. call' = [call EXCEPT ![t].pc = "store", ![t].cnt = freeBlockCnt[i]]
    BY <1>2 DEF LoadCount
  <2>2. "store" \in AllocPc \cup FreePc \cup {"idle", "wild"}
    BY DEF AllocPc
  <2>3. freeBlockCnt[i] \in 0 .. UINT32 - 1
    BY <1>1 DEF OwnClass
  <2> QED BY <1>1, <2>1, <2>2, <2>3, MovesWithCount
<1>4. OwnClass'
  <2>1. CallInClass(t)'
    BY <1>2, <1>3 DEF CallInClass, Becomes, AllocPc, FreePc
  <2>2. overlap' \in [Slot -> {"none", "frees", "any"}]
    BY <1>1 DEF OwnClass
  <2> QED BY <1>1, <1>3, <2>1, <2>2, OwnClassMove DEF Becomes
<1>5. \A j \in Slot \ {i} : ClassInv(j)'
  BY <1>1, <1>2, <1>3, OtherClasses DEF Becomes, pool
<1>6. ClassInv(i)'
  <2>1. ClassInv(i) /\ At(t, i, AllocPc) /\ At(t, i, AllocPc)' /\ At(t, i, AllocPc \cup {"wild"})'
    BY <1>1, <1>2, <1>3 DEF ThreadsInv, At, Becomes, AllocPc
  <2>2. ASSUME Shares(i) PROVE Leads(currMemPtr'[i], Unused(i), word') /\ AimsAt(t, i)'
    <3>1. Unused(i)' = Unused(i)
      BY <1>1 DEF Unused, pool
    <3> QED BY <1>1, <1>2, <1>3, <2>2, <3>1 DEF Shares, Heads, AimsAt, At, Becomes, pool
  <2>3. ASSUME Exact(i)
        PROVE  /\ Inside(t, i)' /\ Knows(t, i)'
               /\ NowWithin(t, i) /\ NowWithin(t, i)' =>
                    Chain(HeadNow(i)', CountNow(i)', Unused(i), word')
    <3>1. Inside(t, i)'
      BY <2>1 DEF Inside, At
    <3>2. Knows(t, i)'
      BY <1>1, <1>2, <1>3, <2>3 DEF Exact, Knows, At, Becomes, pool
    <3>3. ASSUME NowWithin(t, i), NowWithin(t, i)'
          PROVE  HeadNow(i)' = HeadNow(i) /\ CountNow(i)' = CountNow(i)
      BY <1>1, <1>3, <3>3 DEF NowWithin, HeadAhead, CountAhead, Becomes, pool
    <3> QED BY <1>1, <2>3, <3>1, <3>2, <3>3 DEF Exact, pool
  <2> QED BY <1>1, <1>3, <2>1, <2>2, <2>3, AllocGoesOn DEF Becomes, pool
<1> QED BY <1>4, <1>5, <1>6 DEF ThreadsInv

\* A count in its range, one lower and one higher.
LEMMA CountArith ==
  ASSUME NEW c \in 0 .. UINT32 - 1
  PROVE  /\ c # 0 => (c + UINT32 - 1) % UINT32 = c - 1
         /\ c + 1 < UINT32 => (c + 1) % UINT32 = c + 1
         /\ (c + UINT32 - 1) % UINT32 \in 0 .. UINT32 - 1
         /\ (c + 1) % UINT32 \in 0 .. UINT32 - 1
<1>1. UINT32 \in Nat \ {0} /\ c \in Nat
  BY ThreadsAssumption
<1>2. c + UINT32 - 1 \in Nat /\ c + 1 \in Nat
  BY <1>1
<1>3. c # 0 => (c + UINT32 - 1) % UINT32 = c - 1
  BY <1>1
<1>4. c + 1 < UINT32 => (c + 1) % UINT32 = c + 1
  BY <1>1
<1>5. \A a \in Nat : a % UINT32 \in 0 .. UINT32 - 1
  BY <1>1
<1> QED BY <1>2, <1>3, <1>4, <1>5

LEMMA StoreCountKeeps ==
  ASSUME ThreadsInv, NEW t \in Thread, StoreCount(t)
  PROVE  ThreadsInv'
<1>1. /\ call[t].pc = "store" /\ call' = [call EXCEPT ![t].pc = "clear"]
      /\ UNCHANGED <<currMemPtr, word, live, mine, overlap>>
      /\ call \in [Thread -> Call] /\ OwnClass
  BY DEF StoreCount, Step, ThreadsInv, OwnClass
<1>2. PICK i \in Slot : /\ i = call[t].slotId
                        /\ i = ChooseSlotBlockIdByAllocSize(call[t].size)
                        /\ call[t].size \in AllocSize
                        /\ call[t].ptr \in Blocks(i)
  BY <1>1, InItsClass DEF AllocPc, OwnClass, CallInClass
<1>3. Becomes(t, "clear", call[t].ptr, call[t].next, call[t].cnt)
  <2>1. "clear" \in AllocPc \cup FreePc \cup {"idle", "wild"}
    BY DEF AllocPc
  <2> QED BY <1>1, <2>1, MovesOn
<1>4. PICK c \in 0 .. UINT32 - 1 : c = (call[t].cnt + UINT32 - 1) % UINT32
  <2>1. call[t].cnt \in 0 .. UINT32 - 1
    BY <1>1, CallFields
  <2> QED BY <2>1, CountArith
<1>5. /\ freeBlockCnt' = [freeBlockCnt EXCEPT ![i] = c]
      /\ freeBlockCnt'[i] = c
      /\ freeBlockCnt' \in [Slot -> 0 .. UINT32 - 1]
      /\ \A j \in Slot \ {i} : freeBlockCnt'[j] = freeBlockCnt[j]
  BY <1>1, <1>2, <1>4 DEF StoreCount, OwnClass
<1>6. OwnClass'
  <2>1. CallInClass(t)'
    BY <1>2, <1>3 DEF CallInClass, Becomes, AllocPc, FreePc
  <2> QED BY <1>1, <1>3, <1>5, <2>1, OwnClassStep DEF Becomes, OwnClass
<1>7. \A j \in Slot \ {i} : ClassInv(j)'
  BY <1>1, <1>2, <1>3, <1>5, OtherClasses DEF Becomes
<1>8. ClassInv(i)'
  <2>1. ClassInv(i) /\ At(t, i, AllocPc) /\ At(t, i, AllocPc)' /\ At(t, i, AllocPc \cup {"wild"})'
    BY <1>1, <1>2, <1>3 DEF ThreadsInv, At, Becomes, AllocPc
  <2>2. ASSUME Shares(i) PROVE Leads(currMemPtr'[i], Unused(i), word') /\ AimsAt(t, i)'
    <3>1. Unused(i)' = Unused(i)
      BY <1>1 DEF Unused
    <3> QED BY <1>1, <1>2, <1>3, <2>2, <3>1 DEF Shares, Heads, AimsAt, At, Becomes
  <2>3. ASSUME Exact(i)
        PROVE  /\ Inside(t, i)' /\ Knows(t, i)'
               /\ NowWithin(t, i) /\ NowWithin(t, i)' =>
                    Chain(HeadNow(i)', CountNow(i)', Unused(i), word')
    <3>0. /\ freeBlockCnt[i] \in 1 .. UINT32 - 1
          /\ freeBlockCnt[i] = call[t].cnt
          /\ currMemPtr[i] = word[call[t].ptr]
      <4>1. Knows(t, i) /\ freeBlockCnt[i] \in 0 .. UINT32 - 1
        BY <1>1, <2>3 DEF Exact, OwnClass
      <4> QED BY <1>1, <1>2, <4>1 DEF Knows, At
    <3>1. c = freeBlockCnt[i] - 1 /\ (c + 1) % UINT32 = freeBlockCnt[i] /\ c + 1 < UINT32
      <4>1. PICK d \in 0 .. UINT32 - 1 : d = freeBlockCnt[i] /\ d # 0 /\ UINT32 \in Nat
        BY <3>0, ThreadsAssumption
      <4>2. c = d - 1
        BY <1>4, <3>0, <4>1, CountArith
      <4>3. (c + 1) % UINT32 = c + 1
        BY <4>1, <4>2, CountArith
      <4> QED BY <4>1, <4>2, <4>3
    <3>2. Inside(t, i)'
      BY <2>1 DEF Inside, At
    <3>3. Knows(t, i)'
      BY <1>1, <1>2, <1>3, <1>5, <3>0, <3>1 DEF Knows, At, Becomes
    <3>4. ASSUME NowWithin(t, i), NowWithin(t, i)'
          PROVE  HeadNow(i)' = HeadNow(i) /\ CountNow(i)' = CountNow(i)
      BY <1>1, <1>3, <1>5, <3>1, <3>4 DEF NowWithin, HeadAhead, CountAhead, Becomes
    <3> QED BY <1>1, <2>3, <3>2, <3>3, <3>4 DEF Exact
  <2> QED BY <1>1, <1>3, <2>1, <2>2, <2>3, AllocGoesOn DEF Becomes
<1> QED BY <1>6, <1>7, <1>8 DEF ThreadsInv

\* A class that nobody is inside of any more.
LEMMA NobodyInside ==
  ASSUME NEW i \in Slot, \A u \in Thread : ~ Inside(u, i)'
  PROVE  /\ OneCall(i)' /\ Turns(i)' /\ Leavers(i)'
         /\ \A u \in Thread : Knows(u, i)' /\ AimsAt(u, i)'
         /\ HeadNow(i)' = currMemPtr'[i] /\ CountNow(i)' = freeBlockCnt'[i]
<1>1. \A u \in Thread : \A pcs \in SUBSET (AllocPc \cup FreePc) : ~ At(u, i, pcs)'
  BY DEF Inside, At
<1>2. \A u \in Thread : Knows(u, i)'
  BY <1>1 DEF Knows, AllocPc, FreePc
<1>3. \A u \in Thread : AimsAt(u, i)'
  BY <1>1 DEF AimsAt, AllocPc, FreePc
<1>4. \A u \in Thread : ~ At(u, i, Leaving)'
  BY <1>1 DEF Leaving, AllocPc, FreePc
<1>5. HeadNow(i)' = currMemPtr'[i] /\ CountNow(i)' = freeBlockCnt'[i]
  BY NowKnownNext DEF NowIsKnown
<1> QED BY <1>2, <1>3, <1>4, <1>5 DEF OneCall, Turns, Leavers

\* The one call inside a class ends.
LEMMA LastOneEnds ==
  ASSUME NEW i \in Slot, NEW t \in Thread, Shares(i), Inside(t, i),
         call[t].pc \in AllocPc \/ OneCall(i),
         \A u \in Thread \ {t} : call'[u] = call[u], call'[t] = NoCall
  PROVE  \A u \in Thread : ~ Inside(u, i)'
<1>1. \A u \in Thread \ {t} : ~ Inside(u, i)
  BY DEF Shares, Turns, OneCall
<1> QED BY <1>1 DEF Inside, At, NoCall, AllocPc, FreePc

LEMMA ClearKeeps ==
  ASSUME ThreadsInv, NEW t \in Thread, Clear(t)
  PROVE  ThreadsInv'
<1>1. /\ call[t].pc = "clear" /\ UNCHANGED <<currMemPtr, freeBlockCnt, overlap>>
      /\ call \in [Thread -> Call] /\ OwnClass
  BY DEF Clear, ThreadsInv, OwnClass
<1>2. PICK i \in Slot, p \in Block, size \in AllocSize :
        /\ i = call[t].slotId /\ p = call[t].ptr /\ size = call[t].size
        /\ i = ChooseSlotBlockIdByAllocSize(size)
        /\ p \in Blocks(i)
  BY <1>1, InItsClass, ClassFacts DEF AllocPc, OwnClass, CallInClass
<1>3. /\ word' = [b \in Block |-> IF b = p THEN NULL ELSE word[b]]
      /\ live' = [live EXCEPT ![p] = size]
      /\ mine' = [mine EXCEPT ![t] = @ \cup {<<p, size>>}]
      /\ call' = [call EXCEPT ![t] = NoCall]
  BY <1>2, MemsetClearsOne DEF Clear, Takes
<1>4. Ends(t)
  BY <1>1, <1>3, NoCallEnds
<1>5. /\ p \in Block /\ p \in Addr /\ p \notin HeapAddr /\ size # NotLive
      /\ \A j \in Slot : p \in Blocks(j) => j = i
  BY <1>2, ClassFacts, HeapOutsidePool, PoolAssumption DEF NotLive
<1>6. /\ live' \in [Addr -> AllocSize \cup {NotLive}]
      /\ live'[p] = size
      /\ \A a \in Addr \ {p} : live'[a] = live[a]
  BY <1>1, <1>3, <1>5 DEF OwnClass
<1>7. /\ mine' \in [Thread -> SUBSET (Addr \X AllocSize)]
      /\ mine'[t] = mine[t] \cup {<<p, size>>}
      /\ \A u \in Thread \ {t} : mine'[u] = mine[u]
  BY <1>1, <1>3, <1>5 DEF OwnClass
<1>8. \A u \in Thread : \A held \in mine'[u] :
        held \in mine[u] \/ (u = t /\ held = <<p, size>> /\ held[1] = p /\ held[2] = size)
  BY <1>7
<1>9. OwnClass'
  <2>1. ASSUME NEW u \in Thread PROVE CallInClass(u)'
    <3>1. CASE u = t
      BY <1>4, <3>1, NoCallInClass DEF Ends
    <3>2. CASE u # t
      <4>1. call'[u] = call[u]
        BY <1>4, <3>2 DEF Ends
      <4> QED BY <1>1, <4>1 DEF OwnClass, CallInClass
    <3> QED BY <3>1, <3>2
  <2>2. ASSUME NEW u \in Thread PROVE HeldInClass(u)'
    BY <1>1, <1>2, <1>5, <1>8 DEF OwnClass, HeldInClass
  <2>3. ASSUME NEW u \in Thread PROVE HeapHeld(u)'
    <3> SUFFICES ASSUME NEW held \in mine'[u], held[1] \in HeapAddr
                 PROVE  /\ live'[held[1]] = held[2]
                        /\ \A v \in Thread : \A other \in mine'[v] :
                             other[1] = held[1] => v = u
      BY DEF HeapHeld
    <3>1. held \in mine[u] /\ held[1] # p /\ held[1] \in Addr
      BY <1>5, <1>8 DEF Addr
    <3>2. \A v \in Thread : \A other \in mine'[v] : other[1] = held[1] => other \in mine[v]
      BY <1>8, <3>1
    <3> QED BY <1>1, <1>6, <3>1, <3>2 DEF OwnClass, HeapHeld
  <2>4. word' \in [Block -> Word]
    BY <1>1, <1>3 DEF OwnClass, Word
  <2>5. \A j \in Slot : \A b \in Blocks(j) : word'[b] \in Link(j)
    BY <1>1, <1>3, ClassFacts DEF OwnClass
  <2> QED BY <1>1, <1>4, <1>6, <1>7, <2>1, <2>2, <2>3, <2>4, <2>5 DEF OwnClass, Ends
<1>10. \A j \in Slot \ {i} : ClassInv(j)'
  <2>1. call'[t].slotId = INVALID_SLOT_INDEX
    BY <1>4 DEF Ends, NoCall
  <2>2. ASSUME NEW j \in Slot \ {i}
        PROVE  /\ \A b \in Blocks(j) : live'[b] = live[b] /\ word'[b] = word[b]
               /\ \A u \in Thread : \A held \in mine'[u] :
                    held[1] \in Blocks(j) => held \in mine[u]
    <3>1. \A b \in Blocks(j) : b # p /\ b \in Block /\ b \in Addr
      BY <1>5, ClassFacts
    <3> QED BY <1>3, <1>6, <1>8, <3>1
  <2> QED BY <1>1, <1>2, <1>4, <2>1, <2>2, OtherClasses DEF Ends
<1>11. ClassInv(i)'
  <2>1. Inside(t, i) /\ call[t].pc \in AllocPc /\ At(t, i, {"load", "store", "clear"})
    BY <1>1, <1>2 DEF Inside, At, AllocPc
  <2>2. ASSUME Shares(i)
        PROVE  /\ \A u \in Thread : ~ Inside(u, i)'
               /\ p \in Unused(i) /\ Leads(currMemPtr[i], Unused(i) \ {p}, word)
    BY <1>2, <1>4, <2>1, <2>2, LastOneEnds DEF Ends, Shares, Heads, AimsAt
  <2>3. /\ Unused(i)' = Unused(i) \ {p}
        /\ \A b \in Unused(i) \ {p} : word'[b] = word[b]
    <3>1. \A b \in Blocks(i) : b \in Block /\ b \in Addr
      BY ClassFacts
    <3> QED BY <1>3, <1>5, <1>6, <3>1 DEF Unused
  <2>4. ASSUME Shares(i) PROVE Shares(i)'
    <3>1. Turns(i)' /\ Leavers(i)' /\ \A u \in Thread : AimsAt(u, i)'
      BY <2>2, <2>4, NobodyInside
    <3>2. Leads(currMemPtr'[i], Unused(i)', word')
      <4> DEFINE U == Unused(i) \ {p}
      <4>1. Leads(currMemPtr[i], U, word) /\ U \subseteq U /\ \A b \in U : word'[b] = word[b]
        BY <2>2, <2>3, <2>4
      <4> HIDE DEF U
      <4>2. Leads(currMemPtr[i], U, word')
        BY <4>1, LeadsKept
      <4> QED BY <1>1, <2>3, <4>2 DEF U
    <3>3. \A u \in Thread : \A held \in mine[u] : held[1] \in Blocks(i) => held[1] # p
      <4>1. live[p] = NotLive
        BY <2>2, <2>4 DEF Unused
      <4>2. \A u \in Thread : \A held \in mine[u] : held[2] \in AllocSize
        BY <1>1 DEF OwnClass
      <4> QED BY <2>4, <4>1, <4>2, PoolAssumption DEF Shares, Holders, NotLive
    <3>4. Holders(i)'
      <4>1. ASSUME NEW u \in Thread, NEW held \in mine'[u], held[1] \in Blocks(i)
            PROVE  live'[held[1]] = held[2]
        <5>1. held[1] \in Addr
          BY ClassFacts, <4>1
        <5> QED BY <1>6, <1>8, <2>4, <3>3, <4>1, <5>1 DEF Shares, Holders
      <4>2. ASSUME NEW u \in Thread, NEW v \in Thread, NEW held \in mine'[u],
                   NEW other \in mine'[v], held[1] \in Blocks(i), held[1] = other[1]
            PROVE  u = v
        BY <1>8, <2>4, <3>3, <4>2 DEF Shares, Holders
      <4> QED BY <4>1, <4>2 DEF Holders
    <3> QED BY <3>1, <3>2, <3>4 DEF Shares, Heads
  <2>5. ASSUME Shares(i), Exact(i) PROVE Exact(i)'
    <3>1. /\ OneCall(i)' /\ \A u \in Thread : Knows(u, i)'
          /\ HeadNow(i)' = currMemPtr[i] /\ CountNow(i)' = freeBlockCnt[i]
      BY <1>1, <2>2, <2>5, NobodyInside
    <3>2. /\ freeBlockCnt[i] + 1 < UINT32 /\ currMemPtr[i] = word[p]
          /\ freeBlockCnt[i] \in 0 .. UINT32 - 1
      BY <1>1, <1>2, <2>5 DEF Exact, Knows, At, OwnClass
    <3>3. NowWithin(t, i)
      BY <2>1, <2>5, NowKnown DEF NowIsKnown, Exact
    <3>4. PICK n \in Nat : n = freeBlockCnt[i]
      BY <3>2
    <3>5. HeadNow(i) = p /\ CountNow(i) = n + 1
      <4>1. (n + 1) % UINT32 = n + 1
        BY <3>2, <3>4, CountArith
      <4> QED BY <1>1, <1>2, <3>3, <3>4, <4>1 DEF NowWithin, HeadAhead, CountAhead
    <3>6. Chain(p, n + 1, Unused(i), word)
      BY <2>5, <3>5 DEF Exact
    <3>7. Chain(word[p], n, Unused(i) \ {p}, word)
      <4>1. n + 1 \in Nat /\ n + 1 # 0 /\ (n + 1) - 1 = n
        OBVIOUS
      <4>2. Chain(word[p], (n + 1) - 1, Unused(i) \ {p}, word)
        BY <3>6, <4>1, ChainPop
      <4> QED BY <4>1, <4>2
    <3>8. Chain(word[p], n, Unused(i) \ {p}, word')
      BY <2>3, <3>7, ChainKept
    <3> QED BY <2>3, <3>1, <3>2, <3>4, <3>8 DEF Exact
  <2> QED BY <1>1, <2>4, <2>5, <1>10 DEF ClassInv, Calm, ThreadsInv
<1> QED BY <1>9, <1>10, <1>11 DEF ThreadsInv

\* A call that found its class without a block leaves it to the C library.
LEMMA LeavesEmptyClass ==
  ASSUME ThreadsInv, NEW i \in Slot, NEW t \in Thread, At(t, i, {"malloc"}), Ends(t),
         UNCHANGED <<currMemPtr, freeBlockCnt, word, overlap>>,
         \A b \in Blocks(i) : live'[b] = live[b],
         \A u \in Thread : \A held \in mine'[u] :
           held[1] \in Blocks(i) => held \in mine[u]
  PROVE  ClassInv(i)'
<1>1. Inside(t, i) /\ call[t].pc = "malloc" /\ call[t].pc \in AllocPc /\ ClassInv(i)
  BY DEF Inside, At, AllocPc, ThreadsInv
<1>2. Unused(i)' = Unused(i)
  BY DEF Unused
<1>3. Shares(i) => \A u \in Thread : ~ Inside(u, i)'
  BY <1>1, LastOneEnds DEF Ends
<1>4. ASSUME Shares(i) PROVE Shares(i)'
  <2>1. Turns(i)' /\ Leavers(i)' /\ \A u \in Thread : AimsAt(u, i)'
    BY <1>3, <1>4, NobodyInside
  <2>2. Holders(i)'
    BY <1>4 DEF Shares, Holders
  <2> QED BY <1>2, <1>4, <2>1, <2>2 DEF Shares, Heads
<1>5. ASSUME Shares(i), Exact(i) PROVE Exact(i)'
  <2>1. /\ OneCall(i)' /\ \A u \in Thread : Knows(u, i)'
        /\ HeadNow(i)' = currMemPtr[i] /\ CountNow(i)' = freeBlockCnt[i]
    BY <1>3, <1>5, NobodyInside
  <2>2. HeadNow(i) = currMemPtr[i] /\ CountNow(i) = freeBlockCnt[i]
    BY <1>1, <1>5, NowKnown DEF NowIsKnown, Exact, NowWithin, HeadAhead, CountAhead
  <2> QED BY <1>2, <1>5, <2>1, <2>2 DEF Exact
<1> QED BY <1>1, <1>4, <1>5 DEF ClassInv, Calm

\* malloc's answer, of whichever kind, leaves the classes as they are.
LEMMA MallocLeavesClasses ==
  ASSUME ThreadsInv, NEW t \in Thread, call[t].pc = "malloc", Ends(t),
         UNCHANGED <<currMemPtr, freeBlockCnt, word, overlap>>,
         \A b \in Block : live'[b] = live[b],
         \A u \in Thread : \A held \in mine'[u] : held[1] \in Block => held \in mine[u]
  PROVE  \A i \in Slot : ClassInv(i)'
<1> TAKE i \in Slot
<1>1. Blocks(i) \subseteq Block
  BY ClassFacts
<1>2. CASE call[t].slotId = i
  BY <1>1, <1>2, LeavesEmptyClass DEF At
<1>3. CASE call[t].slotId # i
  <2>1. ~ Inside(t, i) /\ ~ Inside(t, i)'
    BY <1>3 DEF Inside, At, Ends, NoCall, AllocPc, FreePc
  <2> QED BY <1>1, <2>1, ElsewhereKept DEF ThreadsInv, Ends
<1> QED BY <1>2, <1>3

LEMMA MallocFailsKeeps ==
  ASSUME ThreadsInv, NEW t \in Thread, MallocFails(t)
  PROVE  ThreadsInv'
<1>1. /\ call[t].pc = "malloc" /\ UNCHANGED <<pool, mine, overlap>>
      /\ call \in [Thread -> Call] /\ OwnClass
      /\ call' = [call EXCEPT ![t] = NoCall]
  BY DEF MallocFails, ThreadsInv, OwnClass
<1>2. Ends(t)
  BY <1>1, NoCallEnds
<1>3. OwnClass'
  <2>1. CallInClass(t)'
    BY <1>2, NoCallInClass DEF Ends
  <2>2. overlap' \in [Slot -> {"none", "frees", "any"}]
    BY <1>1 DEF OwnClass
  <2> QED BY <1>1, <1>2, <2>1, <2>2, OwnClassMove DEF Ends
<1>4. \A i \in Slot : ClassInv(i)'
  BY <1>1, <1>2, MallocLeavesClasses DEF pool
<1> QED BY <1>3, <1>4 DEF ThreadsInv

LEMMA MallocKeeps ==
  ASSUME ThreadsInv, NEW t \in Thread, Malloc(t)
  PROVE  ThreadsInv'
<1>1. /\ call[t].pc = "malloc" /\ UNCHANGED <<currMemPtr, freeBlockCnt, word, overlap>>
      /\ call \in [Thread -> Call] /\ OwnClass
  BY DEF Malloc, ThreadsInv, OwnClass
<1>2. PICK h \in HeapAddr : live[h] = NotLive /\ Takes(t, h)
  BY DEF Malloc
<1>3. PICK size \in AllocSize : size = call[t].size
  BY <1>1 DEF OwnClass, CallInClass, AllocPc
<1>4. /\ live' = [live EXCEPT ![h] = size]
      /\ mine' = [mine EXCEPT ![t] = @ \cup {<<h, size>>}]
      /\ call' = [call EXCEPT ![t] = NoCall]
  BY <1>2, <1>3 DEF Takes
<1>5. Ends(t)
  BY <1>1, <1>4, NoCallEnds
<1>6. h \in Addr /\ h \notin Block /\ size # NotLive
  BY <1>3, HeapOutsidePool, PoolAssumption DEF Addr, NotLive
<1>7. /\ live' \in [Addr -> AllocSize \cup {NotLive}]
      /\ live'[h] = size
      /\ \A a \in Addr \ {h} : live'[a] = live[a]
  BY <1>1, <1>4, <1>6 DEF OwnClass
<1>8. /\ mine' \in [Thread -> SUBSET (Addr \X AllocSize)]
      /\ mine'[t] = mine[t] \cup {<<h, size>>}
      /\ \A u \in Thread \ {t} : mine'[u] = mine[u]
  BY <1>1, <1>4, <1>6 DEF OwnClass
<1>9. \A u \in Thread : \A held \in mine'[u] :
        held \in mine[u] \/ (u = t /\ held = <<h, size>> /\ held[1] = h /\ held[2] = size)
  BY <1>8
<1>10. \A u \in Thread : \A held \in mine[u] : held[1] # h
  <2>1. \A u \in Thread : \A held \in mine[u] : held[2] \in AllocSize /\ held[2] # NotLive
    BY <1>1, PoolAssumption DEF OwnClass, NotLive
  <2> QED BY <1>1, <1>2, <2>1 DEF OwnClass, HeapHeld
<1>11. OwnClass'
  <2>1. ASSUME NEW u \in Thread PROVE CallInClass(u)'
    <3>1. CASE u = t
      BY <1>5, <3>1, NoCallInClass DEF Ends
    <3>2. CASE u # t
      <4>1. call'[u] = call[u]
        BY <1>5, <3>2 DEF Ends
      <4> QED BY <1>1, <4>1 DEF OwnClass, CallInClass
    <3> QED BY <3>1, <3>2
  <2>2. ASSUME NEW u \in Thread PROVE HeldInClass(u)'
    BY <1>1, <1>6, <1>9, ClassFacts DEF OwnClass, HeldInClass
  <2>3. ASSUME NEW u \in Thread PROVE HeapHeld(u)'
    <3> SUFFICES ASSUME NEW held \in mine'[u], held[1] \in HeapAddr
                 PROVE  /\ live'[held[1]] = held[2]
                        /\ \A v \in Thread : \A other \in mine'[v] :
                             other[1] = held[1] => v = u
      BY DEF HeapHeld
    <3>1. CASE held \in mine[u]
      <4>1. held[1] # h /\ held[1] \in Addr
        BY <1>10, <3>1 DEF Addr
      <4>2. \A v \in Thread : \A other \in mine'[v] : other[1] = held[1] => other \in mine[v]
        BY <1>9, <4>1
      <4> QED BY <1>1, <1>7, <3>1, <4>1, <4>2 DEF OwnClass, HeapHeld
    <3>2. CASE held \notin mine[u]
      <4>1. u = t /\ held[1] = h /\ held[2] = size
        BY <1>9, <3>2
      <4>2. \A v \in Thread : \A other \in mine'[v] : other[1] = h => v = t
        BY <1>9, <1>10
      <4> QED BY <1>7, <4>1, <4>2
    <3> QED BY <3>1, <3>2
  <2> QED BY <1>1, <1>5, <1>7, <1>8, <2>1, <2>2, <2>3 DEF OwnClass, Ends
<1>12. \A i \in Slot : ClassInv(i)'
  <2>1. \A b \in Block : live'[b] = live[b]
    BY <1>6, <1>7 DEF Addr
  <2>2. \A u \in Thread : \A held \in mine'[u] : held[1] \in Block => held \in mine[u]
    BY <1>6, <1>9
  <2> QED BY <1>1, <1>5, <2>1, <2>2, MallocLeavesClasses
<1> QED BY <1>11, <1>12 DEF ThreadsInv

LEMMA AllocBeginKeeps ==
  ASSUME ThreadsInv, NEW t \in Thread, NEW size \in AllocSize, KVMemAllocBegin(t, size)
  PROVE  ThreadsInv'
<1> DEFINE slotId == ChooseSlotBlockIdByAllocSize(size)
           pc == IF slotId = INVALID_SLOT_INDEX THEN "malloc" ELSE "count"
<1>1. /\ call[t].pc = "idle" /\ UNCHANGED <<pool, mine>>
      /\ call \in [Thread -> Call] /\ OwnClass
  BY DEF KVMemAllocBegin, ThreadsInv, OwnClass
<1>2. Starts(t, pc, size, slotId, NULL)
  <2>1. call' = [call EXCEPT ![t] =
                   [NoCall EXCEPT !.pc = pc, !.size = size, !.slotId = slotId]]
    BY DEF KVMemAllocBegin
  <2>2. pc \in AllocPc
    BY DEF AllocPc
  <2>3. slotId \in Slot \cup {INVALID_SLOT_INDEX}
    BY ChosenSlotFits, PoolAssumption
  <2> HIDE DEF pc, slotId
  <2> QED BY <1>1, <2>1, <2>2, <2>3, AllocStarts
<1>3. overlap' \in [Slot -> {"none", "frees", "any"}]
  BY <1>1, EntersType DEF KVMemAllocBegin, OwnClass
<1>4. CallInClass(t)'
  <2>1. slotId # INVALID_SLOT_INDEX => slotId \in Slot
    BY ChosenSlotFits, PoolAssumption
  <2>2. pc \in {"malloc", "count"} /\ (pc = "count" => slotId \in Slot)
    BY <2>1
  <2> HIDE DEF pc
  <2> QED BY <1>2, <2>2 DEF CallInClass, Starts, AllocPc, FreePc
<1>5. OwnClass'
  BY <1>1, <1>2, <1>3, <1>4, OwnClassMove DEF Starts
<1>6. ASSUME NEW j \in Slot, j # slotId PROVE ClassInv(j)'
  <2>1. ~ Inside(t, j) /\ ~ Inside(t, j)'
    <3> HIDE DEF pc, slotId
    <3> QED BY <1>1, <1>2, <1>6 DEF Inside, At, Starts, AllocPc, FreePc
  <2>2. overlap'[j] = overlap[j]
    BY <1>1, <1>6 DEF KVMemAllocBegin, Enters, OwnClass
  <2> QED BY <1>1, <1>2, <2>1, <2>2, ElsewhereKept DEF ThreadsInv, Starts, pool
<1>7. ASSUME slotId \in Slot PROVE ClassInv(slotId)'
  <2>1. PICK i \in Slot : i = slotId
    BY <1>7
  <2>2. i # INVALID_SLOT_INDEX /\ pc = "count"
    BY <2>1, ClassFacts
  <2> HIDE DEF pc, slotId
  <2>3. Inside(t, i)' /\ call'[t].pc = "count"
    BY <1>2, <2>1, <2>2 DEF Starts, Inside, At, AllocPc
  <2>4. ASSUME overlap'[i] # "any"
        PROVE  (\A u \in Thread : ~ Inside(u, i)) /\ overlap'[i] = overlap[i]
    <3>1. Enters(i, FALSE)
      BY <2>1, <2>2 DEF KVMemAllocBegin, slotId
    <3>2. InSlot(i, AllocPc \cup FreePc) = {} /\ overlap'[i] = overlap[i]
      BY <1>1, <2>4, <3>1 DEF Enters, OwnClass
    <3> QED BY <3>2 DEF InSlot, Inside, At
  <2>5. ClassInv(i) /\ Unused(i)' = Unused(i)
    BY <1>1 DEF ThreadsInv, Unused, pool
  <2>6. ASSUME overlap'[i] # "any" PROVE Shares(i)'
    <3>1. Shares(i)
      BY <2>4, <2>5, <2>6 DEF ClassInv
    <3>2. Turns(i)' /\ \A u \in Thread \ {t} : AimsAt(u, i)' /\ ~ At(u, i, Leaving)'
      BY <1>2, <2>4, <2>6, OthersKnow DEF Starts
    <3>3. AimsAt(t, i)' /\ ~ At(t, i, Leaving)'
      BY <2>3 DEF AimsAt, At, Leaving
    <3>4. Holders(i)'
      BY <1>1, <3>1 DEF Shares, Holders, pool
    <3>5. Leavers(i)'
      BY <3>2, <3>3 DEF Leavers
    <3>6. Heads(i)'
      BY <1>1, <2>5, <3>1, <3>2, <3>3 DEF Shares, Heads, pool
    <3> QED BY <3>2, <3>4, <3>5, <3>6 DEF Shares
  <2>7. ASSUME Calm(i)' PROVE Exact(i)'
    <3>1. overlap'[i] # "any"
      BY <2>7 DEF Calm
    <3>2. Exact(i) /\ \A u \in Thread : ~ Inside(u, i)
      BY <2>4, <2>5, <2>7, <3>1 DEF ClassInv, Calm
    <3>3. OneCall(i)' /\ \A u \in Thread \ {t} : Knows(u, i)'
      BY <1>2, <3>2, OthersKnow DEF Starts
    <3>4. Knows(t, i)'
      BY <2>3 DEF Knows, At
    <3>5. HeadNow(i) = currMemPtr[i] /\ CountNow(i) = freeBlockCnt[i]
      BY <3>2, NowKnown DEF NowIsKnown
    <3>6. HeadNow(i)' = currMemPtr'[i] /\ CountNow(i)' = freeBlockCnt'[i]
      BY <2>3, <3>3, NowKnownNext DEF NowIsKnown, NowWithin, HeadAhead, CountAhead
    <3> QED BY <1>1, <2>5, <3>2, <3>3, <3>4, <3>5, <3>6 DEF Exact, pool
  <2>8. ClassInv(i)'
    BY <2>6, <2>7 DEF ClassInv
  <2> QED BY <2>1, <2>8 DEF slotId
<1> QED BY <1>5, <1>6, <1>7 DEF ThreadsInv

-----------------------------------------------------------------------------
(* Release, in its class.                                                  *)

\* A release under way: others may be inside, but no allocation is.
LEMMA FreeGoesOn ==
  ASSUME NEW i \in Slot, NEW t \in Thread, ClassInv(i),
         At(t, i, FreePc), \A u \in Thread \ {t} : call'[u] = call[u],
         At(t, i, FreePc)' \/ call'[t] = NoCall,
         At(t, i, Leaving)' => At(t, i, Leaving) /\ call'[t].ptr = call[t].ptr
                                                 /\ call'[t].size = call[t].size,
         mine' = mine, live' = live, word' = word, overlap' = overlap,
         Shares(i) => Leads(currMemPtr'[i], Unused(i), word) /\ AimsAt(t, i)',
         Shares(i) /\ Exact(i) /\ NowWithin(t, i) =>
           /\ Knows(t, i)'
           /\ Inside(t, i)' /\ NowWithin(t, i)' =>
                HeadNow(i)' = HeadNow(i) /\ CountNow(i)' = CountNow(i)
           /\ ~ Inside(t, i)' =>
                currMemPtr'[i] = HeadNow(i) /\ freeBlockCnt'[i] = CountNow(i)
  PROVE  ClassInv(i)'
<1>1. Unused(i)' = Unused(i)
  BY DEF Unused
<1>2. Inside(t, i) /\ call[t].pc \notin AllocPc
  BY DEF Inside, At, AllocPc, FreePc
<1>3. ASSUME Shares(i) PROVE Shares(i)'
  <2>1. \A u \in Thread : Inside(u, i) => call[u].pc \notin AllocPc
    BY <1>2, <1>3 DEF Shares, Turns
  <2>2. \A u \in Thread : Inside(u, i)' => call'[u].pc \notin AllocPc
    BY <2>1 DEF Inside, At, NoCall, AllocPc, FreePc
  <2>3. Turns(i)'
    BY <2>2 DEF Turns
  <2>4. Holders(i)'
    BY <1>3 DEF Shares, Holders
  <2>5. \A u \in Thread : At(u, i, Leaving)' =>
          At(u, i, Leaving) /\ call'[u].ptr = call[u].ptr /\ call'[u].size = call[u].size
    BY DEF At
  <2>6. Leavers(i)'
    BY <1>3, <2>5 DEF Shares, Leavers
  <2>7. ASSUME NEW u \in Thread \ {t} PROVE AimsAt(u, i)'
    <3>1. AimsAt(u, i) /\ call'[u] = call[u]
      BY <1>3 DEF Shares, Heads
    <3>2. ~ At(u, i, {"link", "unlink", "load", "store", "clear"})
      BY <2>1 DEF Inside, At, AllocPc
    <3> QED BY <1>1, <3>1, <3>2 DEF AimsAt, At
  <2>8. Heads(i)'
    BY <1>1, <1>3, <2>7 DEF Heads
  <2> QED BY <2>3, <2>4, <2>6, <2>8 DEF Shares
<1>4. ASSUME Shares(i), Exact(i) PROVE Exact(i)'
  <2>1. \A u \in Thread \ {t} : ~ Inside(u, i)
    BY <1>2, <1>4 DEF Exact, OneCall
  <2>2. OneCall(i)' /\ \A u \in Thread \ {t} : Knows(u, i)' /\ ~ Inside(u, i)'
    BY <2>1, OthersKnow
  <2>3. NowWithin(t, i)
    BY <1>2, <1>4, NowKnown DEF NowIsKnown, Exact
  <2>4. HeadNow(i)' = HeadNow(i) /\ CountNow(i)' = CountNow(i)
    <3>1. CASE Inside(t, i)'
      <4>1. NowWithin(t, i)'
        BY <2>2, <3>1, NowKnownNext DEF NowIsKnown
      <4> QED BY <1>4, <2>3, <3>1, <4>1
    <3>2. CASE ~ Inside(t, i)'
      <4>1. \A u \in Thread : ~ Inside(u, i)'
        BY <2>2, <3>2
      <4>2. HeadNow(i)' = currMemPtr'[i] /\ CountNow(i)' = freeBlockCnt'[i]
        BY <4>1, NobodyInside
      <4> QED BY <1>4, <2>3, <3>2, <4>2
    <3> QED BY <3>1, <3>2
  <2> QED BY <1>1, <1>4, <2>2, <2>3, <2>4 DEF Exact
<1> QED BY <1>3, <1>4 DEF ClassInv, Calm

LEMMA FreeReadHeadKeeps ==
  ASSUME ThreadsInv, NEW t \in Thread, FreeReadHead(t)
  PROVE  ThreadsInv'
<1>1. /\ call[t].pc = "freeHead" /\ UNCHANGED <<pool, mine, overlap>>
      /\ call \in [Thread -> Call] /\ OwnClass
  BY DEF FreeReadHead, ThreadsInv, OwnClass
<1>2. PICK i \in Slot : /\ i = call[t].slotId
                        /\ i = ChooseSlotBlockIdByAllocSize(call[t].size)
                        /\ call[t].size \in AllocSize
                        /\ call[t].ptr \in Blocks(i)
  BY <1>1, InItsClass DEF FreePc, OwnClass, CallInClass
<1>3. currMemPtr[i] \in Word /\ currMemPtr[i] \in Link(i)
  BY <1>1 DEF OwnClass
<1>4. Becomes(t, "freeLink", call[t].ptr, currMemPtr[i], call[t].cnt)
  <2>1. call' = [call EXCEPT ![t].pc = "freeLink", ![t].next = currMemPtr[i]]
    BY <1>2 DEF FreeReadHead
  <2>2. "freeLink" \in AllocPc \cup FreePc \cup {"idle", "wild"}
    BY DEF FreePc
  <2> QED BY <1>1, <1>3, <2>1, <2>2, MovesWithNext
<1>5. OwnClass'
  <2>1. CallInClass(t)'
    BY <1>2, <1>3, <1>4 DEF CallInClass, Becomes, AllocPc, FreePc
  <2>2. overlap' \in [Slot -> {"none", "frees", "any"}]
    BY <1>1 DEF OwnClass
  <2> QED BY <1>1, <1>4, <2>1, <2>2, OwnClassMove DEF Becomes
<1>6. \A j \in Slot \ {i} : ClassInv(j)'
  BY <1>1, <1>2, <1>4, OtherClasses DEF Becomes, pool
<1>7. ClassInv(i)'
  <2>1. /\ ClassInv(i) /\ At(t, i, FreePc) /\ At(t, i, FreePc)'
        /\ At(t, i, Leaving) /\ Unused(i)' = Unused(i)
    BY <1>1, <1>2, <1>4 DEF ThreadsInv, At, Becomes, FreePc, Leaving, Unused, pool
  <2>2. Shares(i) => Leads(currMemPtr'[i], Unused(i), word) /\ AimsAt(t, i)'
    BY <1>1, <1>2, <1>4, <2>1 DEF Shares, Heads, AimsAt, At, Becomes, pool
  <2>3. Knows(t, i)'
    BY <1>1, <1>2, <1>4 DEF Knows, At, Becomes, pool
  <2>4. NowWithin(t, i) /\ NowWithin(t, i)' =>
          HeadNow(i)' = HeadNow(i) /\ CountNow(i)' = CountNow(i)
    BY <1>1, <1>4 DEF NowWithin, HeadAhead, CountAhead, Becomes, pool
  <2>5. Inside(t, i)'
    BY <2>1 DEF Inside, At
  <2> QED BY <1>1, <1>4, <2>1, <2>2, <2>3, <2>4, <2>5, FreeGoesOn DEF Becomes, pool
<1> QED BY <1>5, <1>6, <1>7 DEF ThreadsInv

LEMMA FreeWriteHeadKeeps ==
  ASSUME ThreadsInv, NEW t \in Thread, FreeWriteHead(t)
  PROVE  ThreadsInv'
<1>1. /\ call[t].pc = "freePush" /\ call' = [call EXCEPT ![t].pc = "freeLoad"]
      /\ UNCHANGED <<freeBlockCnt, word, live, mine, overlap>>
      /\ call \in [Thread -> Call] /\ OwnClass
  BY DEF FreeWriteHead, Step, ThreadsInv, OwnClass
<1>2. PICK i \in Slot : /\ i = call[t].slotId
                        /\ i = ChooseSlotBlockIdByAllocSize(call[t].size)
                        /\ call[t].size \in AllocSize
                        /\ call[t].ptr \in Blocks(i)
  BY <1>1, InItsClass DEF FreePc, OwnClass, CallInClass
<1>3. call[t].ptr \in Word /\ call[t].ptr \in Link(i)
  BY <1>2, ClassFacts
<1>4. Becomes(t, "freeLoad", call[t].ptr, call[t].next, call[t].cnt)
  <2>1. "freeLoad" \in AllocPc \cup FreePc \cup {"idle", "wild"}
    BY DEF FreePc
  <2> QED BY <1>1, <2>1, MovesOn
<1>5. /\ currMemPtr' = [currMemPtr EXCEPT ![i] = call[t].ptr]
      /\ currMemPtr'[i] = call[t].ptr
      /\ currMemPtr' \in [Slot -> Word]
      /\ \A j \in Slot \ {i} : currMemPtr'[j] = currMemPtr[j]
  BY <1>1, <1>2, <1>3 DEF FreeWriteHead, OwnClass
<1>6. OwnClass'
  <2>1. CallInClass(t)'
    BY <1>2, <1>4 DEF CallInClass, Becomes, AllocPc, FreePc
  <2>2. \A j \in Slot : currMemPtr'[j] \in Link(j)
    BY <1>1, <1>3, <1>5 DEF OwnClass
  <2> QED BY <1>1, <1>4, <1>5, <2>1, <2>2, OwnClassStep DEF Becomes, OwnClass
<1>7. \A j \in Slot \ {i} : ClassInv(j)'
  BY <1>1, <1>2, <1>4, <1>5, OtherClasses DEF Becomes
<1>8. ClassInv(i)'
  <2>1. /\ ClassInv(i) /\ At(t, i, FreePc) /\ At(t, i, FreePc)'
        /\ ~ At(t, i, Leaving)' /\ Unused(i)' = Unused(i)
    BY <1>1, <1>2, <1>4 DEF ThreadsInv, At, Becomes, FreePc, Leaving, Unused
  <2>2. Shares(i) => Leads(currMemPtr'[i], Unused(i), word) /\ AimsAt(t, i)'
    BY <1>1, <1>2, <1>4, <1>5, <2>1 DEF Shares, Heads, AimsAt, At, Becomes
  <2>3. Exact(i) => Knows(t, i)'
    BY <1>1, <1>2, <1>4 DEF Exact, Knows, At, Becomes
  <2>4. NowWithin(t, i) /\ NowWithin(t, i)' =>
          HeadNow(i)' = HeadNow(i) /\ CountNow(i)' = CountNow(i)
    BY <1>1, <1>4, <1>5 DEF NowWithin, HeadAhead, CountAhead, Becomes
  <2>5. Inside(t, i)'
    BY <2>1 DEF Inside, At
  <2> QED BY <1>1, <1>4, <2>1, <2>2, <2>3, <2>4, <2>5, FreeGoesOn DEF Becomes
<1> QED BY <1>6, <1>7, <1>8 DEF ThreadsInv

LEMMA FreeLoadCountKeeps ==
  ASSUME ThreadsInv, NEW t \in Thread, FreeLoadCount(t)
  PROVE  ThreadsInv'
<1>1. /\ call[t].pc = "freeLoad" /\ UNCHANGED <<pool, mine, overlap>>
      /\ call \in [Thread -> Call] /\ OwnClass
  BY DEF FreeLoadCount, ThreadsInv, OwnClass
<1>2. PICK i \in Slot : /\ i = call[t].slotId
                        /\ i = ChooseSlotBlockIdByAllocSize(call[t].size)
                        /\ call[t].size \in AllocSize
                        /\ call[t].ptr \in Blocks(i)
  BY <1>1, InItsClass DEF FreePc, OwnClass, CallInClass
<1>3. Becomes(t, "freeStore", call[t].ptr, call[t].next, freeBlockCnt[i])
  <2>1. call' = [call EXCEPT ![t].pc = "freeStore", ![t].cnt = freeBlockCnt[i]]
    BY <1>2 DEF FreeLoadCount
  <2>2. "freeStore" \in AllocPc \cup FreePc \cup {"idle", "wild"}
    BY DEF FreePc
  <2>3. freeBlockCnt[i] \in 0 .. UINT32 - 1
    BY <1>1 DEF OwnClass
  <2> QED BY <1>1, <2>1, <2>2, <2>3, MovesWithCount
<1>4. OwnClass'
  <2>1. CallInClass(t)'
    BY <1>2, <1>3 DEF CallInClass, Becomes, AllocPc, FreePc
  <2>2. overlap' \in [Slot -> {"none", "frees", "any"}]
    BY <1>1 DEF OwnClass
  <2> QED BY <1>1, <1>3, <2>1, <2>2, OwnClassMove DEF Becomes
<1>5. \A j \in Slot \ {i} : ClassInv(j)'
  BY <1>1, <1>2, <1>3, OtherClasses DEF Becomes, pool
<1>6. ClassInv(i)'
  <2>1. /\ ClassInv(i) /\ At(t, i, FreePc) /\ At(t, i, FreePc)'
        /\ ~ At(t, i, Leaving)' /\ Unused(i)' = Unused(i)
    BY <1>1, <1>2, <1>3 DEF ThreadsInv, At, Becomes, FreePc, Leaving, Unused, pool
  <2>2. Shares(i) => Leads(currMemPtr'[i], Unused(i), word) /\ AimsAt(t, i)'
    BY <1>1, <1>2, <1>3, <2>1 DEF Shares, Heads, AimsAt, At, Becomes, pool
  <2>3. Exact(i) => Knows(t, i)'
    BY <1>1, <1>2, <1>3 DEF Exact, Knows, At, Becomes, pool
  <2>4. NowWithin(t, i) /\ NowWithin(t, i)' =>
          HeadNow(i)' = HeadNow(i) /\ CountNow(i)' = CountNow(i)
    BY <1>1, <1>3 DEF NowWithin, HeadAhead, CountAhead, Becomes, pool
  <2>5. Inside(t, i)'
    BY <2>1 DEF Inside, At
  <2> QED BY <1>1, <1>3, <2>1, <2>2, <2>3, <2>4, <2>5, FreeGoesOn DEF Becomes, pool
<1> QED BY <1>4, <1>5, <1>6 DEF ThreadsInv

LEMMA FreeStoreCountKeeps ==
  ASSUME ThreadsInv, NEW t \in Thread, FreeStoreCount(t)
  PROVE  ThreadsInv'
<1>1. /\ call[t].pc = "freeStore" /\ call' = [call EXCEPT ![t] = NoCall]
      /\ UNCHANGED <<currMemPtr, word, live, mine, overlap>>
      /\ call \in [Thread -> Call] /\ OwnClass
  BY DEF FreeStoreCount, ThreadsInv, OwnClass
<1>2. PICK i \in Slot : i = call[t].slotId
  BY <1>1, InItsClass DEF FreePc
<1>3. Ends(t)
  BY <1>1, NoCallEnds
<1>4. PICK c \in 0 .. UINT32 - 1 : c = (call[t].cnt + 1) % UINT32
  <2>1. call[t].cnt \in 0 .. UINT32 - 1
    BY <1>1, CallFields
  <2> QED BY <2>1, CountArith
<1>5. /\ freeBlockCnt' = [freeBlockCnt EXCEPT ![i] = c]
      /\ freeBlockCnt'[i] = c
      /\ freeBlockCnt' \in [Slot -> 0 .. UINT32 - 1]
      /\ \A j \in Slot \ {i} : freeBlockCnt'[j] = freeBlockCnt[j]
  BY <1>1, <1>2, <1>4 DEF FreeStoreCount, OwnClass
<1>6. OwnClass'
  <2>1. CallInClass(t)'
    BY <1>3, NoCallInClass DEF Ends
  <2> QED BY <1>1, <1>3, <1>5, <2>1, OwnClassStep DEF Ends, OwnClass
<1>7. \A j \in Slot \ {i} : ClassInv(j)'
  <2>1. call'[t].slotId = INVALID_SLOT_INDEX
    BY <1>3 DEF Ends, NoCall
  <2> QED BY <1>1, <1>2, <1>3, <1>5, <2>1, OtherClasses DEF Ends
<1>8. ClassInv(i)'
  <2>1. /\ ClassInv(i) /\ At(t, i, FreePc) /\ ~ Inside(t, i)'
        /\ ~ At(t, i, Leaving)'
        /\ \A pcs \in SUBSET (AllocPc \cup FreePc) : ~ At(t, i, pcs)'
    BY <1>1, <1>2, <1>3
       DEF ThreadsInv, At, Inside, Ends, NoCall, AllocPc, FreePc, Leaving
  <2>2. Shares(i) => Leads(currMemPtr'[i], Unused(i), word) /\ AimsAt(t, i)'
    BY <1>1, <2>1 DEF Shares, Heads, AimsAt, AllocPc, FreePc
  <2>3. Knows(t, i)'
    BY <2>1 DEF Knows, AllocPc, FreePc
  <2>4. ASSUME Exact(i), NowWithin(t, i)
        PROVE  currMemPtr'[i] = HeadNow(i) /\ freeBlockCnt'[i] = CountNow(i)
    <3>1. call[t].cnt = freeBlockCnt[i]
      BY <1>1, <1>2, <2>4 DEF Exact, Knows, At
    <3> QED BY <1>1, <1>4, <1>5, <2>4, <3>1 DEF NowWithin, HeadAhead, CountAhead
  <2> QED BY <1>1, <1>3, <2>1, <2>2, <2>3, <2>4, FreeGoesOn DEF Ends
<1> QED BY <1>6, <1>7, <1>8 DEF ThreadsInv

LEMMA FreeWriteLinkKeeps ==
  ASSUME ThreadsInv, NEW t \in Thread, FreeWriteLink(t)
  PROVE  ThreadsInv'
<1>1. /\ call[t].pc = "freeLink" /\ call' = [call EXCEPT ![t].pc = "freePush"]
      /\ UNCHANGED <<currMemPtr, freeBlockCnt, mine, overlap>>
      /\ call \in [Thread -> Call] /\ OwnClass
  BY DEF FreeWriteLink, Step, ThreadsInv, OwnClass
<1>2. PICK i \in Slot, p \in Block :
        /\ i = call[t].slotId /\ p = call[t].ptr /\ p \in Blocks(i)
        /\ i = ChooseSlotBlockIdByAllocSize(call[t].size)
        /\ call[t].size \in AllocSize
        /\ call[t].next \in Link(i)
  BY <1>1, InItsClass, ClassFacts DEF FreePc, OwnClass, CallInClass
<1>3. Becomes(t, "freePush", p, call[t].next, call[t].cnt)
  <2>1. "freePush" \in AllocPc \cup FreePc \cup {"idle", "wild"}
    BY DEF FreePc
  <2> QED BY <1>1, <1>2, <2>1, MovesOn
<1>4. /\ word' = [word EXCEPT ![p] = call[t].next]
      /\ word'[p] = call[t].next
      /\ \A b \in Block \ {p} : word'[b] = word[b]
      /\ word' \in [Block -> Word]
  <2>1. call[t].next \in Word
    BY <1>2, ClassFacts
  <2> QED BY <1>1, <1>2, <2>1 DEF FreeWriteLink, OwnClass
<1>5. /\ p \in Addr /\ p \notin HeapAddr
      /\ \A j \in Slot : p \in Blocks(j) => j = i
  BY <1>2, ClassFacts, HeapOutsidePool
<1>6. /\ live' = [live EXCEPT ![p] = NotLive]
      /\ live'[p] = NotLive
      /\ \A a \in Addr \ {p} : live'[a] = live[a]
      /\ live' \in [Addr -> AllocSize \cup {NotLive}]
  BY <1>1, <1>2, <1>5 DEF FreeWriteLink, OwnClass
<1>7. OwnClass'
  <2>1. CallInClass(t)'
    BY <1>2, <1>3 DEF CallInClass, Becomes, AllocPc, FreePc
  <2>2. \A j \in Slot : \A b \in Blocks(j) : word'[b] \in Link(j)
    BY <1>1, <1>2, <1>4, <1>5, ClassFacts DEF OwnClass
  <2>3. \A h \in HeapAddr : live'[h] = live[h]
    BY <1>5, <1>6 DEF Addr
  <2> QED BY <1>1, <1>3, <1>4, <1>6, <2>1, <2>2, <2>3, OwnClassStep DEF Becomes, OwnClass
<1>8. \A j \in Slot \ {i} : ClassInv(j)'
  <2>1. \A j \in Slot \ {i} : \A b \in Blocks(j) : live'[b] = live[b] /\ word'[b] = word[b]
    BY <1>4, <1>5, <1>6, ClassFacts
  <2> QED BY <1>1, <1>2, <1>3, <2>1, OtherClasses DEF Becomes
<1>9. ClassInv(i)'
  <2>1. /\ ClassInv(i) /\ At(t, i, FreePc) /\ At(t, i, {"freeLink"}) /\ Inside(t, i)
        /\ At(t, i, FreePc)' /\ Inside(t, i)' /\ At(t, i, Leaving)
        /\ ~ At(t, i, Leaving)' /\ call[t].pc \notin AllocPc
    BY <1>1, <1>2, <1>3 DEF ThreadsInv, At, Inside, Becomes, AllocPc, FreePc, Leaving
  <2>2. \A b \in Blocks(i) : b \in Block /\ b \in Addr
    BY ClassFacts
  <2>3. Unused(i)' = Unused(i) \cup {p}
    BY <1>2, <1>6, <2>2 DEF Unused
  <2>4. ASSUME Shares(i)
        PROVE  /\ p \notin Unused(i)
               /\ \A b \in Unused(i) : word'[b] = word[b]
               /\ \A u \in Thread : \A held \in mine[u] : held[1] # p
    <3>1. live[p] = call[t].size /\ \A u \in Thread : \A held \in mine[u] : held[1] # p
      BY <1>2, <2>1, <2>4 DEF Shares, Leavers
    <3>2. p \notin Unused(i)
      BY <1>2, <3>1, PoolAssumption DEF Unused, NotLive
    <3> QED BY <1>4, <2>2, <3>1, <3>2 DEF Unused
  <2>5. ASSUME Shares(i) PROVE Shares(i)'
    <3>1. \A u \in Thread : Inside(u, i) => call[u].pc \notin AllocPc
      BY <2>1, <2>5 DEF Shares, Turns
    <3>2. Turns(i)'
      <4>1. \A u \in Thread : Inside(u, i)' => call'[u].pc \notin AllocPc
        BY <1>3, <3>1 DEF Inside, At, Becomes, AllocPc
      <4> QED BY <4>1 DEF Turns
    <3>3. Holders(i)'
      <4>1. \A u \in Thread : \A held \in mine[u] :
              held[1] \in Blocks(i) => live'[held[1]] = live[held[1]]
        BY <1>6, <2>2, <2>4, <2>5
      <4> QED BY <1>1, <2>5, <4>1 DEF Shares, Holders
    <3>4. Leavers(i)'
      <4>1. \A u \in Thread : At(u, i, Leaving)' =>
              u # t /\ At(u, i, Leaving) /\ call'[u] = call[u]
        BY <1>3, <2>1 DEF At, Becomes
      <4>2. \A u \in Thread : u # t /\ At(u, i, Leaving) =>
              call[u].ptr # p /\ call[u].ptr \in Blocks(i)
        BY <1>1, <1>2, <2>1, <2>5 DEF Shares, Leavers, OwnClass, CallInClass, At, Leaving, FreePc
      <4>3. \A u \in Thread : At(u, i, Leaving)' => live'[call'[u].ptr] = live[call[u].ptr]
        BY <1>6, <2>2, <4>1, <4>2
      <4> QED BY <1>1, <2>5, <4>1, <4>3 DEF Shares, Leavers
    <3>5. \A h : Leads(h, Unused(i), word) => Leads(h, Unused(i)', word')
      <4> TAKE h
      <4>1. Unused(i) \subseteq Unused(i) \cup {p}
        OBVIOUS
      <4> QED BY <2>3, <2>4, <2>5, <4>1, LeadsKept
    <3>6. ASSUME NEW u \in Thread \ {t} PROVE AimsAt(u, i)'
      <4>1. AimsAt(u, i) /\ call'[u] = call[u]
        BY <1>3, <2>5 DEF Shares, Heads, Becomes
      <4>2. ~ At(u, i, {"link", "unlink", "load", "store", "clear"})
        BY <3>1 DEF Inside, At, AllocPc
      <4> QED BY <3>5, <4>1, <4>2 DEF AimsAt, At
    <3>7. AimsAt(t, i)'
      <4>1. Leads(call[t].next, Unused(i), word)
        BY <2>1, <2>5 DEF Shares, Heads, AimsAt
      <4>2. Leads(p, Unused(i) \cup {p}, word')
        <5>1. /\ p \notin Unused(i) /\ word'[p] = call[t].next
              /\ \A b \in Unused(i) : word'[b] = word[b]
          BY <1>4, <2>4, <2>5
        <5> QED BY ONLY <4>1, <5>1, LeadsPush
      <4> QED BY <1>3, <2>3, <4>2 DEF AimsAt, At, Becomes
    <3>8. Heads(i)'
      BY <1>1, <2>5, <3>5, <3>6, <3>7 DEF Shares, Heads
    <3> QED BY <3>2, <3>3, <3>4, <3>8 DEF Shares
  <2>6. ASSUME Shares(i), Exact(i) PROVE Exact(i)'
    <3>1. \A u \in Thread \ {t} : ~ Inside(u, i)
      BY <2>1, <2>6 DEF Exact, OneCall
    <3>2. OneCall(i)' /\ \A u \in Thread \ {t} : Knows(u, i)'
      BY <1>3, <3>1, OthersKnow DEF Becomes
    <3>3. NowWithin(t, i) /\ NowWithin(t, i)'
      BY <2>1, <2>6, <3>2, NowKnown, NowKnownNext DEF NowIsKnown, Exact
    <3>4. PICK n \in Nat : n = freeBlockCnt[i] /\ n \in 0 .. UINT32 - 1
      BY <1>1 DEF OwnClass
    <3>5. HeadNow(i) = currMemPtr[i] /\ CountNow(i) = n
      BY <1>1, <3>3, <3>4 DEF NowWithin, HeadAhead, CountAhead
    <3>6. call[t].next = currMemPtr[i]
      BY <2>1, <2>6 DEF Exact, Knows
    <3>7. Chain(p, n + 1, Unused(i)', word')
      <4>1. Chain(call[t].next, n, Unused(i), word)
        BY <2>6, <3>5, <3>6 DEF Exact
      <4>2. /\ p \notin Unused(i) /\ word'[p] = call[t].next
            /\ \A b \in Unused(i) : word'[b] = word[b]
        BY <1>4, <2>4, <2>6
      <4>3. Chain(p, n + 1, Unused(i) \cup {p}, word')
        BY ONLY n \in Nat, <4>1, <4>2, ChainPush
      <4> QED BY <2>3, <4>3
    <3>8. n + 1 < UINT32
      <4>1. Unused(i)' \subseteq Blocks(i) /\ n + 1 \in Nat
        BY DEF Unused
      <4>2. n + 1 <= BlockCnt(i)
        BY <3>7, <4>1, ChainFits
      <4> QED BY <4>2, ThreadsAssumption, BlockCntFits
    <3>9. (n + 1) % UINT32 = n + 1
      BY <3>4, <3>8, CountArith
    <3>10. HeadNow(i)' = p /\ CountNow(i)' = n + 1
      BY <1>1, <1>3, <3>3, <3>4, <3>9 DEF NowWithin, HeadAhead, CountAhead, Becomes
    <3>11. Knows(t, i)'
      BY <1>1, <1>3, <3>4, <3>8 DEF Knows, At, Becomes
    <3> QED BY <3>2, <3>7, <3>10, <3>11 DEF Exact
  <2> QED BY <1>1, <2>1, <2>5, <2>6 DEF ClassInv, Calm
<1> QED BY <1>7, <1>8, <1>9 DEF ThreadsInv

\* What a thread holds is either a block of its class or not in the pool at all.
LEMMA HeldWhere ==
  ASSUME OwnClass, NEW t \in Thread, NEW p, NEW size, <<p, size>> \in mine[t]
  PROVE  /\ size \in AllocSize /\ p \in Addr
         /\ IsAllocByMemoryPool(p) =>
              \E i \in Slot : p \in Blocks(i) /\ ChooseSlotBlockIdByAllocSize(size) = i
         /\ ~ IsAllocByMemoryPool(p) => p \in HeapAddr /\ p \notin Block
<1>1. size \in AllocSize /\ p \in Addr
  BY DEF OwnClass
<1>2. p \in HeapAddr => ~ IsAllocByMemoryPool(p) /\ p \notin Block
  BY <1>1, HeapOutsidePool
<1>3. p \in Block => IsAllocByMemoryPool(p)
  BY BlockInPool
<1>4. p \in Block => \E i \in Slot : p \in Blocks(i) /\ ChooseSlotBlockIdByAllocSize(size) = i
  BY DEF OwnClass, HeldInClass, Block
<1> QED BY <1>1, <1>2, <1>3, <1>4 DEF Addr

\* A thread that gives something up holds the rest.
LEMMA HeldLess ==
  ASSUME OwnClass, NEW t \in Thread, NEW p, NEW size, GivesUp(t, p, size)
  PROVE  /\ mine' \in [Thread -> SUBSET (Addr \X AllocSize)]
         /\ mine'[t] = mine[t] \ {<<p, size>>}
         /\ \A u \in Thread : mine'[u] \subseteq mine[u]
BY DEF OwnClass, GivesUp

LEMMA FreeToHeapKeeps ==
  ASSUME ThreadsInv, NEW t \in Thread, NEW p, NEW size, <<p, size>> \in mine[t],
         ~ IsAllocByMemoryPool(p), KVMemFreeBegin(t, p, size)
  PROVE  ThreadsInv'
<1>1. /\ call[t].pc = "idle" /\ UNCHANGED <<currMemPtr, freeBlockCnt, word, call, overlap>>
      /\ OwnClass /\ GivesUp(t, p, size) /\ live' = [live EXCEPT ![p] = NotLive]
  BY DEF KVMemFreeBegin, ThreadsInv
<1>2. p \in HeapAddr /\ p \notin Block /\ p \in Addr /\ size \in AllocSize
  BY <1>1, HeldWhere
<1>3. /\ live' \in [Addr -> AllocSize \cup {NotLive}]
      /\ \A a \in Addr \ {p} : live'[a] = live[a]
  BY <1>1, <1>2 DEF OwnClass
<1>4. /\ mine' \in [Thread -> SUBSET (Addr \X AllocSize)]
      /\ mine'[t] = mine[t] \ {<<p, size>>}
      /\ \A u \in Thread : mine'[u] \subseteq mine[u]
  BY <1>1, HeldLess
<1>5. \A u \in Thread : \A held \in mine'[u] : held[1] # p
  <2> SUFFICES ASSUME NEW u \in Thread, NEW held \in mine'[u], held[1] = p PROVE FALSE
    OBVIOUS
  <2>1. held \in mine[u] /\ live[p] = held[2]
    BY <1>1, <1>2, <1>4 DEF OwnClass, HeapHeld
  <2>2. live[p] = size /\ u = t
    BY <1>1, <1>2, <2>1 DEF OwnClass, HeapHeld
  <2>3. held \in Addr \X AllocSize /\ held[2] = size
    BY <1>1, <2>1, <2>2 DEF OwnClass
  <2>4. held = <<p, size>>
    BY <2>3
  <2> QED BY <1>4, <2>2, <2>4
<1>6. OwnClass'
  <2>1. ASSUME NEW u \in Thread PROVE CallInClass(u)'
    BY <1>1 DEF OwnClass, CallInClass
  <2>2. ASSUME NEW u \in Thread PROVE HeldInClass(u)'
    BY <1>1, <1>4 DEF OwnClass, HeldInClass
  <2>3. ASSUME NEW u \in Thread PROVE HeapHeld(u)'
    BY <1>1, <1>3, <1>4, <1>5 DEF OwnClass, HeapHeld, Addr
  <2> QED BY <1>1, <1>3, <1>4, <2>1, <2>2, <2>3 DEF OwnClass
<1>7. ASSUME NEW j \in Slot PROVE ClassInv(j)'
  <2>1. ~ Inside(t, j) /\ ~ Inside(t, j)'
    BY <1>1 DEF Inside, At, AllocPc, FreePc
  <2>2. \A b \in Blocks(j) : live'[b] = live[b]
    BY <1>2, <1>3, ClassFacts
  <2> QED BY <1>1, <1>4, <2>1, <2>2, ElsewhereKept DEF ThreadsInv
<1> QED BY <1>6, <1>7 DEF ThreadsInv

LEMMA FreeToPoolKeeps ==
  ASSUME ThreadsInv, NEW t \in Thread, NEW p, NEW size, <<p, size>> \in mine[t],
         IsAllocByMemoryPool(p), KVMemFreeBegin(t, p, size)
  PROVE  ThreadsInv'
<1>1. /\ call[t].pc = "idle" /\ UNCHANGED <<pool>>
      /\ OwnClass /\ GivesUp(t, p, size) /\ call \in [Thread -> Call]
  BY DEF KVMemFreeBegin, ThreadsInv, OwnClass, pool
<1>2. PICK i \in Slot : /\ p \in Blocks(i) /\ ChooseSlotBlockIdByAllocSize(size) = i
                        /\ p \in Word /\ size \in AllocSize /\ p \notin HeapAddr
  BY <1>1, HeldWhere, HeapOutsidePool, ClassFacts
<1>3. Starts(t, "freeHead", size, i, p) /\ Enters(i, TRUE)
  <2>1. /\ call' = [call EXCEPT ![t] =
              [NoCall EXCEPT !.pc = "freeHead", !.size = size, !.slotId = i, !.ptr = p]]
        /\ Enters(i, TRUE)
    BY <1>2 DEF KVMemFreeBegin
  <2> QED BY <1>1, <1>2, <2>1, FreeStarts
<1>4. /\ mine' \in [Thread -> SUBSET (Addr \X AllocSize)]
      /\ mine'[t] = mine[t] \ {<<p, size>>}
      /\ \A u \in Thread : mine'[u] \subseteq mine[u]
  BY <1>1, HeldLess
<1>5. OwnClass'
  <2>1. ASSUME NEW u \in Thread PROVE CallInClass(u)'
    <3>1. CASE u = t
      BY <1>2, <1>3, <3>1 DEF CallInClass, Starts, AllocPc, FreePc
    <3>2. CASE u # t
      <4>1. call'[u] = call[u]
        BY <1>3, <3>2 DEF Starts
      <4> QED BY <1>1, <4>1 DEF OwnClass, CallInClass
    <3> QED BY <3>1, <3>2
  <2>2. ASSUME NEW u \in Thread PROVE HeldInClass(u)'
    BY <1>1, <1>4 DEF OwnClass, HeldInClass
  <2>3. ASSUME NEW u \in Thread PROVE HeapHeld(u)'
    BY <1>1, <1>4 DEF OwnClass, HeapHeld, pool
  <2>4. overlap' \in [Slot -> {"none", "frees", "any"}]
    BY <1>1, <1>3, EntersType
  <2> QED BY <1>1, <1>3, <1>4, <2>1, <2>2, <2>3, <2>4 DEF OwnClass, Starts, pool
<1>6. ASSUME NEW j \in Slot, j # i PROVE ClassInv(j)'
  <2>1. ~ Inside(t, j) /\ ~ Inside(t, j)'
    BY <1>1, <1>3, <1>6 DEF Inside, At, Starts, AllocPc, FreePc
  <2>2. overlap'[j] = overlap[j]
    BY <1>1, <1>3, <1>6 DEF Enters, OwnClass
  <2> QED BY <1>1, <1>3, <1>4, <2>1, <2>2, ElsewhereKept DEF ThreadsInv, Starts, pool
<1>7. ClassInv(i)'
  <2>1. /\ ClassInv(i) /\ Unused(i)' = Unused(i)
        /\ At(t, i, Leaving)' /\ Inside(t, i)' /\ call'[t].pc = "freeHead"
        /\ ~ Inside(t, i)
    BY <1>1, <1>3 DEF ThreadsInv, Unused, pool, Starts, At, Inside, Leaving, AllocPc, FreePc
  <2>2. ASSUME overlap'[i] # "any"
        PROVE  /\ \A u \in Thread : Inside(u, i) => call[u].pc \notin AllocPc
               /\ overlap[i] # "any"
               /\ overlap'[i] = "none" => \A u \in Thread : ~ Inside(u, i)
               /\ overlap'[i] = "none" => overlap[i] = "none"
    <3>1. \/ InSlot(i, AllocPc \cup FreePc) = {} /\ overlap'[i] = overlap[i]
          \/ InSlot(i, AllocPc) = {} /\ overlap[i] # "any" /\ overlap'[i] = "frees"
      BY <1>1, <1>3, <2>2 DEF Enters, OwnClass
    <3>2. InSlot(i, AllocPc \cup FreePc) = {} => \A u \in Thread : ~ Inside(u, i)
      BY DEF InSlot, Inside, At
    <3>3. InSlot(i, AllocPc) = {} => \A u \in Thread : Inside(u, i) => call[u].pc \notin AllocPc
      BY DEF InSlot, Inside, At
    <3> QED BY <2>2, <3>1, <3>2, <3>3
  <2>3. ASSUME overlap'[i] # "any" PROVE Shares(i)'
    <3>1. Shares(i)
      BY <2>1, <2>2, <2>3 DEF ClassInv
    <3>2. \A u \in Thread \ {t} : call'[u] = call[u]
      BY <1>3 DEF Starts
    <3>3. Turns(i)'
      <4>1. \A u \in Thread : Inside(u, i)' => call'[u].pc \notin AllocPc
        BY <2>1, <2>2, <2>3, <3>2 DEF Inside, At, AllocPc
      <4> QED BY <4>1 DEF Turns
    <3>4. Holders(i)'
      BY <1>1, <1>4, <3>1 DEF Shares, Holders, pool
    <3>5. live[p] = size /\ \A u \in Thread : \A held \in mine'[u] : held[1] # p
      <4>1. live[p] = size
        BY <1>2, <3>1 DEF Shares, Holders
      <4>2. ASSUME NEW u \in Thread, NEW held \in mine'[u], held[1] = p PROVE FALSE
        <5>1. held \in mine[u] /\ u = t
          BY <1>2, <1>4, <3>1, <4>2 DEF Shares, Holders
        <5>2. held[2] = size /\ held \in Addr \X AllocSize
          BY <1>1, <1>2, <3>1, <4>1, <4>2, <5>1 DEF Shares, Holders, OwnClass
        <5>3. held = <<p, size>>
          BY <4>2, <5>2
        <5> QED BY <1>4, <4>2, <5>1, <5>3
      <4> QED BY <4>1, <4>2
    <3>6. \A u \in Thread \ {t} : At(u, i, Leaving)' => At(u, i, Leaving) /\ call[u].ptr # p
      <4>1. \A u \in Thread : At(u, i, Leaving) => call[u].ptr # p
        <5>1. \A u \in Thread : At(u, i, Leaving) =>
                \A held \in mine[t] : held[1] # call[u].ptr
          BY <3>1 DEF Shares, Leavers
        <5> QED BY <5>1
      <4> QED BY <3>2, <4>1 DEF At
    <3>7. Leavers(i)'
      <4>1. ASSUME NEW u \in Thread, At(u, i, Leaving)'
            PROVE  /\ live'[call'[u].ptr] = call'[u].size
                   /\ \A v \in Thread : \A held \in mine'[v] : held[1] # call'[u].ptr
        <5>1. CASE u = t
          BY <1>1, <1>3, <3>5, <5>1 DEF Starts, pool
        <5>2. CASE u # t
          BY <1>1, <1>4, <3>1, <3>2, <3>6, <4>1, <5>2 DEF Shares, Leavers, pool
        <5> QED BY <5>1, <5>2
      <4>2. ASSUME NEW u \in Thread, NEW v \in Thread,
                   At(u, i, Leaving)', At(v, i, Leaving)', call'[u].ptr = call'[v].ptr
            PROVE  u = v
        <5>1. call'[t].ptr = p
          BY <1>3 DEF Starts
        <5>2. \A x \in Thread \ {t} : At(x, i, Leaving)' =>
                At(x, i, Leaving) /\ call'[x].ptr = call[x].ptr /\ call'[x].ptr # p
          BY <3>2, <3>6
        <5> QED BY <3>1, <4>2, <5>1, <5>2 DEF Shares, Leavers
      <4> QED BY <4>1, <4>2 DEF Leavers
    <3>8. Heads(i)'
      <4>1. ASSUME NEW u \in Thread PROVE AimsAt(u, i)'
        <5>1. CASE u = t
          BY <2>1, <5>1 DEF AimsAt, At
        <5>2. CASE u # t
          <6>1. AimsAt(u, i) /\ call'[u] = call[u]
            BY <3>1, <3>2, <5>2 DEF Shares, Heads
          <6> QED BY <1>1, <2>1, <6>1 DEF AimsAt, At, pool
        <5> QED BY <5>1, <5>2
      <4> QED BY <1>1, <2>1, <3>1, <4>1 DEF Shares, Heads, pool
    <3> QED BY <3>3, <3>4, <3>7, <3>8 DEF Shares
  <2>4. ASSUME Calm(i)' PROVE Exact(i)'
    <3>1. overlap'[i] # "any" /\ overlap'[i] = "none"
      BY <2>4 DEF Calm
    <3>2. Exact(i) /\ \A u \in Thread : ~ Inside(u, i)
      BY <2>1, <2>2, <3>1 DEF ClassInv, Calm
    <3>3. OneCall(i)' /\ \A u \in Thread \ {t} : Knows(u, i)'
      BY <1>3, <3>2, OthersKnow DEF Starts
    <3>4. Knows(t, i)'
      BY <2>1 DEF Knows, At
    <3>5. HeadNow(i) = currMemPtr[i] /\ CountNow(i) = freeBlockCnt[i]
      BY <3>2, NowKnown DEF NowIsKnown
    <3>6. HeadNow(i)' = currMemPtr'[i] /\ CountNow(i)' = freeBlockCnt'[i]
      BY <2>1, <3>3, NowKnownNext DEF NowIsKnown, NowWithin, HeadAhead, CountAhead
    <3> QED BY <1>1, <2>1, <3>2, <3>3, <3>4, <3>5, <3>6 DEF Exact, pool
  <2> QED BY <2>3, <2>4 DEF ClassInv
<1> QED BY <1>5, <1>6, <1>7 DEF ThreadsInv

\* A thread that fills what it holds writes in no unused block, unless the
\* block is in two hands.
LEMMA FillsKeeps ==
  ASSUME ThreadsInv, NEW t \in Thread, NEW p, NEW size, Fills(t, p, size)
  PROVE  ThreadsInv'
<1>1. /\ call[t].pc = "idle" /\ <<p, size>> \in mine[t] /\ OwnClass
      /\ UNCHANGED <<currMemPtr, freeBlockCnt, live, call, mine, overlap>>
      /\ word' = [b \in Block |-> IF p <= b /\ b < p + size THEN USER_DATA ELSE word[b]]
  BY DEF Fills, ThreadsInv
<1>2. size \in AllocSize /\ size \in Nat /\ p \in Addr
  BY <1>1, HeldWhere, PoolAssumption
<1>3. \A b \in Block : word'[b] # word[b] =>
        b = p /\ \E i \in Slot : p \in Blocks(i) /\ ChooseSlotBlockIdByAllocSize(size) = i
  <2> SUFFICES ASSUME NEW b \in Block, p <= b, b < p + size
               PROVE  b = p /\ \E i \in Slot : p \in Blocks(i)
                                    /\ ChooseSlotBlockIdByAllocSize(size) = i
    BY <1>1
  <2>1. p \notin HeapAddr
    BY <1>2, HeapOutsidePool
  <2>2. PICK i \in Slot : p \in Blocks(i) /\ ChooseSlotBlockIdByAllocSize(size) = i
    BY <1>1, <2>1, HeldWhere
  <2>3. size <= MEM_BLOCK_SIZE[i]
    BY <1>2, <2>2, ChosenSlotFits
  <2> QED BY <1>2, <2>2, <2>3, OneBlockInRange
<1>4. OwnClass'
  <2>1. word' \in [Block -> Word]
    BY <1>1 DEF OwnClass, Word
  <2>2. \A j \in Slot : \A b \in Blocks(j) : word'[b] \in Link(j)
    BY <1>1, ClassFacts DEF OwnClass
  <2>3. ASSUME NEW u \in Thread PROVE CallInClass(u)' /\ HeldInClass(u)' /\ HeapHeld(u)'
    BY <1>1 DEF OwnClass, CallInClass, HeldInClass, HeapHeld
  <2> QED BY <1>1, <2>1, <2>2, <2>3 DEF OwnClass
<1>5. ASSUME NEW j \in Slot PROVE ClassInv(j)'
  <2>1. CASE overlap[j] = "any"
    BY <1>1, <2>1 DEF ClassInv, Calm
  <2>2. CASE overlap[j] # "any"
    <3>1. Holders(j)
      BY <2>2 DEF ThreadsInv, ClassInv, Shares
    <3>2. ASSUME NEW b \in Blocks(j), live[b] = NotLive PROVE word'[b] = word[b]
      <4>1. b \in Block
        BY ClassFacts
      <4>2. b = p => live[b] = size
        BY <1>1, <3>1 DEF Holders
      <4> QED BY <1>2, <1>3, <3>2, <4>1, <4>2 DEF NotLive
    <3>3. ~ Inside(t, j) /\ ~ Inside(t, j)'
      BY <1>1 DEF Inside, At, AllocPc, FreePc
    <3> QED BY <1>1, <3>2, <3>3, ElsewhereKept DEF ThreadsInv
  <2> QED BY <2>1, <2>2
<1> QED BY <1>4, <1>5 DEF ThreadsInv


-----------------------------------------------------------------------------
(* The invariant holds.                                                    *)

\* Before any thread has called, the lists are those KVMemoryPoolInit wrote.
LEMMA InitThreadsInv == ThreadsInit => ThreadsInv
<1> SUFFICES ASSUME ThreadsInit PROVE ThreadsInv
  OBVIOUS
<1>1. /\ Init /\ call = [t \in Thread |-> NoCall]
      /\ mine = [t \in Thread |-> {}] /\ overlap = [i \in Slot |-> "none"]
  BY DEF ThreadsInit
<1>2. TypeOK /\ FreeListExact
  BY <1>1, InitIInv DEF IInv
<1>3. freeBlockCnt \in [Slot -> 0 .. UINT32 - 1]
  <2>1. \A i \in Slot : BlockCnt(i) \in 0 .. UINT32 - 1
    BY ThreadsAssumption, BlockCntFits
  <2> QED BY <1>1, <2>1 DEF Init, KVMemoryPoolInit
<1>4. \A t \in Thread, i \in Slot :
        \A pcs \in SUBSET (AllocPc \cup FreePc) : ~ At(t, i, pcs)
  BY <1>1 DEF At, NoCall, AllocPc, FreePc
<1>5. \A t \in Thread, i \in Slot : ~ Inside(t, i)
  BY <1>1 DEF Inside, At, NoCall, AllocPc, FreePc
<1>6. ASSUME NEW i \in Slot
      PROVE  Chain(currMemPtr[i], freeBlockCnt[i], Unused(i), word)
  <2>1. HeadNow(i) = currMemPtr[i] /\ CountNow(i) = freeBlockCnt[i]
    BY <1>5, NowKnown DEF NowIsKnown
  <2>2. freeBlockCnt[i] \in Nat
    BY <1>2 DEF TypeOK
  <2>3. Pool!FreeListExactAt(i)
    <3>1. FreeListExactAt(i)
      BY <1>2 DEF FreeListExact
    <3>2. Pool!Blocks(i) = Blocks(i)
      BY DEF Pool!Blocks, Blocks, Pool!BlockAddr, BlockAddr, Pool!memPtr, memPtr,
             Pool!BlockCnt, BlockCnt
    <3>3. [j \in Slot |-> HeadNow(j)][i] = currMemPtr[i]
          /\ [j \in Slot |-> CountNow(j)][i] = freeBlockCnt[i]
      BY <2>1
    <3>4. ASSUME NEW n, NEW g PROVE Pool!IsFreeList(i, n, g) <=> IsFreeList(i, n, g)
      BY <3>2, <3>3 DEF Pool!IsFreeList, IsFreeList, Pool!Live, Live, Pool!NotLive,
                        NotLive, Pool!NULL, NULL, Pool!Slot, Slot
    <3> QED BY <3>1, <3>2, <3>3, <3>4
            DEF Pool!FreeListExactAt, FreeListExactAt, Pool!NULL, NULL, Pool!Slot, Slot
  <2> QED BY <2>1, <2>2, <2>3, ExactList
<1>7. OwnClass
  <2>1. \A i \in Slot : currMemPtr[i] \in Link(i)
    <3> TAKE i \in Slot
    <3>1. Unused(i) \subseteq Blocks(i) /\ freeBlockCnt[i] \in Nat
      BY <1>2 DEF Unused, TypeOK
    <3>2. NULL \notin Unused(i)
      BY <3>1, ClassFacts
    <3>3. currMemPtr[i] = NULL \/ currMemPtr[i] \in Unused(i)
      BY <1>6, <3>1, <3>2, ChainEnd
    <3> QED BY <3>1, <3>3 DEF Link
  <2>2. \A i \in Slot : \A b \in Blocks(i) : word[b] \in Link(i)
    <3> TAKE i \in Slot
    <3> TAKE b \in Blocks(i)
    <3>1. b \in Block /\ PageOf(b) = i
      BY PageOfBlock
    <3> QED BY <1>1, <3>1 DEF Init, KVMemoryPoolInit, Link
  <2>3. call \in [Thread -> Call]
    BY <1>1, NoCallIsCall
  <2>4. ASSUME NEW t \in Thread PROVE CallInClass(t) /\ HeldInClass(t) /\ HeapHeld(t)
    BY <1>1 DEF CallInClass, HeldInClass, HeapHeld, NoCall, AllocPc, FreePc
  <2>5. currMemPtr \in [Slot -> Word] /\ word \in [Block -> Word]
        /\ live \in [Addr -> AllocSize \cup {NotLive}]
    BY <1>2 DEF TypeOK, Word
  <2>6. mine \in [Thread -> SUBSET (Addr \X AllocSize)]
        /\ overlap \in [Slot -> {"none", "frees", "any"}]
    BY <1>1
  <2> QED BY <1>3, <2>1, <2>2, <2>3, <2>4, <2>5, <2>6 DEF OwnClass
<1>8. ASSUME NEW i \in Slot PROVE ClassInv(i)
  <2>1. Turns(i) /\ OneCall(i)
    BY <1>5 DEF Turns, OneCall
  <2>2. Holders(i)
    BY <1>1 DEF Holders
  <2>3. Leavers(i)
    BY <1>4 DEF Leavers, Leaving, FreePc
  <2>4. Leads(currMemPtr[i], Unused(i), word)
    <3>1. freeBlockCnt[i] \in Nat
      BY <1>2 DEF TypeOK
    <3> QED BY <1>6, <3>1 DEF Leads
  <2>5. \A t \in Thread : AimsAt(t, i) /\ Knows(t, i)
    BY <1>4 DEF AimsAt, Knows, AllocPc, FreePc
  <2>6. HeadNow(i) = currMemPtr[i] /\ CountNow(i) = freeBlockCnt[i]
    BY <1>5, NowKnown DEF NowIsKnown
  <2> QED BY <1>6, <2>1, <2>2, <2>3, <2>4, <2>5, <2>6 DEF ClassInv, Shares, Heads, Exact
<1> QED BY <1>7, <1>8 DEF ThreadsInv

LEMMA FreeBeginKeeps ==
  ASSUME ThreadsInv, NEW t \in Thread, NEW held \in mine[t],
         KVMemFreeBegin(t, held[1], held[2])
  PROVE  ThreadsInv'
<1>1. <<held[1], held[2]>> \in mine[t]
  BY DEF KVMemFreeBegin
<1>2. CASE IsAllocByMemoryPool(held[1])
  BY <1>1, <1>2, FreeToPoolKeeps
<1>3. CASE ~ IsAllocByMemoryPool(held[1])
  BY <1>1, <1>3, FreeToHeapKeeps
<1> QED BY <1>2, <1>3

LEMMA NoStepThreadsInv ==
  ASSUME ThreadsInv, UNCHANGED threadVars
  PROVE  ThreadsInv'
<1>1. UNCHANGED <<currMemPtr, freeBlockCnt, word, live, call, mine, overlap>>
  BY DEF threadVars, pool
<1>2. OwnClass'
  BY <1>1 DEF ThreadsInv, OwnClass, CallInClass, HeldInClass, HeapHeld
<1>3. ASSUME NEW i \in Slot PROVE ClassInv(i)'
  <2>1. Unused(i)' = Unused(i)
    BY <1>1 DEF Unused
  <2>2. HeadNow(i)' = HeadNow(i) /\ CountNow(i)' = CountNow(i)
    BY <1>1 DEF HeadNow, CountNow, InSlot
  <2>3. Shares(i) => Shares(i)'
    BY <1>1, <2>1 DEF Shares, Turns, Holders, Leavers, Heads, AimsAt, At, Inside
  <2>4. Exact(i) => Exact(i)'
    BY <1>1, <2>1, <2>2 DEF Exact, OneCall, Knows, At, Inside
  <2> QED BY <1>1, <2>3, <2>4 DEF ThreadsInv, ClassInv, Calm
<1> QED BY <1>2, <1>3 DEF ThreadsInv

LEMMA StepThreadsInv == ThreadsInv /\ [ThreadsNext]_threadVars => ThreadsInv'
<1> SUFFICES ASSUME ThreadsInv, [ThreadsNext]_threadVars PROVE ThreadsInv'
  OBVIOUS
<1>1. ASSUME NEW t \in Thread, Alloc(t) PROVE ThreadsInv'
  BY <1>1, AllocBeginKeeps, CheckCountKeeps, ReadHeadKeeps, ReadLinkKeeps,
     WriteHeadKeeps, LoadCountKeeps, StoreCountKeeps, ClearKeeps, MallocKeeps,
     MallocFailsKeeps DEF Alloc
<1>2. ASSUME NEW t \in Thread, Release(t) PROVE ThreadsInv'
  BY <1>2, FreeBeginKeeps, FreeReadHeadKeeps, FreeWriteLinkKeeps,
     FreeWriteHeadKeeps, FreeLoadCountKeeps, FreeStoreCountKeeps DEF Release
<1>3. ASSUME NEW t \in Thread, Use(t) PROVE ThreadsInv'
  BY <1>3, FillsKeeps DEF Use
<1>4. CASE UNCHANGED threadVars
  BY <1>4, NoStepThreadsInv
<1> QED BY <1>1, <1>2, <1>3, <1>4 DEF ThreadsNext

\* Whatever the interleaving of the accesses, calls stay in their class; a class
\* whose allocations were alone keeps its holders apart; a class whose calls
\* never overlapped has the list of one thread.
THEOREM ThreadsInvariant == ThreadsSpec => []ThreadsInv
<1> QED BY InitThreadsInv, StepThreadsInv, PTL DEF ThreadsSpec

-----------------------------------------------------------------------------
(* What follows from it.                                                   *)

\* Each word of the pool and each field of a call under way stays in its range,
\* races included: no thread ever writes outside the blocks of its class.
THEOREM ThreadsTypeCorrect == ThreadsSpec => []ThreadsTypeOK
<1>1. ThreadsInv => ThreadsTypeOK
  <2> SUFFICES ASSUME ThreadsInv PROVE ThreadsTypeOK
    OBVIOUS
  <2>1. OwnClass
    BY DEF ThreadsInv
  <2>2. ASSUME NEW t \in Thread
        PROVE  /\ call[t].pc \in AllocPc \cup FreePc \cup {"idle", "wild"}
               /\ call[t].pc \in (AllocPc \ {"malloc"}) \cup FreePc => call[t].slotId \in Slot
               /\ call[t].pc \in {"unlink", "load", "store", "clear"} \cup FreePc
                    => call[t].ptr \in Block
    <3>1. CallInClass(t) /\ call[t] \in Call
      BY <2>1 DEF OwnClass
    <3>2. call[t].pc \in {"unlink", "load", "store", "clear"} \cup FreePc
            => call[t].pc \in (AllocPc \ {"malloc"}) \cup FreePc
      BY DEF AllocPc, FreePc
    <3>3. call[t].pc \in {"unlink", "load", "store", "clear"} \cup FreePc
            => call[t].slotId \in Slot /\ call[t].ptr \in Blocks(call[t].slotId)
      BY <3>1, <3>2 DEF CallInClass
    <3>4. call[t].pc \in AllocPc \cup FreePc \cup {"idle", "wild"}
      BY <3>1, CallFields
    <3> QED BY <3>1, <3>3, <3>4, ClassFacts DEF CallInClass
  <2> QED BY <2>1, <2>2 DEF OwnClass, ThreadsTypeOK, Word
<1> QED BY <1>1, ThreadsInvariant, PTL

\* The list of a class whose calls never overlapped is exact at every access of
\* every thread, for any races in the other classes.
THEOREM CalmListsHold == ThreadsSpec => []CalmListsExact
<1>1. ThreadsInv => CalmListsExact
  <2> SUFFICES ASSUME ThreadsInv, NEW i \in Slot, Calm(i) PROVE Pool!FreeListExactAt(i)
    BY DEF CalmListsExact
  <2>1. Chain(HeadNow(i), CountNow(i), Unused(i), word)
    BY DEF ThreadsInv, ClassInv, Exact
  <2>2. CountNow(i) \in Nat
    BY CountIsNat DEF ThreadsInv
  <2> QED BY <2>1, <2>2, ExactList
<1> QED BY <1>1, ThreadsInvariant, PTL

\* Two threads hold the same block only after an allocation of its class
\* overlapped another call: releases alone never share one.
THEOREM SharingHolds == ThreadsSpec => []SharingNeedsAlloc
<1>1. ThreadsInv => SharingNeedsAlloc
  <2> SUFFICES ASSUME ThreadsInv, NEW t \in Thread, NEW u \in Thread,
                      NEW p \in mine[t], NEW q \in mine[u],
                      t # u, p[1] = q[1], p[1] \in Block
               PROVE  overlap[PageOf(p[1])] = "any"
    BY DEF SharingNeedsAlloc
  <2>1. PICK i \in Slot : p[1] \in Blocks(i)
    BY DEF Block
  <2>2. PageOf(p[1]) = i
    BY <2>1, PageOfBlock
  <2>3. ClassInv(i)
    BY DEF ThreadsInv
  <2>4. ~ Holders(i)
    BY <2>1 DEF Holders
  <2> QED BY <2>2, <2>3, <2>4 DEF ClassInv, Shares
<1> QED BY <1>1, ThreadsInvariant, PTL

-----------------------------------------------------------------------------
(* While no class has had two calls at once, each access is a step of the  *)
(* pool that one thread sees, or none.                                     *)

AllCalm == \A i \in Slot : Calm(i)

\* The instance speaks of the same pages, classes and addresses.
LEMMA PoolNames ==
  /\ Pool!Slot = Slot /\ Pool!Addr = Addr /\ Pool!Block = Block
  /\ Pool!USER_DATA = USER_DATA
  /\ Pool!INVALID_SLOT_INDEX = INVALID_SLOT_INDEX /\ Pool!NotLive = NotLive
  /\ \A size : Pool!ChooseSlotBlockIdByAllocSize(size) = ChooseSlotBlockIdByAllocSize(size)
  /\ \A p : Pool!IsAllocByMemoryPool(p) <=> IsAllocByMemoryPool(p)
  /\ \A p, n : Pool!Memset(p, n) = Memset(p, n)
<1>1. Pool!Slot = Slot /\ Pool!INVALID_SLOT_INDEX = INVALID_SLOT_INDEX
      /\ Pool!NotLive = NotLive /\ Pool!NULL = NULL /\ Pool!USER_DATA = USER_DATA
  BY DEF Pool!Slot, Slot, Pool!INVALID_SLOT_INDEX, INVALID_SLOT_INDEX,
         Pool!NotLive, NotLive, Pool!NULL, NULL, Pool!USER_DATA, USER_DATA
<1>2. \A i : Pool!Blocks(i) = Blocks(i)
  BY DEF Pool!Blocks, Blocks, Pool!BlockAddr, BlockAddr, Pool!memPtr, memPtr,
         Pool!BlockCnt, BlockCnt
<1>3. Pool!Block = Block
  BY <1>1, <1>2 DEF Pool!Block, Block
<1>4. Pool!Addr = Addr
  BY <1>3 DEF Pool!Addr, Addr
<1>5. \A size : Pool!ChooseSlotBlockIdByAllocSize(size) = ChooseSlotBlockIdByAllocSize(size)
  BY <1>1 DEF Pool!ChooseSlotBlockIdByAllocSize, ChooseSlotBlockIdByAllocSize
<1>6. \A p : Pool!IsAllocByMemoryPool(p) <=> IsAllocByMemoryPool(p)
  BY DEF Pool!IsAllocByMemoryPool, IsAllocByMemoryPool, Pool!PoolEnd, PoolEnd
<1>7. \A p, n : Pool!Memset(p, n) = Memset(p, n)
  BY <1>1, <1>3 DEF Pool!Memset, Memset
<1> QED BY <1>1, <1>3, <1>4, <1>5, <1>6, <1>7

\* Overlap is never forgotten.
LEMMA CalmBefore ==
  ASSUME ThreadsInv, [ThreadsNext]_threadVars, AllCalm'
  PROVE  AllCalm
<1>1. overlap \in [Slot -> {"none", "frees", "any"}]
  BY DEF ThreadsInv, OwnClass
<1>2. SUFFICES ASSUME NEW i \in Slot, overlap[i] # "none" PROVE overlap'[i] # "none"
  BY DEF AllCalm, Calm
<1>3. CASE overlap' = overlap
  BY <1>2, <1>3
<1>4. CASE \E j, isFree : Enters(j, isFree)
  <2>1. PICK j, isFree : Enters(j, isFree)
    BY <1>4
  <2> QED BY <1>1, <1>2, <2>1 DEF Enters
<1>5. ASSUME NEW t \in Thread, Alloc(t)
      PROVE  overlap' = overlap \/ \E j, isFree : Enters(j, isFree)
  BY <1>5 DEF Alloc, KVMemAllocBegin, CheckCount, ReadHead, ReadLink, WriteHead,
              LoadCount, StoreCount, Clear, Malloc, MallocFails
<1>6. ASSUME NEW t \in Thread, Release(t)
      PROVE  overlap' = overlap \/ \E j, isFree : Enters(j, isFree)
  BY <1>6 DEF Release, KVMemFreeBegin, FreeReadHead, FreeWriteLink, FreeWriteHead,
              FreeLoadCount, FreeStoreCount
<1>7. ASSUME NEW t \in Thread, Use(t) PROVE overlap' = overlap
  BY <1>7 DEF Use, Fills
<1>8. CASE UNCHANGED threadVars
  BY <1>3, <1>8 DEF threadVars
<1> QED BY <1>3, <1>4, <1>5, <1>6, <1>7, <1>8 DEF ThreadsNext

\* A class that the step's thread is not in looks as it did.
LEMMA ViewElsewhere ==
  ASSUME NEW j \in Slot, NEW t \in Thread, ~ Inside(t, j), ~ Inside(t, j)',
         \A u \in Thread \ {t} : call'[u] = call[u],
         currMemPtr'[j] = currMemPtr[j], freeBlockCnt'[j] = freeBlockCnt[j]
  PROVE  HeadNow(j)' = HeadNow(j) /\ CountNow(j)' = CountNow(j)
<1>1. ASSUME NEW pcs \in SUBSET (AllocPc \cup FreePc)
      PROVE  /\ InSlot(j, pcs)' = InSlot(j, pcs)
             /\ \A u \in InSlot(j, pcs) : call'[u] = call[u]
  <2>1. \A u \in Thread : u = t => u \notin InSlot(j, pcs) /\ u \notin InSlot(j, pcs)'
    BY DEF Inside, At, InSlot
  <2>2. \A u \in Thread \ {t} : u \in InSlot(j, pcs)' <=> u \in InSlot(j, pcs)
    BY DEF InSlot
  <2>3. InSlot(j, pcs) \subseteq Thread /\ InSlot(j, pcs)' \subseteq Thread
    BY DEF InSlot
  <2> QED BY <2>1, <2>2, <2>3
<1>2. HeadAhead \in SUBSET (AllocPc \cup FreePc) /\ CountAhead \in SUBSET (AllocPc \cup FreePc)
  BY DEF HeadAhead, CountAhead, AllocPc, FreePc
<1>3. HeadNow(j)' = HeadNow(j)
  <2> DEFINE ahead == InSlot(j, HeadAhead)
             first(S) == CHOOSE u \in S : TRUE
  <2>1. ahead' = ahead /\ \A u \in ahead : call'[u] = call[u]
    BY <1>1, <1>2
  <2>2. ahead # {} => first(ahead) \in ahead
    OBVIOUS
  <2>3. HeadNow(j) = IF ahead = {} THEN currMemPtr[j] ELSE call[first(ahead)].ptr
    BY DEF HeadNow, HeadAhead
  <2>4. HeadNow(j)' = IF ahead' = {} THEN currMemPtr'[j] ELSE call'[first(ahead')].ptr
    BY DEF HeadNow, HeadAhead
  <2>5. first(ahead') = first(ahead)
    BY <2>1
  <2> HIDE DEF ahead, first
  <2> QED BY <2>1, <2>2, <2>3, <2>4, <2>5
<1>4. CountNow(j)' = CountNow(j)
  <2>1. InSlot(j, CountAhead)' = InSlot(j, CountAhead)
    BY <1>1, <1>2
  <2> QED BY <2>1 DEF CountNow, CountAhead
<1> QED BY <1>3, <1>4

\* What a step of t, inside class i, makes of the lists as one thread sees them.
LEMMA ViewInside ==
  ASSUME ThreadsInv, ThreadsInv', AllCalm, AllCalm',
         NEW t \in Thread, NEW i \in Slot, Inside(t, i),
         call'[t].slotId = i \/ call'[t] = NoCall,
         \A u \in Thread \ {t} : call'[u] = call[u],
         \A j \in Slot \ {i} :
           currMemPtr'[j] = currMemPtr[j] /\ freeBlockCnt'[j] = freeBlockCnt[j]
  PROVE  /\ Shares(i) /\ Exact(i) /\ Exact(i)'
         /\ NowWithin(t, i)
         /\ Inside(t, i)' => NowWithin(t, i)'
         /\ ~ Inside(t, i)' => /\ HeadNow(i)' = currMemPtr'[i]
                               /\ CountNow(i)' = freeBlockCnt'[i]
         /\ \A j \in Slot \ {i} : HeadNow(j)' = HeadNow(j) /\ CountNow(j)' = CountNow(j)
<1>1. Shares(i) /\ Exact(i) /\ Exact(i)'
  BY DEF ThreadsInv, ClassInv, AllCalm, Calm
<1>2. NowWithin(t, i) /\ (Inside(t, i)' => NowWithin(t, i)')
  BY <1>1, NowKnown, NowKnownNext DEF NowIsKnown, Exact
<1>3. ~ Inside(t, i)' => HeadNow(i)' = currMemPtr'[i] /\ CountNow(i)' = freeBlockCnt'[i]
  <2>1. \A u \in Thread \ {t} : ~ Inside(u, i)
    BY <1>1 DEF Exact, OneCall
  <2>2. \A u \in Thread \ {t} : ~ Inside(u, i)'
    BY <2>1 DEF Inside, At
  <2> QED BY <2>2, NowKnownNext DEF NowIsKnown
<1>4. ASSUME NEW j \in Slot \ {i} PROVE HeadNow(j)' = HeadNow(j) /\ CountNow(j)' = CountNow(j)
  <2>1. ~ Inside(t, j)
    BY DEF Inside, At
  <2>2. ~ Inside(t, j)'
    BY DEF Inside, At, NoCall, AllocPc, FreePc
  <2> QED BY <2>1, <2>2, ViewElsewhere
<1> QED BY <1>1, <1>2, <1>3, <1>4

\* A step that enters class i.
LEMMA ViewEnters ==
  ASSUME ThreadsInv, ThreadsInv', AllCalm, AllCalm',
         NEW t \in Thread, NEW i \in Slot, NEW isFree, Enters(i, isFree),
         call[t].pc = "idle", call'[t].slotId = i, call'[t].pc \in {"count", "freeHead"},
         \A u \in Thread \ {t} : call'[u] = call[u],
         UNCHANGED <<currMemPtr, freeBlockCnt>>
  PROVE  \A j \in Slot : HeadNow(j)' = HeadNow(j) /\ CountNow(j)' = CountNow(j)
<1>1. \A j \in Slot : ~ Inside(t, j)
  BY DEF Inside, At, AllocPc, FreePc
<1>2. Inside(t, i)'
  BY DEF Inside, At, AllocPc, FreePc
<1>3. \A u \in Thread : ~ Inside(u, i)
  <2>1. overlap[i] = "none" /\ overlap'[i] = "none" /\ overlap \in [Slot -> {"none", "frees", "any"}]
    BY DEF ThreadsInv, OwnClass, AllCalm, Calm
  <2>2. InSlot(i, AllocPc \cup FreePc) = {}
    BY <2>1 DEF Enters
  <2> QED BY <2>2 DEF Inside, At, InSlot
<1>4. HeadNow(i) = currMemPtr[i] /\ CountNow(i) = freeBlockCnt[i]
  BY <1>3, NowKnown DEF NowIsKnown
<1>5. NowWithin(t, i)'
  <2>1. OneCall(i)'
    BY DEF ThreadsInv, ClassInv, AllCalm, Exact
  <2> QED BY <1>2, <2>1, NowKnownNext DEF NowIsKnown
<1>6. HeadNow(i)' = HeadNow(i) /\ CountNow(i)' = CountNow(i)
  BY <1>4, <1>5 DEF NowWithin, HeadAhead, CountAhead
<1>7. ASSUME NEW j \in Slot \ {i} PROVE HeadNow(j)' = HeadNow(j) /\ CountNow(j)' = CountNow(j)
  <2>1. ~ Inside(t, j)'
    BY DEF Inside, At
  <2> QED BY <1>1, <2>1, ViewElsewhere
<1> QED BY <1>6, <1>7

\* A step that no one sees.
LEMMA ViewKept ==
  ASSUME \A j \in Slot : HeadNow(j)' = HeadNow(j) /\ CountNow(j)' = CountNow(j),
         word' = word, live' = live
  PROVE  UNCHANGED Pool!vars
<1>1. [j \in Slot |-> HeadNow(j)]' = [j \in Slot |-> HeadNow(j)]
  OBVIOUS
<1>2. [j \in Slot |-> CountNow(j)]' = [j \in Slot |-> CountNow(j)]
  OBVIOUS
<1> QED BY <1>1, <1>2 DEF Pool!vars

\* A call under way is in a class, and has its fields.
LEMMA CallUnderWay ==
  ASSUME ThreadsInv, NEW t \in Thread,
         call[t].pc \in (AllocPc \ {"malloc"}) \cup FreePc
  PROVE  /\ call[t].slotId \in Slot /\ Inside(t, call[t].slotId)
         /\ call \in [Thread -> Call]
         /\ currMemPtr \in [Slot -> Word] /\ freeBlockCnt \in [Slot -> 0 .. UINT32 - 1]
         /\ call[t].ptr \in Word /\ call[t].next \in Word
         /\ call[t].cnt \in 0 .. UINT32 - 1
<1>1. /\ CallInClass(t) /\ call \in [Thread -> Call]
      /\ currMemPtr \in [Slot -> Word] /\ freeBlockCnt \in [Slot -> 0 .. UINT32 - 1]
  BY DEF ThreadsInv, OwnClass
<1>2. Inside(t, call[t].slotId)
  BY DEF Inside, At
<1>3. call[t].slotId \in Slot
  BY <1>1 DEF CallInClass
<1>4. call[t] \in Call
  BY <1>1
<1> QED BY <1>1, <1>2, <1>3, <1>4, CallFields

\* The accesses that move a call on without showing: each reads, or writes
\* what the view already counted.
LEMMA QuietAlloc ==
  ASSUME ThreadsInv, ThreadsInv', AllCalm, AllCalm', NEW t \in Thread,
         \/ CheckCount(t) \/ ReadHead(t) \/ ReadLink(t)
         \/ WriteHead(t) \/ LoadCount(t) \/ StoreCount(t)
  PROVE  UNCHANGED Pool!vars
<1>1. call[t].pc \in (AllocPc \ {"malloc"}) \cup FreePc
  BY DEF CheckCount, ReadHead, ReadLink, WriteHead, LoadCount, StoreCount, Step, AllocPc
<1>2. PICK i \in Slot : i = call[t].slotId /\ Inside(t, i)
  BY <1>1, CallUnderWay
<1>3. /\ call \in [Thread -> Call] /\ call[t].ptr \in Word /\ call[t].next \in Word
      /\ currMemPtr \in [Slot -> Word] /\ freeBlockCnt \in [Slot -> 0 .. UINT32 - 1]
      /\ call[t].cnt \in 0 .. UINT32 - 1
  BY <1>1, CallUnderWay
<1>4. word' = word /\ live' = live
  BY DEF CheckCount, ReadHead, ReadLink, WriteHead, LoadCount, StoreCount, pool
<1>5. /\ call'[t].slotId = i
      /\ \A u \in Thread \ {t} : call'[u] = call[u]
      /\ \A j \in Slot \ {i} :
           currMemPtr'[j] = currMemPtr[j] /\ freeBlockCnt'[j] = freeBlockCnt[j]
  <2>1. ASSUME NEW pc, call' = [call EXCEPT ![t].pc = pc]
        PROVE  call'[t].slotId = i /\ \A u \in Thread \ {t} : call'[u] = call[u]
    BY <1>2, <1>3, <2>1 DEF Call
  <2>2. ASSUME NEW pc, NEW p, \/ call' = [call EXCEPT ![t].pc = pc, ![t].ptr = p]
                              \/ call' = [call EXCEPT ![t].pc = pc, ![t].next = p]
                              \/ call' = [call EXCEPT ![t].pc = pc, ![t].cnt = p]
        PROVE  call'[t].slotId = i /\ \A u \in Thread \ {t} : call'[u] = call[u]
    BY <1>2, <1>3, <2>2 DEF Call
  <2>3. call'[t].slotId = i /\ \A u \in Thread \ {t} : call'[u] = call[u]
    BY <2>1, <2>2 DEF CheckCount, ReadHead, ReadLink, WriteHead, LoadCount, StoreCount, Step
  <2>4. \A j \in Slot \ {i} :
           currMemPtr'[j] = currMemPtr[j] /\ freeBlockCnt'[j] = freeBlockCnt[j]
    BY <1>2, <1>3 DEF CheckCount, ReadHead, ReadLink, WriteHead, LoadCount, StoreCount, pool
  <2> QED BY <2>3, <2>4
<1>6. /\ Shares(i) /\ Exact(i) /\ NowWithin(t, i)
      /\ Inside(t, i)' => NowWithin(t, i)'
      /\ ~ Inside(t, i)' => /\ HeadNow(i)' = currMemPtr'[i]
                            /\ CountNow(i)' = freeBlockCnt'[i]
      /\ \A j \in Slot \ {i} : HeadNow(j)' = HeadNow(j) /\ CountNow(j)' = CountNow(j)
  BY <1>2, <1>5, ViewInside
<1>7. HeadNow(i)' = HeadNow(i) /\ CountNow(i)' = CountNow(i)
  <2>1. CASE CheckCount(t) \/ ReadHead(t) \/ ReadLink(t)
    <3>1. /\ call[t].pc \in {"count", "head", "link"}
          /\ call'[t].pc \in {"malloc", "head", "link", "unlink", "wild"}
          /\ currMemPtr' = currMemPtr /\ freeBlockCnt' = freeBlockCnt
      BY <1>3, <2>1 DEF CheckCount, ReadHead, ReadLink, Step, pool, Call
    <3> QED BY <1>6, <3>1 DEF NowWithin, HeadAhead, CountAhead
  <2>2. CASE WriteHead(t)
    <3>1. /\ call[t].pc = "unlink" /\ call'[t].pc = "load" /\ call'[t].ptr = call[t].ptr
          /\ freeBlockCnt' = freeBlockCnt
      BY <1>3, <2>2 DEF WriteHead, Step, Call
    <3>2. call[t].ptr = currMemPtr[i]
      BY <1>2, <1>6, <3>1 DEF Shares, Heads, AimsAt, At
    <3>3. Inside(t, i)'
      BY <1>5, <3>1 DEF Inside, At, AllocPc
    <3> QED BY <1>6, <3>1, <3>2, <3>3 DEF NowWithin, HeadAhead, CountAhead
  <2>3. CASE LoadCount(t)
    <3>1. /\ call[t].pc = "load" /\ call'[t].pc = "store" /\ call'[t].ptr = call[t].ptr
          /\ freeBlockCnt' = freeBlockCnt
      BY <1>3, <2>3 DEF LoadCount, pool, Call
    <3>2. Inside(t, i)'
      BY <1>5, <3>1 DEF Inside, At, AllocPc
    <3> QED BY <1>6, <3>1, <3>2 DEF NowWithin, HeadAhead, CountAhead
  <2>4. CASE StoreCount(t)
    <3>1. /\ call[t].pc = "store" /\ call'[t].pc = "clear" /\ call'[t].ptr = call[t].ptr
          /\ freeBlockCnt'[i] = (call[t].cnt + UINT32 - 1) % UINT32
      BY <1>2, <1>3, <2>4 DEF StoreCount, Step, Call
    <3>2. call[t].cnt = freeBlockCnt[i] /\ freeBlockCnt[i] # 0
      BY <1>2, <1>6, <3>1 DEF Exact, Knows, At
    <3>3. PICK n \in 0 .. UINT32 - 1 : n = freeBlockCnt[i]
      BY <1>3
    <3>4. freeBlockCnt'[i] = n - 1 /\ n - 1 \in 0 .. UINT32 - 1 /\ (n - 1) + 1 < UINT32
      <4>1. n # 0 /\ (n + UINT32 - 1) % UINT32 = n - 1
        BY <3>2, <3>3, CountArith
      <4>2. n - 1 \in 0 .. UINT32 - 1 /\ (n - 1) + 1 < UINT32
        BY <4>1, ThreadsAssumption
      <4> QED BY <3>1, <3>2, <3>3, <4>1, <4>2
    <3>5. (freeBlockCnt'[i] + 1) % UINT32 = n
      <4>1. ((n - 1) + 1) % UINT32 = (n - 1) + 1
        BY <3>4, CountArith
      <4> QED BY <3>3, <3>4, <4>1
    <3>6. Inside(t, i)'
      BY <1>5, <3>1 DEF Inside, At, AllocPc
    <3> QED BY <1>6, <3>1, <3>3, <3>5, <3>6 DEF NowWithin, HeadAhead, CountAhead
  <2> QED BY <2>1, <2>2, <2>3, <2>4
<1> QED BY <1>4, <1>6, <1>7, ViewKept

LEMMA QuietRelease ==
  ASSUME ThreadsInv, ThreadsInv', AllCalm, AllCalm', NEW t \in Thread,
         FreeReadHead(t) \/ FreeWriteHead(t) \/ FreeLoadCount(t) \/ FreeStoreCount(t)
  PROVE  UNCHANGED Pool!vars
<1>1. call[t].pc \in (AllocPc \ {"malloc"}) \cup FreePc
  BY DEF FreeReadHead, FreeWriteHead, FreeLoadCount, FreeStoreCount, Step, FreePc
<1>2. PICK i \in Slot : i = call[t].slotId /\ Inside(t, i)
  BY <1>1, CallUnderWay
<1>3. /\ call \in [Thread -> Call] /\ call[t].ptr \in Word /\ call[t].next \in Word
      /\ currMemPtr \in [Slot -> Word] /\ freeBlockCnt \in [Slot -> 0 .. UINT32 - 1]
  BY <1>1, CallUnderWay
<1>4. word' = word /\ live' = live
  BY DEF FreeReadHead, FreeWriteHead, FreeLoadCount, FreeStoreCount, pool
<1>5. /\ call'[t].slotId = i \/ call'[t] = NoCall
      /\ \A u \in Thread \ {t} : call'[u] = call[u]
      /\ \A j \in Slot \ {i} :
           currMemPtr'[j] = currMemPtr[j] /\ freeBlockCnt'[j] = freeBlockCnt[j]
  <2>1. CASE FreeReadHead(t)
    BY <1>2, <1>3, <2>1 DEF FreeReadHead, pool, Call
  <2>2. CASE FreeWriteHead(t)
    BY <1>2, <1>3, <2>2 DEF FreeWriteHead, Step, Call
  <2>3. CASE FreeLoadCount(t)
    BY <1>2, <1>3, <2>3 DEF FreeLoadCount, pool, Call
  <2>4. CASE FreeStoreCount(t)
    BY <1>2, <1>3, <2>4 DEF FreeStoreCount
  <2> QED BY <2>1, <2>2, <2>3, <2>4
<1>6. /\ Shares(i) /\ Exact(i) /\ NowWithin(t, i)
      /\ Inside(t, i)' => NowWithin(t, i)'
      /\ ~ Inside(t, i)' => /\ HeadNow(i)' = currMemPtr'[i]
                            /\ CountNow(i)' = freeBlockCnt'[i]
      /\ \A j \in Slot \ {i} : HeadNow(j)' = HeadNow(j) /\ CountNow(j)' = CountNow(j)
  BY <1>2, <1>5, ViewInside
<1>7. HeadNow(i)' = HeadNow(i) /\ CountNow(i)' = CountNow(i)
  <2>1. CASE FreeReadHead(t)
    <3>1. /\ call[t].pc = "freeHead" /\ call'[t].pc = "freeLink" /\ call'[t].slotId = i
          /\ currMemPtr' = currMemPtr /\ freeBlockCnt' = freeBlockCnt
      BY <1>2, <1>3, <2>1 DEF FreeReadHead, pool, Call
    <3>2. Inside(t, i)'
      BY <3>1 DEF Inside, At, FreePc
    <3> QED BY <1>6, <3>1, <3>2 DEF NowWithin, HeadAhead, CountAhead
  <2>2. CASE FreeWriteHead(t)
    <3>1. /\ call[t].pc = "freePush" /\ call'[t].pc = "freeLoad" /\ call'[t].slotId = i
          /\ currMemPtr'[i] = call[t].ptr /\ freeBlockCnt' = freeBlockCnt
      BY <1>2, <1>3, <2>2 DEF FreeWriteHead, Step, Call
    <3>2. Inside(t, i)'
      BY <3>1 DEF Inside, At, FreePc
    <3> QED BY <1>6, <3>1, <3>2 DEF NowWithin, HeadAhead, CountAhead
  <2>3. CASE FreeLoadCount(t)
    <3>1. /\ call[t].pc = "freeLoad" /\ call'[t].pc = "freeStore" /\ call'[t].slotId = i
          /\ currMemPtr' = currMemPtr /\ freeBlockCnt' = freeBlockCnt
      BY <1>2, <1>3, <2>3 DEF FreeLoadCount, pool, Call
    <3>2. Inside(t, i)'
      BY <3>1 DEF Inside, At, FreePc
    <3> QED BY <1>6, <3>1, <3>2 DEF NowWithin, HeadAhead, CountAhead
  <2>4. CASE FreeStoreCount(t)
    <3>1. /\ call[t].pc = "freeStore" /\ call'[t] = NoCall
          /\ currMemPtr' = currMemPtr /\ freeBlockCnt'[i] = (call[t].cnt + 1) % UINT32
      BY <1>2, <1>3, <2>4 DEF FreeStoreCount
    <3>2. call[t].cnt = freeBlockCnt[i]
      BY <1>2, <1>6, <3>1 DEF Exact, Knows, At
    <3>3. ~ Inside(t, i)'
      BY <3>1 DEF Inside, At, NoCall, AllocPc, FreePc
    <3> QED BY <1>6, <3>1, <3>2, <3>3 DEF NowWithin, HeadAhead, CountAhead
  <2> QED BY <2>1, <2>2, <2>3, <2>4
<1> QED BY <1>4, <1>6, <1>7, ViewKept

\* A list that changes in class i only.
LEMMA ViewOf ==
  ASSUME NEW i \in Slot, NEW h, NEW n, HeadNow(i)' = h, CountNow(i)' = n,
         \A j \in Slot \ {i} : HeadNow(j)' = HeadNow(j) /\ CountNow(j)' = CountNow(j)
  PROVE  /\ [j \in Slot |-> HeadNow(j)]' = [[j \in Slot |-> HeadNow(j)] EXCEPT ![i] = h]
         /\ [j \in Slot |-> CountNow(j)]' = [[j \in Slot |-> CountNow(j)] EXCEPT ![i] = n]
OBVIOUS

\* The access that clears the block is where the allocation happens.
LEMMA ClearAllocs ==
  ASSUME ThreadsInv, ThreadsInv', AllCalm, AllCalm', NEW t \in Thread, Clear(t)
  PROVE  Pool!Next
<1>1. call[t].pc = "clear" /\ call' = [call EXCEPT ![t] = NoCall]
      /\ currMemPtr' = currMemPtr /\ freeBlockCnt' = freeBlockCnt
  BY DEF Clear, Takes
<1>2. PICK i \in Slot : i = call[t].slotId /\ Inside(t, i)
  BY <1>1, CallUnderWay DEF AllocPc
<1>3. call \in [Thread -> Call] /\ freeBlockCnt \in [Slot -> 0 .. UINT32 - 1]
  BY <1>1, CallUnderWay DEF AllocPc
<1>4. call'[t] = NoCall /\ \A u \in Thread \ {t} : call'[u] = call[u]
  BY <1>1, <1>3
<1>5. /\ Exact(i) /\ NowWithin(t, i)
      /\ ~ Inside(t, i)' => HeadNow(i)' = currMemPtr'[i] /\ CountNow(i)' = freeBlockCnt'[i]
      /\ \A j \in Slot \ {i} : HeadNow(j)' = HeadNow(j) /\ CountNow(j)' = CountNow(j)
  BY <1>1, <1>2, <1>4, ViewInside
<1>6. PICK n \in 0 .. UINT32 - 1 : n = freeBlockCnt[i]
  BY <1>3
<1>7. /\ HeadNow(i) = call[t].ptr /\ CountNow(i) = n + 1
      /\ word[call[t].ptr] = currMemPtr[i]
  <2>1. n + 1 < UINT32 /\ word[call[t].ptr] = currMemPtr[i]
    BY <1>1, <1>2, <1>5, <1>6 DEF Exact, Knows, At
  <2>2. (n + 1) % UINT32 = n + 1
    BY <2>1, CountArith
  <2> QED BY <1>1, <1>5, <1>6, <2>1, <2>2 DEF NowWithin, HeadAhead, CountAhead
<1>8. HeadNow(i)' = word[HeadNow(i)] /\ CountNow(i)' = CountNow(i) - 1 /\ CountNow(i) # 0
  <2>1. ~ Inside(t, i)'
    BY <1>4 DEF Inside, At, NoCall, AllocPc, FreePc
  <2>2. n = (n + 1) - 1 /\ n + 1 # 0
    BY ThreadsAssumption
  <2> QED BY <1>1, <1>5, <1>6, <1>7, <2>1, <2>2
<1>9. /\ call[t].size \in AllocSize /\ i = ChooseSlotBlockIdByAllocSize(call[t].size)
      /\ i # INVALID_SLOT_INDEX
  <2>1. CallInClass(t) /\ call[t].pc \in AllocPc \cup FreePc
    BY <1>1 DEF ThreadsInv, OwnClass, AllocPc
  <2> QED BY <1>2, <2>1, ClassFacts DEF CallInClass
<1>10. Pool!KVMemPoolAlloc(call[t].size)
  <2> DEFINE heads == [j \in Slot |-> HeadNow(j)]
             counts == [j \in Slot |-> CountNow(j)]
  <2>1. heads[i] = call[t].ptr /\ counts[i] = CountNow(i)
    BY <1>7
  <2>2. heads' = [heads EXCEPT ![i] = word[heads[i]]]
        /\ counts' = [counts EXCEPT ![i] = counts[i] - 1]
    BY <1>5, <1>7, <1>8, <2>1, ViewOf
  <2>3. word' = Memset(heads[i], MEM_BLOCK_SIZE[i])
        /\ live' = [live EXCEPT ![heads[i]] = call[t].size]
    BY <1>2, <2>1 DEF Clear, Takes
  <2>4. Pool!ChooseSlotBlockIdByAllocSize(call[t].size) = i
        /\ i # Pool!INVALID_SLOT_INDEX
        /\ Pool!Memset(heads[i], MEM_BLOCK_SIZE[i]) = Memset(heads[i], MEM_BLOCK_SIZE[i])
    BY <1>9, PoolNames
  <2>5. counts[i] # 0
    BY <1>8, <2>1
  <2>6. Pool!KVMemPoolAlloc(call[t].size) <=>
          /\ i # Pool!INVALID_SLOT_INDEX
          /\ counts[i] # 0
          /\ heads' = [heads EXCEPT ![i] = word[heads[i]]]
          /\ counts' = [counts EXCEPT ![i] = counts[i] - 1]
          /\ word' = Pool!Memset(heads[i], MEM_BLOCK_SIZE[i])
          /\ live' = [live EXCEPT ![heads[i]] = call[t].size]
    BY <2>4 DEF Pool!KVMemPoolAlloc
  <2> QED BY <2>2, <2>3, <2>4, <2>5, <2>6
<1> QED BY <1>9, <1>10 DEF Pool!Next, Pool!KVMemAlloc

\* malloc serves the request only when the list is empty, or there is no list.
LEMMA MallocAllocs ==
  ASSUME ThreadsInv, ThreadsInv', AllCalm, AllCalm', NEW t \in Thread, Malloc(t)
  PROVE  Pool!Next
<1>1. PICK h \in HeapAddr : live[h] = NotLive /\ Takes(t, h)
  BY DEF Malloc
<1>2. /\ call[t].pc = "malloc" /\ call' = [call EXCEPT ![t] = NoCall]
      /\ currMemPtr' = currMemPtr /\ freeBlockCnt' = freeBlockCnt /\ word' = word
      /\ live' = [live EXCEPT ![h] = call[t].size]
  BY <1>1 DEF Malloc, Takes
<1>3. /\ call \in [Thread -> Call] /\ CallInClass(t)
      /\ call[t].size \in AllocSize
      /\ call[t].slotId = ChooseSlotBlockIdByAllocSize(call[t].size)
      /\ call[t].slotId \in Slot \cup {INVALID_SLOT_INDEX}
  <2>1. call[t].pc \in AllocPc \cup FreePc
    BY <1>2 DEF AllocPc
  <2>2. call[t] \in Call /\ call \in [Thread -> Call] /\ CallInClass(t)
    BY DEF ThreadsInv, OwnClass
  <2> QED BY <2>1, <2>2, CallFields DEF CallInClass
<1>4. call'[t] = NoCall /\ \A u \in Thread \ {t} : call'[u] = call[u]
  BY <1>2, <1>3
<1>5. /\ \A j \in Slot : HeadNow(j)' = HeadNow(j) /\ CountNow(j)' = CountNow(j)
      /\ call[t].slotId # INVALID_SLOT_INDEX => CountNow(call[t].slotId) = 0
  <2>1. CASE call[t].slotId = INVALID_SLOT_INDEX
    <3>1. ASSUME NEW j \in Slot PROVE HeadNow(j)' = HeadNow(j) /\ CountNow(j)' = CountNow(j)
      <4>1. ~ Inside(t, j) /\ ~ Inside(t, j)'
        BY <1>4, <2>1, ClassFacts DEF Inside, At, NoCall, AllocPc, FreePc
      <4> QED BY <1>2, <1>4, <4>1, ViewElsewhere
    <3> QED BY <2>1, <3>1
  <2>2. ASSUME NEW i \in Slot, i = call[t].slotId
        PROVE  /\ CountNow(i) = 0
               /\ \A j \in Slot : HeadNow(j)' = HeadNow(j) /\ CountNow(j)' = CountNow(j)
    <3>1. Inside(t, i) /\ ~ Inside(t, i)'
      BY <1>2, <1>4, <2>2 DEF Inside, At, NoCall, AllocPc, FreePc
    <3>2. /\ Exact(i) /\ NowWithin(t, i)
          /\ HeadNow(i)' = currMemPtr'[i] /\ CountNow(i)' = freeBlockCnt'[i]
          /\ \A j \in Slot \ {i} : HeadNow(j)' = HeadNow(j) /\ CountNow(j)' = CountNow(j)
      BY <1>2, <1>4, <3>1, ViewInside
    <3>3. HeadNow(i) = currMemPtr[i] /\ CountNow(i) = freeBlockCnt[i] /\ freeBlockCnt[i] = 0
      BY <1>2, <2>2, <3>2 DEF NowWithin, HeadAhead, CountAhead, Exact, Knows, At
    <3> QED BY <1>2, <3>2, <3>3
  <2> QED BY <1>3, <2>1, <2>2
<1>6. Pool!KVMalloc(call[t].size)
  <2> DEFINE heads == [j \in Slot |-> HeadNow(j)]
             counts == [j \in Slot |-> CountNow(j)]
             slotId == call[t].slotId
  <2>1. heads' = heads /\ counts' = counts
    BY <1>5
  <2>2. slotId # INVALID_SLOT_INDEX => counts[slotId] = 0
    BY <1>3, <1>5
  <2>3. Pool!ChooseSlotBlockIdByAllocSize(call[t].size) = slotId
        /\ Pool!INVALID_SLOT_INDEX = INVALID_SLOT_INDEX /\ Pool!NotLive = NotLive
    BY <1>3, PoolNames
  <2>4. Pool!KVMalloc(call[t].size) <=>
          /\ slotId # INVALID_SLOT_INDEX => counts[slotId] = 0
          /\ \E a \in {a \in HeapAddr : live[a] = NotLive} :
               live' = [live EXCEPT ![a] = call[t].size]
          /\ UNCHANGED <<heads, counts, word>>
    BY <2>3 DEF Pool!KVMalloc
  <2>5. \E a \in {a \in HeapAddr : live[a] = NotLive} :
          live' = [live EXCEPT ![a] = call[t].size]
    BY <1>1, <1>2
  <2> HIDE DEF heads, counts, slotId
  <2> QED BY <1>2, <2>1, <2>2, <2>4, <2>5
<1> QED BY <1>3, <1>6 DEF Pool!Next, Pool!KVMemAlloc

\* A malloc that fails changes nothing.
LEMMA QuietMallocFails ==
  ASSUME ThreadsInv, ThreadsInv', AllCalm, AllCalm', NEW t \in Thread, MallocFails(t)
  PROVE  UNCHANGED Pool!vars
<1>1. /\ call[t].pc = "malloc" /\ call' = [call EXCEPT ![t] = NoCall]
      /\ currMemPtr' = currMemPtr /\ freeBlockCnt' = freeBlockCnt
      /\ word' = word /\ live' = live
  BY DEF MallocFails, pool
<1>2. call'[t] = NoCall /\ \A u \in Thread \ {t} : call'[u] = call[u]
  BY <1>1 DEF ThreadsInv, OwnClass
<1>3. ASSUME NEW j \in Slot PROVE HeadNow(j)' = HeadNow(j) /\ CountNow(j)' = CountNow(j)
  <2>1. ~ Inside(t, j)'
    BY <1>2 DEF Inside, At, NoCall, AllocPc, FreePc
  <2>2. CASE Inside(t, j)
    <3>1. /\ NowWithin(t, j)
          /\ HeadNow(j)' = currMemPtr'[j] /\ CountNow(j)' = freeBlockCnt'[j]
      BY <1>1, <1>2, <2>1, <2>2, ViewInside
    <3> QED BY <1>1, <3>1 DEF NowWithin, HeadAhead, CountAhead
  <2>3. CASE ~ Inside(t, j)
    BY <1>1, <1>2, <2>1, <2>3, ViewElsewhere
  <2> QED BY <2>2, <2>3
<1> QED BY <1>1, <1>3, ViewKept

\* An allocation that begins is not seen.
LEMMA QuietAllocBegin ==
  ASSUME ThreadsInv, ThreadsInv', AllCalm, AllCalm', NEW t \in Thread,
         NEW size \in AllocSize, KVMemAllocBegin(t, size)
  PROVE  UNCHANGED Pool!vars
<1> DEFINE slotId == ChooseSlotBlockIdByAllocSize(size)
           pc == IF slotId = INVALID_SLOT_INDEX THEN "malloc" ELSE "count"
<1>1. /\ call[t].pc = "idle"
      /\ call' = [call EXCEPT ![t] = [NoCall EXCEPT !.pc = pc, !.size = size, !.slotId = slotId]]
      /\ slotId # INVALID_SLOT_INDEX => Enters(slotId, FALSE)
      /\ currMemPtr' = currMemPtr /\ freeBlockCnt' = freeBlockCnt
      /\ word' = word /\ live' = live
  BY DEF KVMemAllocBegin, pool
<1>2. slotId \in Slot \cup {INVALID_SLOT_INDEX}
  BY ChosenSlotFits, PoolAssumption
<1>3. Starts(t, pc, size, slotId, NULL)
  <2>1. pc \in AllocPc /\ call \in [Thread -> Call]
    BY DEF AllocPc, ThreadsInv, OwnClass
  <2> HIDE DEF pc, slotId
  <2> QED BY <1>1, <1>2, <2>1, AllocStarts
<1>4. \A j \in Slot : HeadNow(j)' = HeadNow(j) /\ CountNow(j)' = CountNow(j)
  <2>1. ASSUME NEW i \in Slot, i = slotId
        PROVE  \A j \in Slot : HeadNow(j)' = HeadNow(j) /\ CountNow(j)' = CountNow(j)
    <3>1. i # INVALID_SLOT_INDEX
      BY ClassFacts
    <3>2. /\ Enters(i, FALSE) /\ call'[t].slotId = i /\ call'[t].pc = "count"
          /\ \A u \in Thread \ {t} : call'[u] = call[u]
      BY <1>1, <1>3, <2>1, <3>1 DEF Starts
    <3> QED BY <1>1, <3>2, ViewEnters
  <2>2. ASSUME slotId = INVALID_SLOT_INDEX, NEW j \in Slot
        PROVE  HeadNow(j)' = HeadNow(j) /\ CountNow(j)' = CountNow(j)
    <3>1. ~ Inside(t, j)
      BY <1>1 DEF Inside, At, AllocPc, FreePc
    <3>2. ~ Inside(t, j)'
      BY <1>3, <2>2, ClassFacts DEF Inside, At, Starts
    <3> QED BY <1>1, <1>3, <3>1, <3>2, ViewElsewhere DEF Starts
  <2> QED BY <1>2, <2>1, <2>2
<1> QED BY <1>1, <1>4, ViewKept

\* A release of a block begins unseen; free of the C library is seen at once.
LEMMA FreeBegins ==
  ASSUME ThreadsInv, ThreadsInv', AllCalm, AllCalm', NEW t \in Thread,
         NEW p, NEW size, <<p, size>> \in mine[t], KVMemFreeBegin(t, p, size)
  PROVE  Pool!Next \/ UNCHANGED Pool!vars
<1>1. /\ call[t].pc = "idle" /\ OwnClass /\ call \in [Thread -> Call]
      /\ currMemPtr' = currMemPtr /\ freeBlockCnt' = freeBlockCnt /\ word' = word
  BY DEF KVMemFreeBegin, ThreadsInv, OwnClass
<1>2. size \in AllocSize /\ p \in Addr
  BY <1>1, HeldWhere
<1>3. CASE IsAllocByMemoryPool(p)
  <2>1. PICK i \in Slot : /\ p \in Blocks(i) /\ ChooseSlotBlockIdByAllocSize(size) = i
                          /\ p \in Word
    BY <1>1, <1>3, HeldWhere, ClassFacts
  <2>2. /\ call' = [call EXCEPT ![t] =
              [NoCall EXCEPT !.pc = "freeHead", !.size = size, !.slotId = i, !.ptr = p]]
        /\ Enters(i, TRUE) /\ live' = live
    BY <1>3, <2>1 DEF KVMemFreeBegin
  <2>3. Starts(t, "freeHead", size, i, p)
    BY <1>1, <1>2, <2>1, <2>2, FreeStarts
  <2>4. \A j \in Slot : HeadNow(j)' = HeadNow(j) /\ CountNow(j)' = CountNow(j)
    <3>1. /\ call'[t].slotId = i /\ call'[t].pc = "freeHead"
          /\ \A u \in Thread \ {t} : call'[u] = call[u]
      BY <2>3 DEF Starts
    <3> QED BY <1>1, <2>2, <3>1, ViewEnters
  <2> QED BY <1>1, <2>2, <2>4, ViewKept
<1>4. CASE ~ IsAllocByMemoryPool(p)
  <2>1. live' = [live EXCEPT ![p] = NotLive] /\ call' = call
    BY <1>4 DEF KVMemFreeBegin
  <2>2. \A j \in Slot : ~ Inside(t, j) /\ ~ Inside(t, j)'
    BY <1>1, <2>1 DEF Inside, At, AllocPc, FreePc
  <2>3. \A j \in Slot : HeadNow(j)' = HeadNow(j) /\ CountNow(j)' = CountNow(j)
    BY <1>1, <2>1, <2>2, ViewElsewhere
  <2>4. live[p] # NotLive
    <3>1. p \in HeapAddr
      BY <1>1, <1>4, HeldWhere
    <3>2. HeapHeld(t)
      BY <1>1 DEF OwnClass
    <3>3. live[p] = size
      BY <3>1, <3>2 DEF HeapHeld
    <3> QED BY <1>2, <3>3, PoolAssumption DEF NotLive
  <2>5. Pool!KVMemFree(p, live[p])
    <3> DEFINE heads == [j \in Slot |-> HeadNow(j)]
               counts == [j \in Slot |-> CountNow(j)]
    <3>1. heads' = heads /\ counts' = counts
      BY <2>3
    <3>2. Pool!NotLive = NotLive /\ ~ Pool!IsAllocByMemoryPool(p)
      BY <1>4, PoolNames
    <3> QED BY <1>1, <2>1, <2>4, <3>1, <3>2 DEF Pool!KVMemFree
  <2> QED BY <1>2, <2>5, PoolNames DEF Pool!Next
<1> QED BY <1>3, <1>4

\* The access that links the block in is where the release happens.
LEMMA FreeWriteLinkFrees ==
  ASSUME ThreadsInv, ThreadsInv', AllCalm, AllCalm', NEW t \in Thread, FreeWriteLink(t)
  PROVE  Pool!Next
<1>1. /\ call[t].pc = "freeLink" /\ call' = [call EXCEPT ![t].pc = "freePush"]
      /\ currMemPtr' = currMemPtr /\ freeBlockCnt' = freeBlockCnt
      /\ word' = [word EXCEPT ![call[t].ptr] = call[t].next]
      /\ live' = [live EXCEPT ![call[t].ptr] = NotLive]
  BY DEF FreeWriteLink, Step
<1>2. /\ call[t].slotId \in Slot /\ Inside(t, call[t].slotId)
      /\ call \in [Thread -> Call] /\ freeBlockCnt \in [Slot -> 0 .. UINT32 - 1]
  BY <1>1, CallUnderWay DEF FreePc
<1>3. PICK i \in Slot, p \in Block :
        /\ p \in Blocks(i)
        /\ i = call[t].slotId /\ p = call[t].ptr /\ call[t].size \in AllocSize
        /\ i = ChooseSlotBlockIdByAllocSize(call[t].size) /\ i # INVALID_SLOT_INDEX
  <2>1. CallInClass(t) /\ call[t].pc \in FreePc
    BY <1>1 DEF ThreadsInv, OwnClass, FreePc
  <2> QED BY <1>2, <2>1, ClassFacts DEF CallInClass
<1>4. /\ call'[t].pc = "freePush" /\ call'[t].slotId = i /\ call'[t].ptr = p
      /\ \A u \in Thread \ {t} : call'[u] = call[u]
  BY <1>1, <1>2, <1>3 DEF Call
<1>5. Inside(t, i)'
  BY <1>4 DEF Inside, At, FreePc
<1>6. /\ Shares(i) /\ Exact(i) /\ Exact(i)' /\ NowWithin(t, i) /\ NowWithin(t, i)'
      /\ \A j \in Slot \ {i} : HeadNow(j)' = HeadNow(j) /\ CountNow(j)' = CountNow(j)
  BY <1>1, <1>2, <1>3, <1>4, <1>5, ViewInside
<1>7. PICK n \in 0 .. UINT32 - 1 : n = freeBlockCnt[i]
  BY <1>2
<1>8. HeadNow(i) = call[t].next /\ CountNow(i) = n
  <2>1. call[t].next = currMemPtr[i]
    BY <1>1, <1>3, <1>6 DEF Exact, Knows, At
  <2> QED BY <1>1, <1>6, <1>7, <2>1 DEF NowWithin, HeadAhead, CountAhead
<1>9. HeadNow(i)' = p /\ CountNow(i)' = n + 1
  <2>1. n + 1 < UINT32
    BY <1>1, <1>4, <1>6, <1>7 DEF Exact, Knows, At
  <2>2. (n + 1) % UINT32 = n + 1
    BY <2>1, CountArith
  <2> QED BY <1>1, <1>4, <1>6, <1>7, <2>2 DEF NowWithin, HeadAhead, CountAhead
<1>10. live[p] = call[t].size /\ live[p] # NotLive
  <2>1. live[p] = call[t].size
    BY <1>1, <1>3, <1>6 DEF Shares, Leavers, At, Leaving
  <2> QED BY <1>3, <2>1, PoolAssumption DEF NotLive
<1>11. p \in Addr /\ IsAllocByMemoryPool(p)
  BY BlockInPool DEF Addr
<1>12. Pool!KVMemFree(p, live[p])
  <2> DEFINE heads == [j \in Slot |-> HeadNow(j)]
             counts == [j \in Slot |-> CountNow(j)]
  <2>1. heads[i] = call[t].next /\ counts[i] = n
    BY <1>8
  <2>2. heads' = [heads EXCEPT ![i] = p] /\ counts' = [counts EXCEPT ![i] = counts[i] + 1]
    BY <1>6, <1>9, <2>1, ViewOf
  <2>3. word' = [word EXCEPT ![p] = heads[i]] /\ live' = [live EXCEPT ![p] = NotLive]
    BY <1>1, <1>3, <2>1
  <2>4. /\ Pool!ChooseSlotBlockIdByAllocSize(live[p]) = i
        /\ i # Pool!INVALID_SLOT_INDEX
        /\ Pool!IsAllocByMemoryPool(p) /\ Pool!NotLive = NotLive
    BY <1>3, <1>10, <1>11, PoolNames
  <2>5. Pool!KVMemPoolFree(p, live[p]) <=>
          /\ word' = [word EXCEPT ![p] = heads[i]]
          /\ heads' = [heads EXCEPT ![i] = p]
          /\ counts' = [counts EXCEPT ![i] = counts[i] + 1]
    BY <2>4 DEF Pool!KVMemPoolFree
  <2>6. Pool!KVMemPoolFree(p, live[p])
    BY <2>2, <2>3, <2>5
  <2> QED BY <1>10, <2>3, <2>4, <2>6 DEF Pool!KVMemFree
<1> QED BY <1>11, <1>12, PoolNames DEF Pool!Next

\* A thread that fills what it holds is the caller that writes.
LEMMA FillsWrites ==
  ASSUME ThreadsInv, ThreadsInv', AllCalm, AllCalm', NEW t \in Thread,
         NEW p, NEW size, Fills(t, p, size)
  PROVE  Pool!Next
<1>1. /\ call[t].pc = "idle" /\ <<p, size>> \in mine[t] /\ OwnClass
      /\ currMemPtr' = currMemPtr /\ freeBlockCnt' = freeBlockCnt
      /\ live' = live /\ call' = call
      /\ word' = [b \in Block |-> IF p <= b /\ b < p + size THEN USER_DATA ELSE word[b]]
  BY DEF Fills, ThreadsInv
<1>2. size \in AllocSize /\ p \in Addr
  BY <1>1, HeldWhere
<1>3. live[p] = size /\ live[p] # NotLive
  <2>1. CASE IsAllocByMemoryPool(p)
    <3>1. PICK i \in Slot : p \in Blocks(i)
      BY <1>1, <2>1, HeldWhere
    <3>2. Holders(i)
      BY DEF ThreadsInv, ClassInv, AllCalm, Calm, Shares
    <3>3. live[p] = size
      BY <1>1, <3>1, <3>2 DEF Holders
    <3> QED BY <1>2, <3>3, PoolAssumption DEF NotLive
  <2>2. CASE ~ IsAllocByMemoryPool(p)
    <3>1. p \in HeapAddr
      BY <1>1, <2>2, HeldWhere
    <3>2. HeapHeld(t)
      BY <1>1 DEF OwnClass
    <3>3. live[p] = size
      BY <1>1, <3>1, <3>2 DEF HeapHeld
    <3> QED BY <1>2, <3>3, PoolAssumption DEF NotLive
  <2> QED BY <2>1, <2>2
<1>4. \A j \in Slot : HeadNow(j)' = HeadNow(j) /\ CountNow(j)' = CountNow(j)
  <2>1. \A j \in Slot : ~ Inside(t, j) /\ ~ Inside(t, j)'
    BY <1>1 DEF Inside, At, AllocPc, FreePc
  <2> QED BY <1>1, <2>1, ViewElsewhere
<1>5. Pool!CallerWrites(p)
  <2> DEFINE heads == [j \in Slot |-> HeadNow(j)]
             counts == [j \in Slot |-> CountNow(j)]
  <2>1. heads' = heads /\ counts' = counts
    BY <1>4
  <2>2. Pool!NotLive = NotLive /\ Pool!Block = Block /\ Pool!USER_DATA = USER_DATA
    BY PoolNames
  <2> QED BY <1>1, <1>3, <2>1, <2>2 DEF Pool!CallerWrites
<1> QED BY <1>2, <1>5, PoolNames DEF Pool!Next

LEMMA NoStepQuiet ==
  ASSUME UNCHANGED threadVars
  PROVE  UNCHANGED Pool!vars
<1>1. UNCHANGED <<currMemPtr, freeBlockCnt, word, live, call>>
  BY DEF threadVars, pool
<1>2. \A j \in Slot : HeadNow(j)' = HeadNow(j) /\ CountNow(j)' = CountNow(j)
  BY <1>1 DEF HeadNow, CountNow, InSlot
<1> QED BY <1>1, <1>2, ViewKept

LEMMA CalmStep ==
  ASSUME ThreadsInv, ThreadsInv', [ThreadsNext]_threadVars, AllCalm'
  PROVE  Pool!Next \/ UNCHANGED Pool!vars
<1>1. AllCalm
  BY CalmBefore
<1>2. ASSUME NEW t \in Thread, Alloc(t) PROVE Pool!Next \/ UNCHANGED Pool!vars
  <2>1. ASSUME NEW size \in AllocSize, KVMemAllocBegin(t, size) PROVE UNCHANGED Pool!vars
    BY <1>1, <2>1, QuietAllocBegin
  <2>2. ASSUME \/ CheckCount(t) \/ ReadHead(t) \/ ReadLink(t)
               \/ WriteHead(t) \/ LoadCount(t) \/ StoreCount(t)
        PROVE  UNCHANGED Pool!vars
    BY <1>1, <2>2, QuietAlloc
  <2>3. ASSUME Clear(t) PROVE Pool!Next
    BY <1>1, <2>3, ClearAllocs
  <2>4. ASSUME Malloc(t) PROVE Pool!Next
    BY <1>1, <2>4, MallocAllocs
  <2>5. ASSUME MallocFails(t) PROVE UNCHANGED Pool!vars
    BY <1>1, <2>5, QuietMallocFails
  <2> QED BY <1>2, <2>1, <2>2, <2>3, <2>4, <2>5 DEF Alloc
<1>3. ASSUME NEW t \in Thread, Release(t) PROVE Pool!Next \/ UNCHANGED Pool!vars
  <2>1. ASSUME NEW held \in mine[t], KVMemFreeBegin(t, held[1], held[2])
        PROVE  Pool!Next \/ UNCHANGED Pool!vars
    <3>1. <<held[1], held[2]>> \in mine[t]
      BY <2>1 DEF KVMemFreeBegin
    <3> QED BY <1>1, <2>1, <3>1, FreeBegins
  <2>2. ASSUME FreeReadHead(t) \/ FreeWriteHead(t) \/ FreeLoadCount(t) \/ FreeStoreCount(t)
        PROVE  UNCHANGED Pool!vars
    BY <1>1, <2>2, QuietRelease
  <2>3. ASSUME FreeWriteLink(t) PROVE Pool!Next
    BY <1>1, <2>3, FreeWriteLinkFrees
  <2> QED BY <1>3, <2>1, <2>2, <2>3 DEF Release
<1>4. ASSUME NEW t \in Thread, Use(t) PROVE Pool!Next
  BY <1>1, <1>4, FillsWrites DEF Use
<1>5. CASE UNCHANGED threadVars
  BY <1>5, NoStepQuiet
<1> QED BY <1>2, <1>3, <1>4, <1>5 DEF ThreadsNext

\* Threads that take turns, or keep to classes of their own, use the pool of one
\* thread: as long as no class has had two calls at once, each access of
\* kv_memory.c is one whole call of it, or none.
THEOREM CallsAtomic == ThreadsSpec => CallsAreAtomic
<1>1. ThreadsInv /\ ThreadsInv' /\ [ThreadsNext]_threadVars =>
        [(\A i \in Slot : Calm(i)') => Pool!Next \/ UNCHANGED Pool!vars]_threadVars
  BY CalmStep DEF AllCalm
<1> QED BY <1>1, ThreadsInvariant, PTL DEF ThreadsSpec, CallsAreAtomic

=============================================================================
