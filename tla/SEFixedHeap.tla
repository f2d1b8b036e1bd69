---------------------------- MODULE SEFixedHeap ----------------------------
(***************************************************************************)
(* The row storage of one table, storage/se_heap.c: one page of            *)
(* SE_HEAP_PAGE_SIZE bytes that fixed-size rows are appended to.  The page *)
(* is kept byte by byte, because a row is found again only by counting     *)
(* rowSize bytes from the start of the page (DmTraceTableRow in            *)
(* spr_label.c), and rows of the wrong length or place would show there.   *)
(***************************************************************************)
EXTENDS Integers

CONSTANTS
  SE_HEAP_PAGE_SIZE,  \* bytes of the page
  Byte,               \* what a byte of a row can be
  Garbage             \* a byte nobody wrote: the page comes from malloc

ASSUME PageAssumption == SE_HEAP_PAGE_SIZE \in Nat /\ Garbage \notin Byte

PageByte == 0 .. SE_HEAP_PAGE_SIZE - 1

\* The bytes of a row of the given size.
Row(rowSize) == [0 .. rowSize - 1 -> Byte]

FixedHeapT ==
  [page    : [PageByte -> Byte \cup {Garbage}],
   currPos : 0 .. SE_HEAP_PAGE_SIZE,  \* offset of the first unused byte
   rowCnt  : Nat,
   rowSize : Nat]

SEFixedHeapInit(rowSize) ==
  [page    |-> [k \in PageByte |-> Garbage],
   currPos |-> 0,
   rowCnt  |-> 0,
   rowSize |-> rowSize]

\* Mutant: it is enough that the page is not full yet.
HasRoomNotFull(heap) == heap.currPos < SE_HEAP_PAGE_SIZE

\* Otherwise SEFixedHeapInsertRow runs into DB_ASSERT(false).
HasRoom(heap) == heap.currPos + heap.rowSize <= SE_HEAP_PAGE_SIZE

\* Mutant: currPos stays, so that every row is written over the one before.
SEFixedHeapInsertRowInPlace(heap, rowBuf) ==
  [page    |-> [k \in PageByte |->
                  IF heap.currPos <= k /\ k < heap.currPos + heap.rowSize
                    THEN rowBuf[k - heap.currPos] ELSE heap.page[k]],
   currPos |-> heap.currPos,
   rowCnt  |-> heap.rowCnt + 1,
   rowSize |-> heap.rowSize]

\* memcpy of the row to currPos.
SEFixedHeapInsertRow(heap, rowBuf) ==
  [page    |-> [k \in PageByte |->
                  IF heap.currPos <= k /\ k < heap.currPos + heap.rowSize
                    THEN rowBuf[k - heap.currPos] ELSE heap.page[k]],
   currPos |-> heap.currPos + heap.rowSize,
   rowCnt  |-> heap.rowCnt + 1,
   rowSize |-> heap.rowSize]

\* The cursor walk of DmTraceTableRow: row i starts i - 1 rows into the page.
RowAt(heap, i) ==
  [k \in 0 .. heap.rowSize - 1 |-> heap.page[(i - 1) * heap.rowSize + k]]

Rows(heap) == [i \in 1 .. heap.rowCnt |-> RowAt(heap, i)]

\* What the two counters of the page say agrees, and every counted row is
\* wholly inside the page and wholly written.
HeapConsistent(heap) ==
  /\ heap.currPos = heap.rowCnt * heap.rowSize
  /\ heap.currPos <= SE_HEAP_PAGE_SIZE
  /\ \A k \in PageByte : k < heap.currPos <=> heap.page[k] # Garbage

=============================================================================
