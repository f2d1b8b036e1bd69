--------------------------- MODULE KVMemoryThreads ---------------------------
(***************************************************************************)
(* The memory pool as the worker threads use it: the pool has no lock, so  *)
(* the calls of common/kv_memory.c interleave at their accesses to the     *)
(* shared words.  Each access is one action; local variables of a call     *)
(* (ptr, the word read through it, the count being changed) are kept per   *)
(* thread.  malloc and free of the C library are thread safe and are one   *)
(* action each.                                                            *)
(*                                                                         *)
(* Calls of two threads in one size class disturb each other.  overlap     *)
(* records for each class whether that has happened, and with which calls, *)
(* so that the properties can say what each kind of overlap cannot do.  A  *)
(* thread that would follow a word which is no block has left the model    *)
(* (pc "wild"): through NULL the process ends, through caller data the C   *)
(* program has no meaning.                                                 *)
(***************************************************************************)
EXTENDS KVMemory, FiniteSets

CONSTANTS
  Thread,
  UINT32,    \* 2^32: counts wrap here
  MaxHeld    \* bound: blocks a thread holds at a time

ASSUME ThreadsAssumption ==
  /\ UINT32 \in Nat /\ \A i \in Slot : BlockCnt(i) < UINT32
  /\ MaxHeld \in Nat

VARIABLES
  call,     \* [thread |-> its call under way: pc, size, slotId, ptr, next, cnt]
  mine,     \* [thread |-> the addresses it holds, each with its size]
  overlap   \* [slot |-> "none", or "frees" or "any": calls that overlapped]

pool == <<currMemPtr, freeBlockCnt, word, live>>

threadVars == <<pool, call, mine, overlap>>

NoCall == [pc |-> "idle", size |-> 0, slotId |-> INVALID_SLOT_INDEX,
           ptr |-> NULL, next |-> NULL, cnt |-> 0]

AllocPc == {"count", "head", "link", "unlink", "load", "store", "clear", "malloc"}

FreePc == {"freeHead", "freeLink", "freePush", "freeLoad", "freeStore"}

\* The calls of other threads in a class.
InSlot(i, pcs) == {t \in Thread : call[t].slotId = i /\ call[t].pc \in pcs}

\* A call enters class i: it overlaps those that are in it.
Enters(i, isFree) ==
  overlap' =
    [overlap EXCEPT ![i] =
       IF InSlot(i, AllocPc \cup FreePc) = {} THEN @
       ELSE IF isFree /\ InSlot(i, AllocPc) = {} /\ @ # "any" THEN "frees"
       ELSE "any"]

ThreadsInit ==
  /\ Init
  /\ call = [t \in Thread |-> NoCall]
  /\ mine = [t \in Thread |-> {}]
  /\ overlap = [i \in Slot |-> "none"]

Step(t, from, to) == call[t].pc = from /\ call' = [call EXCEPT ![t].pc = to]

-----------------------------------------------------------------------------
(* KVMemAlloc                                                              *)

KVMemAllocBegin(t, allocSize) ==
  LET slotId == ChooseSlotBlockIdByAllocSize(allocSize)
  IN  /\ call[t].pc = "idle" /\ Cardinality(mine[t]) < MaxHeld
      /\ call' = [call EXCEPT ![t] =
           [NoCall EXCEPT !.pc = IF slotId = INVALID_SLOT_INDEX THEN "malloc"
                                                                ELSE "count",
                          !.size = allocSize, !.slotId = slotId]]
      /\ IF slotId = INVALID_SLOT_INDEX THEN UNCHANGED overlap
                                        ELSE Enters(slotId, FALSE)
      /\ UNCHANGED <<pool, mine>>

\* Mutant: the pool gives up with its last block unused.
CheckCountTooEarly(t) ==
  /\ Step(t, "count", IF freeBlockCnt[call[t].slotId] <= 1 THEN "malloc" ELSE "head")
  /\ UNCHANGED <<pool, mine, overlap>>

\* if (memoryPool->freeBlockCnt == 0)
CheckCount(t) ==
  /\ Step(t, "count", IF freeBlockCnt[call[t].slotId] = 0 THEN "malloc" ELSE "head")
  /\ UNCHANGED <<pool, mine, overlap>>

ReadHead(t) ==
  /\ call[t].pc = "head"
  /\ call' = [call EXCEPT ![t].pc = "link", ![t].ptr = currMemPtr[call[t].slotId]]
  /\ UNCHANGED <<pool, mine, overlap>>

\* *(uint8_t **)ptr
ReadLink(t) ==
  /\ call[t].pc = "link"
  /\ call' = IF call[t].ptr \in Block
               THEN [call EXCEPT ![t].pc = "unlink", ![t].next = word[call[t].ptr]]
               ELSE [call EXCEPT ![t].pc = "wild"]
  /\ UNCHANGED <<pool, mine, overlap>>

\* Mutant: the list keeps the block that is handed out.
WriteHeadNot(t) ==
  /\ Step(t, "unlink", "load")
  /\ UNCHANGED <<pool, mine, overlap>>

WriteHead(t) ==
  /\ Step(t, "unlink", "load")
  /\ currMemPtr' = [currMemPtr EXCEPT ![call[t].slotId] = call[t].next]
  /\ UNCHANGED <<freeBlockCnt, word, live, mine, overlap>>

\* freeBlockCnt-- is a load and a store.
LoadCount(t) ==
  /\ call[t].pc = "load"
  /\ call' = [call EXCEPT ![t].pc = "store", ![t].cnt = freeBlockCnt[call[t].slotId]]
  /\ UNCHANGED <<pool, mine, overlap>>

\* Mutant: the count goes below zero.
StoreCountSigned(t) ==
  /\ Step(t, "store", "clear")
  /\ freeBlockCnt' = [freeBlockCnt EXCEPT ![call[t].slotId] = call[t].cnt - 1]
  /\ UNCHANGED <<currMemPtr, word, live, mine, overlap>>

StoreCount(t) ==
  /\ Step(t, "store", "clear")
  /\ freeBlockCnt' =
       [freeBlockCnt EXCEPT ![call[t].slotId] = (call[t].cnt + UINT32 - 1) % UINT32]
  /\ UNCHANGED <<currMemPtr, word, live, mine, overlap>>

Takes(t, ptr) ==
  /\ live' = [live EXCEPT ![ptr] = call[t].size]
  /\ mine' = [mine EXCEPT ![t] = @ \cup {<<ptr, call[t].size>>}]
  /\ call' = [call EXCEPT ![t] = NoCall]

Clear(t) ==
  /\ call[t].pc = "clear"
  /\ word' = Memset(call[t].ptr, MEM_BLOCK_SIZE[call[t].slotId])
  /\ Takes(t, call[t].ptr)
  /\ UNCHANGED <<currMemPtr, freeBlockCnt, overlap>>

Malloc(t) ==
  /\ call[t].pc = "malloc"
  /\ \E h \in HeapAddr : live[h] = NotLive /\ Takes(t, h)
  /\ UNCHANGED <<currMemPtr, freeBlockCnt, word, overlap>>

\* KVMalloc answers NULL, and so does KVMemAlloc.
MallocFails(t) ==
  /\ call[t].pc = "malloc"
  /\ call' = [call EXCEPT ![t] = NoCall]
  /\ UNCHANGED <<pool, mine, overlap>>

-----------------------------------------------------------------------------
(* KVMemFree                                                               *)

GivesUp(t, ptr, size) == mine' = [mine EXCEPT ![t] = @ \ {<<ptr, size>>}]

\* Mutant: the list is chosen as if a terminating NUL had to fit as well.
KVMemFreeBeginWithNul(t, ptr, size) ==
  LET slotId == ChooseSlotBlockIdByAllocSize(size + 1)
  IN  /\ call[t].pc = "idle" /\ <<ptr, size>> \in mine[t]
      /\ GivesUp(t, ptr, size)
      /\ IF IsAllocByMemoryPool(ptr) /\ slotId # INVALID_SLOT_INDEX
           THEN /\ call' = [call EXCEPT ![t] =
                     [NoCall EXCEPT !.pc = "freeHead", !.size = size,
                                    !.slotId = slotId, !.ptr = ptr]]
                /\ Enters(slotId, TRUE)
                /\ UNCHANGED live
           ELSE live' = [live EXCEPT ![ptr] = NotLive] /\ UNCHANGED <<call, overlap>>
      /\ UNCHANGED <<currMemPtr, freeBlockCnt, word>>

KVMemFreeBegin(t, ptr, size) ==
  LET slotId == ChooseSlotBlockIdByAllocSize(size)
  IN  /\ call[t].pc = "idle" /\ <<ptr, size>> \in mine[t]
      /\ GivesUp(t, ptr, size)
      /\ IF IsAllocByMemoryPool(ptr)
           THEN /\ call' = [call EXCEPT ![t] =
                     [NoCall EXCEPT !.pc = "freeHead", !.size = size,
                                    !.slotId = slotId, !.ptr = ptr]]
                /\ Enters(slotId, TRUE)
                /\ UNCHANGED live
           ELSE live' = [live EXCEPT ![ptr] = NotLive] /\ UNCHANGED <<call, overlap>>
      /\ UNCHANGED <<currMemPtr, freeBlockCnt, word>>

FreeReadHead(t) ==
  /\ call[t].pc = "freeHead"
  /\ call' = [call EXCEPT ![t].pc = "freeLink", ![t].next = currMemPtr[call[t].slotId]]
  /\ UNCHANGED <<pool, mine, overlap>>

FreeWriteLink(t) ==
  /\ Step(t, "freeLink", "freePush")
  /\ word' = [word EXCEPT ![call[t].ptr] = call[t].next]
  /\ live' = [live EXCEPT ![call[t].ptr] = NotLive]
  /\ UNCHANGED <<currMemPtr, freeBlockCnt, mine, overlap>>

FreeWriteHead(t) ==
  /\ Step(t, "freePush", "freeLoad")
  /\ currMemPtr' = [currMemPtr EXCEPT ![call[t].slotId] = call[t].ptr]
  /\ UNCHANGED <<freeBlockCnt, word, live, mine, overlap>>

FreeLoadCount(t) ==
  /\ call[t].pc = "freeLoad"
  /\ call' = [call EXCEPT ![t].pc = "freeStore", ![t].cnt = freeBlockCnt[call[t].slotId]]
  /\ UNCHANGED <<pool, mine, overlap>>

FreeStoreCount(t) ==
  /\ call[t].pc = "freeStore"
  /\ freeBlockCnt' =
       [freeBlockCnt EXCEPT ![call[t].slotId] = (call[t].cnt + 1) % UINT32]
  /\ call' = [call EXCEPT ![t] = NoCall]
  /\ UNCHANGED <<currMemPtr, word, live, mine, overlap>>

-----------------------------------------------------------------------------

\* The thread fills what it holds.
Fills(t, ptr, size) ==
  /\ call[t].pc = "idle" /\ <<ptr, size>> \in mine[t]
  /\ word' = [b \in Block |-> IF ptr <= b /\ b < ptr + size THEN USER_DATA ELSE word[b]]
  /\ UNCHANGED <<currMemPtr, freeBlockCnt, live, call, mine, overlap>>

Alloc(t) ==
  \/ \E size \in AllocSize : KVMemAllocBegin(t, size)
  \/ CheckCount(t) \/ ReadHead(t) \/ ReadLink(t) \/ WriteHead(t)
  \/ LoadCount(t) \/ StoreCount(t) \/ Clear(t)
  \/ Malloc(t) \/ MallocFails(t)

Release(t) ==
  \/ \E held \in mine[t] : KVMemFreeBegin(t, held[1], held[2])
  \/ FreeReadHead(t) \/ FreeWriteLink(t) \/ FreeWriteHead(t)
  \/ FreeLoadCount(t) \/ FreeStoreCount(t)

Use(t) == \E held \in mine[t] : Fills(t, held[1], held[2])

\* Nothing is said of a process in which a thread follows a wild pointer.
Sane == \A t \in Thread : call[t].pc # "wild"

ThreadsNext == \E t \in Thread : Sane /\ (Alloc(t) \/ Release(t) \/ Use(t))

ThreadsSpec == ThreadsInit /\ [][ThreadsNext]_threadVars

-----------------------------------------------------------------------------
(* Properties                                                              *)

ThreadsTypeOK ==
  /\ currMemPtr \in [Slot -> Block \cup {NULL, USER_DATA}]
  /\ freeBlockCnt \in [Slot -> 0 .. UINT32 - 1]
  /\ word \in [Block -> Block \cup {NULL, USER_DATA}]
  /\ live \in [Addr -> AllocSize \cup {NotLive}]
  /\ mine \in [Thread -> SUBSET (Addr \X AllocSize)]
  /\ overlap \in [Slot -> {"none", "frees", "any"}]
  /\ \A t \in Thread :
       /\ call[t].pc \in AllocPc \cup FreePc \cup {"idle", "wild"}
       /\ call[t].pc \in (AllocPc \ {"malloc"}) \cup FreePc => call[t].slotId \in Slot
       /\ call[t].pc \in {"unlink", "load", "store", "clear"} \cup FreePc
            => call[t].ptr \in Block

\* What the lists of a class are worth while one call is inside: an allocation
\* counts when it has cleared its block, a release when it has written its link.
HeadNow(i) ==
  LET inside == InSlot(i, {"load", "store", "clear", "freePush"})
  IN  IF inside = {} THEN currMemPtr[i] ELSE call[CHOOSE t \in inside : TRUE].ptr

CountNow(i) ==
  IF InSlot(i, {"clear", "freePush", "freeLoad", "freeStore"}) = {}
    THEN freeBlockCnt[i] ELSE (freeBlockCnt[i] + 1) % UINT32

Pool == INSTANCE KVMemory WITH
  currMemPtr   <- [i \in Slot |-> HeadNow(i)],
  freeBlockCnt <- [i \in Slot |-> CountNow(i)]

Calm(i) == overlap[i] = "none"

\* In a class whose calls never overlapped, the list is exact at every access of
\* every thread, whatever races there are in the other classes: those never
\* write a word or a block of this one.
CalmListsExact == \A i \in Slot : Calm(i) => Pool!FreeListExactAt(i)

\* As long as no class has had two calls at once, every access is a step of the
\* pool that one thread sees, or none: threads that keep to classes of their own,
\* or take turns, need no lock.
CallsAreAtomic ==
  [][(\A i \in Slot : Calm(i)')
       => Pool!Next \/ UNCHANGED Pool!vars]_threadVars

\* A block gets into the hands of two threads only after an allocation of its
\* class overlapped another call.  Releases that overlap each other lose blocks
\* and miscount them, but never share one.
SharingNeedsAlloc ==
  \A t, u \in Thread : \A p \in mine[t], q \in mine[u] :
    t # u /\ p[1] = q[1] /\ p[1] \in Block => overlap[PageOf(p[1])] = "any"

=============================================================================
