---------------------------- MODULE MemContract ----------------------------
(***************************************************************************)
(* What the allocator of common/kv_memory.c promises its callers, without  *)
(* its free lists: the only state is which addresses are handed out, and   *)
(* with what size.  A block of the size class is handed out while one is   *)
(* left; only then does the C heap serve the request, or nobody does.      *)
(***************************************************************************)
EXTENDS Integers

CONSTANTS
  Slot,        \* indices of the size classes
  BlockOf(_),  \* the block addresses of a class
  SlotOf(_),   \* the class that serves a size, a non-member of Slot if none
  HeapAddr,    \* addresses malloc can return
  AllocSize,   \* the sizes callers ask for
  NotLive      \* marks an address that is not handed out

VARIABLE live  \* [address -> the size it was handed out with, or NotLive]

Addr == HeapAddr \cup UNION {BlockOf(i) : i \in Slot}

Free(S) == {a \in S : live[a] = NotLive}

Init == live = [a \in Addr |-> NotLive]

Give(a, size) == live' = [live EXCEPT ![a] = size]

\* A pool block: any unused block of the class.
AllocBlock(size) ==
  /\ SlotOf(size) \in Slot
  /\ \E b \in Free(BlockOf(SlotOf(size))) : Give(b, size)

\* The C heap: only once the class has no unused block, or there is none.
AllocHeap(size) ==
  /\ SlotOf(size) \in Slot => Free(BlockOf(SlotOf(size))) = {}
  /\ \E h \in Free(HeapAddr) : Give(h, size)

Release(a) ==
  /\ live[a] # NotLive
  /\ live' = [live EXCEPT ![a] = NotLive]

Next ==
  \/ \E size \in AllocSize : AllocBlock(size) \/ AllocHeap(size)
  \/ \E a \in Addr : Release(a)

Spec == Init /\ [][Next]_live

=============================================================================
