----------------------------- MODULE MCKVMemory -----------------------------
(***************************************************************************)
(* Two pages: one of four 8-byte blocks, one of two 16-byte blocks.  The   *)
(* sizes asked for lie inside, and at the edge of, the two classes, and    *)
(* above the largest block.                                                *)
(***************************************************************************)
EXTENDS KVMemory

MCBlockSize == [i \in 0 .. 1 |-> 8 * (i + 1)]

=============================================================================
