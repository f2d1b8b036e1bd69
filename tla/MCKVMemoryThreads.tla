-------------------------- MODULE MCKVMemoryThreads --------------------------
(***************************************************************************)
(* Two threads on two pages: one of two 8-byte blocks and one of a single  *)
(* block of 16 bytes.  A size of each class.                               *)
(***************************************************************************)
EXTENDS KVMemoryThreads, TLC

MCBlockSize == [i \in 0 .. 1 |-> 8 + 8 * i]

ThreadSymmetry == Permutations(Thread)

=============================================================================
