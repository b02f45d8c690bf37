--------------------------- MODULE MCBufferAllocator ---------------------------
(* Model values for BufferAllocator: requests of a small block and of two      *)
(* super blocks of different size, so that first fit passes blocks over.       *)
EXTENDS BufferAllocator, TLC

Symmetry == Permutations(Threads) \cup Permutations(Blocks)

MCRequests == {40, 1500, 2000}
===============================================================================
