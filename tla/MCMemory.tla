----------------------------- MODULE MCMemory -----------------------------
(***************************************************************************)
(* A small instance of Memory: all stores into a few bytes, and            *)
(* allocations of several sizes and alignments.                            *)
(***************************************************************************)
EXTENDS Memory

\* Nothing, less than its alignment, exactly its alignment, more than the guard.
SmallLayouts ==
  {[bytes |-> 0, align |-> 1], [bytes |-> 3, align |-> 4],
   [bytes |-> 8, align |-> 8], [bytes |-> 5, align |-> 2]}
=============================================================================
