----------------------------- MODULE MCPthread -----------------------------
(***************************************************************************)
(* Small instances of Pthread, with users who notify only while they hold  *)
(* the mutex and with users who do not care.                               *)
(***************************************************************************)
EXTENDS Pthread, TLC

Symmetry == Permutations(Task) \cup Permutations(MutexId)
=============================================================================
