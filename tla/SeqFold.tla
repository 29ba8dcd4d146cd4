------------------------------ MODULE SeqFold ------------------------------
(***************************************************************************)
(* Loops over sequences.  FoldLeft and SelectSeq, written as functions     *)
(* that recurse on the position, so that proofs can follow them.           *)
(***************************************************************************)
EXTENDS Integers, Sequences

\* FoldLeft, with each intermediate result computed once.
Fold(Op(_, _), base, s) ==
  LET f[i \in 0..Len(s)] == IF i = 0 THEN base
                            ELSE CHOOSE r \in {Op(x, s[i]) : x \in {f[i - 1]}} : TRUE
  IN f[Len(s)]

\* The elements of s that are in S, in order.
Keep(s, S) == Fold(LAMBDA kept, x : IF x \in S THEN Append(kept, x) ELSE kept, <<>>, s)
=============================================================================
