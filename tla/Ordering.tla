----------------------------- MODULE Ordering -----------------------------
(***************************************************************************)
(* The memory orderings of src/src/ordering.rs: the enum, `union` (the     *)
(* ordering a cmpxchg gets from its success and failure orderings), and    *)
(* the classes in which DataFlow::step_pure (src/src/data.rs) treats them. *)
(***************************************************************************)
EXTENDS Naturals

Orderings == {"None", "Relaxed", "Acquire", "Release", "AcqRel", "SeqCst"}

\* Ordering::union: the rows of the match are tried in turn, and each is
\* symmetric in its two arguments.
Union(a, b) ==
  LET any(x) == x \in {a, b}
  IN  IF any("SeqCst") THEN "SeqCst"
      ELSE IF any("AcqRel") \/ {a, b} = {"Acquire", "Release"} THEN "AcqRel"
      ELSE IF any("Acquire") THEN "Acquire"
      ELSE IF any("Release") THEN "Release"
      ELSE IF any("Relaxed") THEN "Relaxed"
      ELSE "None"

\* The arm `Ordering::Acquire | Ordering::AcqRel | Ordering::SeqCst` of step_pure.
AcquireClass == {"Acquire", "AcqRel", "SeqCst"}

\* The orderings that promise a release; step_pure gives only the plain
\* Release a barrier of its own.
ReleaseClass == {"Release", "AcqRel", "SeqCst"}

\* Strength: a is at most as strong as b.  Reference order for Union, not code:
\* None < Relaxed < Acquire, Release < AcqRel < SeqCst.
Rank == [o \in Orderings |->
           CASE o = "None" -> 0 [] o = "Relaxed" -> 1
             [] o \in {"Acquire", "Release"} -> 2
             [] o = "AcqRel" -> 3 [] o = "SeqCst" -> 4]

AtMost(a, b) == a = b \/ Rank[a] < Rank[b]

\* c is the weakest ordering that is at least as strong as a and b.
IsLub(a, b, c) ==
  /\ AtMost(a, c) /\ AtMost(b, c)
  /\ \A d \in Orderings : AtMost(a, d) /\ AtMost(b, d) => AtMost(c, d)
=============================================================================
