----------------------------- MODULE FoldProofs -----------------------------
(***************************************************************************)
(* Induction over the naturals, and the existence of the function Fold     *)
(* recurses with.  The operator that is folded, with the values it         *)
(* captures as its first argument, is a parameter of the module: each loop *)
(* is an instance of it.                                                   *)
(***************************************************************************)
EXTENDS SeqFold, NaturalsInduction, WellFoundedInduction, TLAPS

CONSTANT Op(_, _, _)

\* f is the function that Fold recurses with.
IsFold(f, e, base, s) ==
  f = [i \in 0..Len(s) |-> IF i = 0 THEN base
         ELSE CHOOSE r \in {Op(e, x, s[i]) : x \in {f[i - 1]}} : TRUE]

\* A set of naturals that is not empty has a least element.
LEMMA LeastNatural ==
  ASSUME NEW T \in SUBSET Nat, T # {}
  PROVE  \E n \in T : \A k \in T : n <= k
<1> DEFINE R == {p \in Nat \X Nat : p[1] < p[2]}
<1>1. IsWellFoundedOn(R, Nat)
  BY NatLessThanWellFounded DEF OpToRel
<1>2. PICK n \in T : \A k \in T : <<k, n>> \notin R
  <2> HIDE DEF R
  <2> QED
    BY <1>1, WFMin
<1>3. \A k \in T : ~(k < n)
  BY <1>2
<1> QED
  BY <1>3

\* Induction over the naturals, for a property given as a set.
LEMMA SetInduction ==
  ASSUME NEW T, 0 \in T, \A n \in Nat : n \in T => n + 1 \in T
  PROVE  Nat \subseteq T
<1> SUFFICES ASSUME Nat \ T # {}
             PROVE  FALSE
  OBVIOUS
<1>1. PICK n \in Nat \ T : \A k \in Nat \ T : n <= k
  BY LeastNatural
<1>2. n # 0 /\ n - 1 \in Nat /\ (n - 1) + 1 = n
  BY <1>1
<1>3. n - 1 \in T
  BY <1>1, <1>2
<1> QED
  BY <1>2, <1>3

\* A value taken from a set of one element is that element.
LEMMA OneValue ==
  ASSUME NEW e, NEW y, NEW x
  PROVE  (CHOOSE r \in {Op(e, a, x) : a \in {y}} : TRUE) = Op(e, y, x)
<1>1. {Op(e, a, x) : a \in {y}} = {Op(e, y, x)}
  OBVIOUS
<1>2. \A r \in {Op(e, y, x)} : r = Op(e, y, x)
  OBVIOUS
<1>3. (CHOOSE r \in {Op(e, a, x) : a \in {y}} : TRUE) \in {Op(e, a, x) : a \in {y}}
  <2>1. \E r : r \in {Op(e, a, x) : a \in {y}}
    BY <1>1
  <2> QED
    BY <2>1
<1> QED
  BY <1>1, <1>3

\* The recursion that Fold stands for has a solution.
THEOREM FoldSolution ==
  ASSUME NEW e, NEW base, NEW s, Len(s) \in Nat
  PROVE  \E f : IsFold(f, e, base, s)
<1> DEFINE Next(y, i) == CHOOSE r \in {Op(e, x, s[i]) : x \in {y}} : TRUE
           Solves(g, k) == g = [i \in 0..k |-> IF i = 0 THEN base ELSE Next(g[i - 1], i)]
           T == {k \in Nat : \E g : Solves(g, k)}
<1>1. 0 \in T
  <2> DEFINE g == [i \in 0..0 |-> base]
  <2> HIDE DEF Next
  <2>1. Solves(g, 0)
    OBVIOUS
  <2> QED
    BY <2>1
<1>2. ASSUME NEW k \in Nat, k \in T
      PROVE  k + 1 \in T
  <2> HIDE DEF Next
  <2>1. PICK g : Solves(g, k)
    BY <1>2
  <2> DEFINE new == Next(g[k], k + 1)
             h == [i \in 0..k + 1 |-> IF i <= k THEN g[i] ELSE new]
  <2>2. (\A i \in 0..k : h[i] = g[i]) /\ h[k + 1] = new
    <3> HIDE DEF new
    <3> QED
      OBVIOUS
  <2>3. ASSUME NEW i \in 0..k + 1
        PROVE  h[i] = IF i = 0 THEN base ELSE Next(h[i - 1], i)
    <3>1. \A l \in 0..k : g[l] = IF l = 0 THEN base ELSE Next(g[l - 1], l)
      BY <2>1
    <3> HIDE DEF h
    <3>2. CASE i = k + 1
      <4>1. k \in 0..k /\ i # 0 /\ i - 1 = k
        BY <3>2
      <4> QED
        BY <2>2, <3>2, <4>1
    <3>3. CASE i \in 0..k /\ i # 0
      <4>1. i - 1 \in 0..k
        BY <3>3
      <4> QED
        BY <2>2, <3>1, <3>3, <4>1
    <3>4. CASE i = 0
      <4>1. 0 \in 0..k
        OBVIOUS
      <4> QED
        BY <2>2, <3>1, <3>4, <4>1
    <3> QED
      BY <3>2, <3>3, <3>4
  <2>4. h = [i \in 0..k + 1 |-> h[i]]
    OBVIOUS
  <2>5. Solves(h, k + 1)
    <3> HIDE DEF h
    <3> QED
      BY <2>3, <2>4
  <2> HIDE DEF h, Solves
  <2>6. \E g2 : Solves(g2, k + 1)
    BY <2>5
  <2> QED
    BY <2>6
<1>3. Len(s) \in T
  <2> HIDE DEF T
  <2> QED
    BY <1>1, <1>2, SetInduction
<1>4. PICK g : Solves(g, Len(s))
  BY <1>3
<1>5. IsFold(g, e, base, s)
  BY <1>4 DEF IsFold
<1> QED
  BY <1>5

\* What such a solution is.
THEOREM FoldValues ==
  ASSUME NEW e, NEW base, NEW s, NEW f, Len(s) \in Nat, IsFold(f, e, base, s)
  PROVE  f[0] = base /\ \A i \in 1..Len(s) : f[i] = Op(e, f[i - 1], s[i])
<1> DEFINE Next(y, i) == CHOOSE r \in {Op(e, x, s[i]) : x \in {y}} : TRUE
<1>1. \A i \in 0..Len(s) : f[i] = IF i = 0 THEN base ELSE Next(f[i - 1], i)
  <2>1. f = [i \in 0..Len(s) |-> IF i = 0 THEN base ELSE Next(f[i - 1], i)]
    BY DEF IsFold
  <2> HIDE DEF Next
  <2> QED
    BY <2>1
<1>2. \A y, i : Next(y, i) = Op(e, y, s[i])
  BY OneValue
<1> HIDE DEF Next
<1>3. 0 \in 0..Len(s) /\ \A i \in 1..Len(s) : i \in 0..Len(s) /\ i # 0
  OBVIOUS
<1> QED
  BY <1>1, <1>2, <1>3
=============================================================================
