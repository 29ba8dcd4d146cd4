---------------------------- MODULE LinkerProofs ----------------------------
(***************************************************************************)
(* Proofs about loading a program (src/src/compile/module.rs and           *)
(* symbols.rs) and about what its names then stand for, for every program, *)
(* every set of threads and every list of natives that has explode in it.  *)
(* The tables are followed by the meaning that the compiler gives to names *)
(* as it goes (EarlyMeaning), in any program; it is the meaning of the     *)
(* rules of linkage when the aliases are in order.                         *)
(***************************************************************************)
EXTENDS Linker, NaturalsInduction, SequenceTheorems, WellFoundedInduction, TLAPS

-----------------------------------------------------------------------------
(* Induction, and sequences of sequences                                   *)

\* A set of naturals has a least element.
LEMMA LeastNat ==
  ASSUME NEW T \in SUBSET Nat, T # {}
  PROVE  \E n \in T : \A k \in T : n <= k
<1> DEFINE R == {p \in Nat \X Nat : p[1] < p[2]}
<1>1. IsWellFoundedOn(R, Nat)
  BY NatLessThanWellFounded DEF OpToRel
<1>2. PICK n \in T : \A k \in T : <<k, n>> \notin R
  <2> HIDE DEF R
  <2> QED
    BY <1>1, WFMin
<1>3. \A k \in T : ~(k < n)
  BY <1>2
<1> QED
  BY <1>3

LEMMA MinFacts ==
  ASSUME NEW T \in SUBSET Nat, T # {}
  PROVE  Min(T) \in T /\ \A k \in T : Min(T) <= k
BY LeastNat DEF Min

\* Induction over the naturals, for a property given as a set.
LEMMA NatSetInduction ==
  ASSUME NEW T, 0 \in T, \A n \in Nat : n \in T => n + 1 \in T
  PROVE  Nat \subseteq T
<1> SUFFICES ASSUME Nat \ T # {}
             PROVE  FALSE
  OBVIOUS
<1>1. PICK n \in Nat \ T : \A k \in Nat \ T : n <= k
  BY LeastNat
<1>2. n # 0 /\ n - 1 \in Nat /\ (n - 1) + 1 = n
  BY <1>1
<1>3. n - 1 \in T
  BY <1>1, <1>2
<1> QED
  BY <1>2, <1>3

\* No element comes twice.
Distinct(s) == \A i, j \in 1..Len(s) : s[i] = s[j] => i = j

\* Concatenation keeps the elements, and keeps them apart if they are.
LEMMA ConcatFacts ==
  ASSUME NEW S, NEW s \in Seq(S), NEW t \in Seq(S)
  PROVE  /\ s \o t \in Seq(S) /\ Len(s \o t) = Len(s) + Len(t)
         /\ \A i \in 1..Len(s) : (s \o t)[i] = s[i]
         /\ \A i \in 1..Len(t) : (s \o t)[Len(s) + i] = t[i]
         /\ \A i \in 1..(Len(s) + Len(t)) : i \in 1..Len(s) \/ i - Len(s) \in 1..Len(t)
         /\ Distinct(s) /\ Distinct(t) /\ (\A i \in 1..Len(s), j \in 1..Len(t) : s[i] # t[j])
              => Distinct(s \o t)
<1>1. /\ s \o t \in Seq(S) /\ Len(s \o t) = Len(s) + Len(t) /\ Len(s) \in Nat /\ Len(t) \in Nat
      /\ \A i \in 1..Len(s) : (s \o t)[i] = s[i]
      /\ \A i \in 1..Len(t) : (s \o t)[Len(s) + i] = t[i]
  BY ConcatProperties
<1>2. \A i \in 1..(Len(s) + Len(t)) : i \in 1..Len(s) \/ i - Len(s) \in 1..Len(t)
  BY <1>1
<1>3. ASSUME Distinct(s), Distinct(t), \A i \in 1..Len(s), j \in 1..Len(t) : s[i] # t[j]
      PROVE  Distinct(s \o t)
  <2> SUFFICES ASSUME NEW i \in 1..(Len(s) + Len(t)), NEW j \in 1..(Len(s) + Len(t)),
                      (s \o t)[i] = (s \o t)[j]
               PROVE  i = j
    BY <1>1 DEF Distinct
  <2> DEFINE q == s \o t
  <2>1. ASSUME NEW l \in 1..(Len(s) + Len(t))
        PROVE  \/ l \in 1..Len(s) /\ q[l] = s[l]
               \/ l - Len(s) \in 1..Len(t) /\ q[l] = t[l - Len(s)]
    <3>1. CASE l \in 1..Len(s)
      BY <1>1, <3>1
    <3>2. CASE l - Len(s) \in 1..Len(t)
      <4>1. Len(s) + (l - Len(s)) = l
        BY <1>1
      <4> QED
        BY <1>1, <3>2, <4>1
    <3> QED
      BY <1>2, <3>1, <3>2
  <2>2. q[i] = q[j]
    OBVIOUS
  <2> HIDE DEF q
  <2>3. CASE i \in 1..Len(s) /\ q[i] = s[i]
    BY <2>1, <2>2, <2>3, <1>3 DEF Distinct
  <2>4. CASE i - Len(s) \in 1..Len(t) /\ q[i] = t[i - Len(s)]
    <3>1. j - Len(s) \in 1..Len(t) /\ q[j] = t[j - Len(s)]
      BY <2>1, <2>2, <2>4, <1>3
    <3>2. i - Len(s) = j - Len(s)
      BY <2>2, <2>4, <3>1, <1>3 DEF Distinct
    <3> QED
      BY <3>2, <1>1
  <2> QED
    BY <2>1, <2>3, <2>4
<1> QED
  BY <1>1, <1>2, <1>3

\* The steps of FlattenSeq: the first k sequences, joined.
LEMMA FlattenSteps ==
  ASSUME NEW ss, Len(ss) \in Nat, Len(ss) # 0
  PROVE  \E f : /\ f[1] = ss[1]
                /\ \A i \in 2..Len(ss) : f[i] = f[i - 1] \o ss[i]
                /\ FlattenSeq(ss) = f[Len(ss)]
<1> DEFINE n == Len(ss)
           Steps(g, k) == g = [i \in 1..k |-> IF i = 1 THEN ss[i] ELSE g[i - 1] \o ss[i]]
           T == {k \in Nat : \E g : Steps(g, k)}
<1>1. 0 \in T
  <2>1. Steps([i \in 1..0 |-> ss], 0)
    OBVIOUS
  <2> QED
    BY <2>1
<1>2. ASSUME NEW k \in Nat, k \in T
      PROVE  k + 1 \in T
  <2>1. PICK g : Steps(g, k)
    BY <1>2
  <2> DEFINE new == IF k = 0 THEN ss[1] ELSE g[k] \o ss[k + 1]
             h == [i \in 1..k + 1 |-> IF i <= k THEN g[i] ELSE new]
  <2>2. (\A i \in 1..k : h[i] = g[i]) /\ h[k + 1] = new
    <3> HIDE DEF new
    <3> QED
      OBVIOUS
  <2>3. ASSUME NEW i \in 1..k + 1
        PROVE  h[i] = IF i = 1 THEN ss[i] ELSE h[i - 1] \o ss[i]
    <3>1. \A l \in 1..k : g[l] = IF l = 1 THEN ss[l] ELSE g[l - 1] \o ss[l]
      BY <2>1
    <3> HIDE DEF h
    <3>2. CASE i = k + 1 /\ k = 0
      BY <2>2, <3>2
    <3>3. CASE i = k + 1 /\ k # 0
      <4>1. k \in 1..k /\ i # 1 /\ i - 1 = k
        BY <3>3
      <4> QED
        BY <2>2, <3>3, <4>1
    <3>4. CASE i \in 1..k /\ i # 1
      <4>1. i - 1 \in 1..k
        BY <3>4
      <4> QED
        BY <2>2, <3>1, <3>4, <4>1
    <3>5. CASE i \in 1..k /\ i = 1
      BY <2>2, <3>1, <3>5
    <3> QED
      BY <3>2, <3>3, <3>4, <3>5
  <2>4. h = [i \in 1..k + 1 |-> h[i]]
    OBVIOUS
  <2>5. Steps(h, k + 1)
    <3> HIDE DEF h
    <3> QED
      BY <2>3, <2>4
  <2> HIDE DEF h, Steps
  <2>6. \E e : Steps(e, k + 1)
    BY <2>5
  <2> QED
    BY <2>6
<1>3. \E g : Steps(g, n)
  <2>1. n \in T
    <3> HIDE DEF T
    <3> QED
      BY <1>1, <1>2, NatSetInduction
  <2> QED
    BY <2>1
<1> DEFINE f == CHOOSE g : Steps(g, n)
<1>4. Steps(f, n)
  BY <1>3
<1>5. FlattenSeq(ss) = f[n]
  BY DEF FlattenSeq
<1> HIDE DEF f
<1>6. f[1] = ss[1] /\ \A i \in 2..n : f[i] = f[i - 1] \o ss[i]
  <2>1. \A i \in 1..n : f[i] = IF i = 1 THEN ss[i] ELSE f[i - 1] \o ss[i]
    BY <1>4
  <2>2. 1 \in 1..n /\ \A i \in 2..n : i \in 1..n /\ i # 1
    OBVIOUS
  <2> HIDE DEF n
  <2> QED
    BY <2>1, <2>2
<1> QED
  BY <1>5, <1>6

\* FlattenSeq has the elements of its sequences, and keeps them apart.
LEMMA FlattenFacts ==
  ASSUME NEW S, NEW ss \in Seq(Seq(S))
  PROVE  LET q == FlattenSeq(ss)
         IN /\ q \in Seq(S)
            /\ \A j \in 1..Len(q) : \E m \in 1..Len(ss) : \E i \in 1..Len(ss[m]) : q[j] = ss[m][i]
            /\ \A m \in 1..Len(ss) : \A i \in 1..Len(ss[m]) : \E j \in 1..Len(q) : q[j] = ss[m][i]
            /\ (\A m, n \in 1..Len(ss) : \A i \in 1..Len(ss[m]), j \in 1..Len(ss[n]) :
                  ss[m][i] = ss[n][j] => m = n /\ i = j) => Distinct(q)
<1> DEFINE Apart == \A m, n \in 1..Len(ss) : \A i \in 1..Len(ss[m]), j \in 1..Len(ss[n]) :
                      ss[m][i] = ss[n][j] => m = n /\ i = j
           Joined(q, k) ==
             /\ q \in Seq(S)
             /\ \A j \in 1..Len(q) : \E m \in 1..k : \E i \in 1..Len(ss[m]) : q[j] = ss[m][i]
             /\ \A m \in 1..k : \A i \in 1..Len(ss[m]) : \E j \in 1..Len(q) : q[j] = ss[m][i]
             /\ Apart => Distinct(q)
<1> SUFFICES Joined(FlattenSeq(ss), Len(ss))
  OBVIOUS
<1>1. Len(ss) \in Nat /\ \A m \in 1..Len(ss) : ss[m] \in Seq(S) /\ Len(ss[m]) \in Nat
  OBVIOUS
<1>2. CASE Len(ss) = 0
  <2>1. FlattenSeq(ss) = ss /\ ss = <<>> /\ ss \in Seq(S)
    BY <1>2 DEF FlattenSeq
  <2> QED
    BY <1>2, <2>1 DEF Distinct
<1>3. CASE Len(ss) # 0
  <2>1. PICK f : /\ f[1] = ss[1]
                 /\ \A i \in 2..Len(ss) : f[i] = f[i - 1] \o ss[i]
                 /\ FlattenSeq(ss) = f[Len(ss)]
    BY <1>1, <1>3, FlattenSteps
  <2> DEFINE T == {k \in Nat : k + 1 \in 1..Len(ss) => Joined(f[k + 1], k + 1)}
  <2>2. 0 \in T
    <3>1. ss[1] \in Seq(S) /\ Len(ss[1]) \in Nat /\ 1 \in 1..Len(ss)
      BY <1>1, <1>3
    <3>2. Joined(ss[1], 1)
      <4>1. Apart => Distinct(ss[1])
        BY <3>1 DEF Distinct
      <4> HIDE DEF Apart
      <4> QED
        BY <3>1, <4>1
    <3> HIDE DEF Joined
    <3> QED
      BY <2>1, <3>2
  <2>3. ASSUME NEW k \in Nat, k \in T
        PROVE  k + 1 \in T
    <3> SUFFICES ASSUME k + 2 \in 1..Len(ss)
                 PROVE  Joined(f[k + 2], k + 2)
      OBVIOUS
    <3> DEFINE l == k + 2
               q == f[k + 1]
               r == ss[k + 2]
    <3>1. Joined(q, k + 1) /\ k + 1 \in 1..Len(ss)
      <4>1. k + 1 \in 1..Len(ss)
        BY <1>1
      <4> HIDE DEF Joined
      <4> QED
        BY <2>3, <4>1
    <3>2. f[l] = q \o r /\ r \in Seq(S) /\ l \in 1..Len(ss)
      <4>1. l \in 2..Len(ss) /\ l - 1 = k + 1
        BY <1>1
      <4> QED
        BY <2>1, <4>1, <1>1
    <3>3. q \in Seq(S) /\ Len(q) \in Nat /\ Len(r) \in Nat
      BY <3>1, <3>2
    <3>4. 1..l = (1..(k + 1)) \cup {l}
      OBVIOUS
    <3> DEFINE b == q \o r
    <3>5. /\ b \in Seq(S) /\ Len(b) = Len(q) + Len(r)
          /\ \A i \in 1..Len(q) : b[i] = q[i]
          /\ \A i \in 1..Len(r) : b[Len(q) + i] = r[i]
          /\ \A i \in 1..(Len(q) + Len(r)) : i \in 1..Len(q) \/ i - Len(q) \in 1..Len(r)
          /\ Distinct(q) /\ Distinct(r) /\ (\A i \in 1..Len(q), j \in 1..Len(r) : q[i] # r[j])
               => Distinct(b)
      BY <3>2, <3>3, ConcatFacts
    <3>6. f[l] = b /\ ss[l] = r /\ l \in 1..l
      BY <3>2
    <3> HIDE DEF b, q, r, l
    <3>7. ASSUME NEW j \in 1..Len(b)
          PROVE  \E m \in 1..l : \E i \in 1..Len(ss[m]) : b[j] = ss[m][i]
      <4>1. CASE j \in 1..Len(q)
        <5>1. PICK m \in 1..(k + 1) : \E i \in 1..Len(ss[m]) : q[j] = ss[m][i]
          BY <3>1, <4>1
        <5> QED
          BY <3>4, <3>5, <4>1, <5>1
      <4>2. CASE j - Len(q) \in 1..Len(r)
        <5>1. Len(q) + (j - Len(q)) = j
          BY <3>3, <3>5
        <5>2. b[j] = r[j - Len(q)]
          BY <3>5, <4>2, <5>1
        <5> QED
          BY <3>6, <4>2, <5>2
      <4> QED
        BY <3>5, <4>1, <4>2
    <3>8. ASSUME NEW m \in 1..l, NEW i \in 1..Len(ss[m])
          PROVE  \E j \in 1..Len(b) : b[j] = ss[m][i]
      <4>1. CASE m \in 1..(k + 1)
        <5>1. PICK j \in 1..Len(q) : q[j] = ss[m][i]
          BY <3>1, <4>1
        <5>2. j \in 1..Len(b) /\ b[j] = q[j]
          BY <3>3, <3>5
        <5> QED
          BY <5>1, <5>2
      <4>2. CASE m = l
        <5>1. i \in 1..Len(r) /\ r[i] = ss[m][i]
          BY <3>6, <4>2
        <5>2. Len(q) + i \in 1..Len(b) /\ b[Len(q) + i] = r[i]
          BY <3>3, <3>5, <5>1
        <5> QED
          BY <5>1, <5>2
      <4> QED
        BY <3>4, <4>1, <4>2
    <3>9. ASSUME Apart
          PROVE  Distinct(b)
      <4>1. Distinct(q)
        BY <3>1, <3>9
      <4>2. Distinct(r)
        BY <3>2, <3>6, <3>9 DEF Distinct
      <4>3. ASSUME NEW i \in 1..Len(q), NEW j \in 1..Len(r)
            PROVE  q[i] # r[j]
        <5>1. PICK m \in 1..(k + 1) : \E u \in 1..Len(ss[m]) : q[i] = ss[m][u]
          BY <3>1
        <5>2. PICK u \in 1..Len(ss[m]) : q[i] = ss[m][u]
          BY <5>1
        <5>3. m \in 1..Len(ss) /\ m # l /\ l \in 1..Len(ss)
          BY <1>1 DEF l
        <5>4. ss[m][u] # ss[l][j]
          BY <5>3, <3>6, <3>9
        <5> QED
          BY <5>2, <5>4, <3>6
      <4> QED
        BY <3>5, <4>1, <4>2, <4>3
    <3> HIDE DEF Apart
    <3>10. Joined(b, l)
      BY <3>5, <3>7, <3>8, <3>9
    <3> QED
      BY <3>6, <3>10 DEF l
  <2>4. (Len(ss) - 1) + 1 = Len(ss) /\ Len(ss) - 1 \in Nat /\ Len(ss) \in 1..Len(ss)
    BY <1>1, <1>3
  <2>5. Len(ss) - 1 \in T
    <3> HIDE DEF T
    <3> QED
      BY <2>2, <2>3, <2>4, NatSetInduction
  <2> HIDE DEF Joined
  <2> QED
    BY <2>1, <2>4, <2>5
<1> QED
  BY <1>2, <1>3

-----------------------------------------------------------------------------
(* The order of compile_modules                                            *)

At(kind, m, i) == [k |-> kind, m |-> m, i |-> i]
Kinds == {"native", "func", "global", "alias", "define", "init", "main"}
Ats == [k : Kinds, m : Nat, i : Nat]

\* What the first passes declare: a global without initializer is passed over.
Declares(p, x) ==
  \/ \E i \in DOMAIN Natives : x = At("native", NoModule, i)
  \/ \E m \in DOMAIN p : \E i \in DOMAIN p[m].funcs : x = At("func", m, i)
  \/ \E m \in DOMAIN p : \E i \in DOMAIN p[m].globals : x = At("global", m, i)

\* What the last passes define.
Defines(p, x) ==
  \/ \E m \in DOMAIN p : \E i \in DOMAIN p[m].funcs : x = At("define", m, i)
  \/ \E m \in DOMAIN p : \E i \in DOMAIN p[m].globals : x = At("init", m, i)

\* An item is what it is made of.
LEMMA AtFacts ==
  ASSUME NEW kind, NEW m, NEW i
  PROVE  /\ At(kind, m, i).k = kind /\ At(kind, m, i).m = m /\ At(kind, m, i).i = i
         /\ \A l, n, j : At(kind, m, i) = At(l, n, j) => kind = l /\ m = n /\ i = j
BY DEF At

\* The parts of a program are sequences.
LEMMA ProgramFacts ==
  ASSUME NEW p \in Programs
  PROVE  /\ p \in Seq(Modules) /\ DOMAIN p = 1..Len(p) /\ Len(p) \in Nat
         /\ \A m \in DOMAIN p :
              /\ p[m].funcs \in Seq([name : STRING, linkage : STRING, refs : Seq(STRING)])
              /\ p[m].globals \in
                   Seq([name : STRING, linkage : STRING, tl : BOOLEAN, init : Constants])
              /\ p[m].aliases \in Seq([name : STRING, linkage : STRING, target : STRING])
<1>1. p \in Seq(Modules) /\ DOMAIN p = 1..Len(p) /\ Len(p) \in Nat
  BY LinkerAssumption
<1>2. \A m \in DOMAIN p : p[m] \in Modules
  BY <1>1
<1> QED
  BY <1>1, <1>2 DEF Modules

\* A function on 1..n is a sequence.
LEMMA FunctionIsSeq ==
  ASSUME NEW S, NEW n \in Nat, NEW f \in [1..n -> S]
  PROVE  f \in Seq(S) /\ Len(f) = n
<1>1. f \in Seq(S)
  BY SeqDef
<1>2. DOMAIN f = 1..n /\ DOMAIN f = 1..Len(f) /\ Len(f) \in Nat
  BY <1>1, LenProperties
<1> QED
  BY <1>1, <1>2

\* One pass over the objects of one kind in a module.
LEMMA EachFacts ==
  ASSUME NEW S, NEW s \in Seq(S), NEW kind \in Kinds, NEW m \in Nat
  PROVE  /\ Each(kind, m, s) \in Seq(Ats) /\ Len(Each(kind, m, s)) = Len(s)
         /\ DOMAIN s = 1..Len(s) /\ Len(s) \in Nat
         /\ \A i \in 1..Len(s) : Each(kind, m, s)[i] = At(kind, m, i)
<1>1. DOMAIN s = 1..Len(s) /\ Len(s) \in Nat
  OBVIOUS
<1>2. Each(kind, m, s) = [i \in 1..Len(s) |-> At(kind, m, i)]
  BY <1>1 DEF Each, At
<1>3. \A i \in 1..Len(s) : At(kind, m, i) \in Ats
  BY <1>1 DEF At, Ats
<1>4. Each(kind, m, s) \in [1..Len(s) -> Ats]
  BY <1>2, <1>3
<1>5. Each(kind, m, s) \in Seq(Ats) /\ Len(Each(kind, m, s)) = Len(s)
  BY <1>1, <1>4, FunctionIsSeq
<1> QED
  BY <1>1, <1>2, <1>5

\* One pass over the objects of one kind in all modules.
Pass(kind, g) == FlattenSeq([m \in DOMAIN g |-> Each(kind, m, g[m])])

\* It comes to every one of them.
LEMMA PassFacts ==
  ASSUME NEW S, NEW g \in Seq(Seq(S)), NEW kind \in Kinds
  PROVE  LET q == Pass(kind, g)
         IN /\ q \in Seq(Ats)
            /\ \A j \in 1..Len(q) : \E m \in DOMAIN g : \E i \in DOMAIN g[m] : q[j] = At(kind, m, i)
            /\ \A m \in DOMAIN g : \A i \in DOMAIN g[m] : \E j \in 1..Len(q) : q[j] = At(kind, m, i)
<1> DEFINE ss == [m \in DOMAIN g |-> Each(kind, m, g[m])]
           q == FlattenSeq(ss)
<1>1. DOMAIN g = 1..Len(g) /\ Len(g) \in Nat /\ \A m \in DOMAIN g : g[m] \in Seq(S) /\ m \in Nat
  OBVIOUS
<1>2. ASSUME NEW m \in DOMAIN g
      PROVE  /\ ss[m] \in Seq(Ats) /\ DOMAIN g[m] = 1..Len(ss[m])
             /\ \A i \in 1..Len(ss[m]) : ss[m][i] = At(kind, m, i)
  <2>1. g[m] \in Seq(S) /\ m \in Nat /\ ss[m] = Each(kind, m, g[m])
    BY <1>1
  <2> DEFINE e == Each(kind, m, g[m])
  <2>2. /\ e \in Seq(Ats) /\ Len(e) = Len(g[m]) /\ DOMAIN g[m] = 1..Len(g[m])
        /\ \A i \in 1..Len(g[m]) : e[i] = At(kind, m, i)
    BY <2>1, EachFacts
  <2> HIDE DEF ss, e
  <2>3. ss[m] = e
    BY <2>1 DEF e
  <2> QED
    BY <2>2, <2>3
<1>3. ss \in Seq(Seq(Ats)) /\ Len(ss) = Len(g)
  <2>1. ss \in [1..Len(g) -> Seq(Ats)]
    BY <1>1, <1>2
  <2> QED
    BY <1>1, <2>1, FunctionIsSeq
<1> HIDE DEF ss
<1>4. /\ q \in Seq(Ats)
      /\ \A j \in 1..Len(q) : \E m \in 1..Len(ss) : \E i \in 1..Len(ss[m]) : q[j] = ss[m][i]
      /\ \A m \in 1..Len(ss) : \A i \in 1..Len(ss[m]) : \E j \in 1..Len(q) : q[j] = ss[m][i]
  BY <1>3, FlattenFacts
<1> HIDE DEF q
<1>5. ASSUME NEW j \in 1..Len(q)
      PROVE  \E m \in DOMAIN g : \E i \in DOMAIN g[m] : q[j] = At(kind, m, i)
  <2>1. PICK m \in 1..Len(ss) : \E i \in 1..Len(ss[m]) : q[j] = ss[m][i]
    BY <1>4
  <2> QED
    BY <1>1, <1>2, <1>3, <2>1
<1>6. ASSUME NEW m \in DOMAIN g, NEW i \in DOMAIN g[m]
      PROVE  \E j \in 1..Len(q) : q[j] = At(kind, m, i)
  <2>1. m \in 1..Len(ss) /\ i \in 1..Len(ss[m]) /\ ss[m][i] = At(kind, m, i)
    BY <1>1, <1>2, <1>3
  <2>2. \E j \in 1..Len(q) : q[j] = ss[m][i]
    BY <1>4, <2>1
  <2> QED
    BY <2>1, <2>2
<1> QED
  BY <1>4, <1>5, <1>6 DEF q, ss, Pass

\* The functions and globals of a module.
LEMMA ModuleFacts ==
  ASSUME NEW p \in Programs, NEW m \in DOMAIN p
  PROVE  LET e == Each("func", m, p[m].funcs) \o Each("global", m, p[m].globals)
         IN /\ e \in Seq(Ats)
            /\ \A j \in 1..Len(e) : \/ \E i \in DOMAIN p[m].funcs : e[j] = At("func", m, i)
                                    \/ \E i \in DOMAIN p[m].globals : e[j] = At("global", m, i)
            /\ \A i \in DOMAIN p[m].funcs : \E j \in 1..Len(e) : e[j] = At("func", m, i)
            /\ \A i \in DOMAIN p[m].globals : \E j \in 1..Len(e) : e[j] = At("global", m, i)
            /\ \A j \in 1..Len(e) : e[j].m = m
            /\ Distinct(e)
<1> DEFINE f == Each("func", m, p[m].funcs)
           g == Each("global", m, p[m].globals)
           nf == Len(f)
           ng == Len(g)
           e == f \o g
<1>1. m \in Nat
  BY ProgramFacts
<1>2. /\ f \in Seq(Ats) /\ nf \in Nat /\ DOMAIN p[m].funcs = 1..nf
      /\ \A i \in 1..nf : f[i] = At("func", m, i)
  <2> DEFINE S == [name : STRING, linkage : STRING, refs : Seq(STRING)]
  <2>1. p[m].funcs \in Seq(S)
    BY ProgramFacts
  <2> HIDE DEF S
  <2>2. /\ f \in Seq(Ats) /\ Len(f) = Len(p[m].funcs)
        /\ DOMAIN p[m].funcs = 1..Len(p[m].funcs) /\ Len(p[m].funcs) \in Nat
        /\ \A i \in 1..Len(p[m].funcs) : f[i] = At("func", m, i)
    <3>1. "func" \in Kinds
      BY DEF Kinds
    <3> QED
      BY <1>1, <2>1, <3>1, EachFacts
  <2> HIDE DEF f
  <2> QED
    BY <2>2
<1>3. /\ g \in Seq(Ats) /\ ng \in Nat /\ DOMAIN p[m].globals = 1..ng
      /\ \A i \in 1..ng : g[i] = At("global", m, i)
  <2> DEFINE S == [name : STRING, linkage : STRING, tl : BOOLEAN, init : Constants]
  <2>1. p[m].globals \in Seq(S)
    BY ProgramFacts
  <2> HIDE DEF S
  <2>2. /\ g \in Seq(Ats) /\ Len(g) = Len(p[m].globals)
        /\ DOMAIN p[m].globals = 1..Len(p[m].globals) /\ Len(p[m].globals) \in Nat
        /\ \A i \in 1..Len(p[m].globals) : g[i] = At("global", m, i)
    <3>1. "global" \in Kinds
      BY DEF Kinds
    <3> QED
      BY <1>1, <2>1, <3>1, EachFacts
  <2> HIDE DEF g
  <2> QED
    BY <2>2
<1> HIDE DEF f, g
<1>4. Distinct(f) /\ Distinct(g) /\ \A i \in 1..nf, j \in 1..ng : f[i] # g[j]
  BY <1>2, <1>3, AtFacts DEF Distinct
<1>5. /\ e \in Seq(Ats) /\ Len(e) = nf + ng
      /\ \A i \in 1..nf : e[i] = f[i]
      /\ \A i \in 1..ng : e[nf + i] = g[i]
      /\ \A i \in 1..(nf + ng) : i \in 1..nf \/ i - nf \in 1..ng
      /\ Distinct(e)
  BY <1>2, <1>3, <1>4, ConcatFacts
<1> HIDE DEF e, nf, ng
<1>6. ASSUME NEW j \in 1..Len(e)
      PROVE  /\ \/ \E i \in DOMAIN p[m].funcs : e[j] = At("func", m, i)
                \/ \E i \in DOMAIN p[m].globals : e[j] = At("global", m, i)
             /\ e[j].m = m
  <2>1. CASE j \in 1..nf
    <3>1. e[j] = At("func", m, j)
      BY <1>2, <1>5, <2>1
    <3> QED
      BY <1>2, <2>1, <3>1 DEF At
  <2>2. CASE j - nf \in 1..ng
    <3>1. nf + (j - nf) = j
      BY <1>2, <1>3, <1>5
    <3>2. e[j] = At("global", m, j - nf)
      BY <1>3, <1>5, <2>2, <3>1
    <3> QED
      BY <1>3, <2>2, <3>2 DEF At
  <2> QED
    BY <1>5, <2>1, <2>2
<1>7. ASSUME NEW i \in DOMAIN p[m].funcs
      PROVE  \E j \in 1..Len(e) : e[j] = At("func", m, i)
  <2>1. i \in 1..Len(e) /\ e[i] = At("func", m, i)
    BY <1>2, <1>3, <1>5
  <2> QED
    BY <2>1
<1>8. ASSUME NEW i \in DOMAIN p[m].globals
      PROVE  \E j \in 1..Len(e) : e[j] = At("global", m, i)
  <2>1. i \in 1..ng /\ nf + i \in 1..Len(e)
    BY <1>2, <1>3, <1>5
  <2>2. e[nf + i] = At("global", m, i)
    BY <1>3, <1>5, <2>1
  <2> QED
    BY <2>1, <2>2
<1> QED
  BY <1>5, <1>6, <1>7, <1>8 DEF e, f, g

\* The first two passes declare every object, once.
LEMMA DeclarationsFacts ==
  ASSUME NEW p \in Programs
  PROVE  LET d == Declarations(p)
         IN /\ d \in Seq(Ats) /\ Distinct(d)
            /\ \A j \in 1..Len(d) : Declares(p, d[j])
            /\ \A x : Declares(p, x) => \E j \in 1..Len(d) : d[j] = x
<1> DEFINE nat == Each("native", NoModule, Natives)
           ss == [m \in DOMAIN p |->
                    Each("func", m, p[m].funcs) \o Each("global", m, p[m].globals)]
           q == FlattenSeq(ss)
           d == nat \o q
<1>1. DOMAIN p = 1..Len(p) /\ Len(p) \in Nat
  BY ProgramFacts
<1>2. /\ nat \in Seq(Ats) /\ Len(nat) \in Nat /\ DOMAIN Natives = 1..Len(nat)
      /\ \A i \in 1..Len(nat) : nat[i] = At("native", NoModule, i)
  <2>1. Natives \in Seq(STRING) /\ NoModule \in Nat
    BY LinkerAssumption DEF NoModule
  <2>2. /\ nat \in Seq(Ats) /\ Len(nat) = Len(Natives)
        /\ DOMAIN Natives = 1..Len(Natives) /\ Len(Natives) \in Nat
        /\ \A i \in 1..Len(Natives) : nat[i] = At("native", NoModule, i)
    <3>1. "native" \in Kinds
      BY DEF Kinds
    <3> QED
      BY <2>1, <3>1, EachFacts
  <2> HIDE DEF nat
  <2> QED
    BY <2>2
<1>3. ASSUME NEW m \in DOMAIN p
      PROVE  /\ ss[m] \in Seq(Ats)
             /\ \A j \in 1..Len(ss[m]) :
                  \/ \E i \in DOMAIN p[m].funcs : ss[m][j] = At("func", m, i)
                  \/ \E i \in DOMAIN p[m].globals : ss[m][j] = At("global", m, i)
             /\ \A i \in DOMAIN p[m].funcs : \E j \in 1..Len(ss[m]) : ss[m][j] = At("func", m, i)
             /\ \A i \in DOMAIN p[m].globals : \E j \in 1..Len(ss[m]) : ss[m][j] = At("global", m, i)
             /\ \A j \in 1..Len(ss[m]) : ss[m][j].m = m
             /\ Distinct(ss[m])
  <2>1. ss[m] = Each("func", m, p[m].funcs) \o Each("global", m, p[m].globals)
    OBVIOUS
  <2> HIDE DEF ss
  <2> QED
    BY <2>1, ModuleFacts
<1>4. ss \in Seq(Seq(Ats)) /\ Len(ss) = Len(p)
  <2>1. ss \in [1..Len(p) -> Seq(Ats)]
    BY <1>1, <1>3
  <2> QED
    BY <1>1, <2>1, FunctionIsSeq
<1> HIDE DEF nat, ss
<1>5. \A m, n \in 1..Len(ss) : \A i \in 1..Len(ss[m]), j \in 1..Len(ss[n]) :
        ss[m][i] = ss[n][j] => m = n /\ i = j
  <2> SUFFICES ASSUME NEW m \in 1..Len(ss), NEW n \in 1..Len(ss),
                      NEW i \in 1..Len(ss[m]), NEW j \in 1..Len(ss[n]), ss[m][i] = ss[n][j]
               PROVE  m = n /\ i = j
    OBVIOUS
  <2>1. m \in DOMAIN p /\ n \in DOMAIN p
    BY <1>1, <1>4
  <2>2. ss[m][i].m = m /\ ss[n][j].m = n /\ Distinct(ss[m])
    BY <1>3, <2>1
  <2> QED
    BY <2>2 DEF Distinct
<1>6. /\ q \in Seq(Ats)
      /\ \A j \in 1..Len(q) : \E m \in 1..Len(ss) : \E i \in 1..Len(ss[m]) : q[j] = ss[m][i]
      /\ \A m \in 1..Len(ss) : \A i \in 1..Len(ss[m]) : \E j \in 1..Len(q) : q[j] = ss[m][i]
      /\ Distinct(q)
  <2>1. ss \in Seq(Seq(Ats))
    BY <1>4
  <2>2. LET r == FlattenSeq(ss)
        IN /\ r \in Seq(Ats)
           /\ \A j \in 1..Len(r) : \E m \in 1..Len(ss) : \E i \in 1..Len(ss[m]) : r[j] = ss[m][i]
           /\ \A m \in 1..Len(ss) : \A i \in 1..Len(ss[m]) : \E j \in 1..Len(r) : r[j] = ss[m][i]
           /\ (\A m, n \in 1..Len(ss) : \A i \in 1..Len(ss[m]), j \in 1..Len(ss[n]) :
                 ss[m][i] = ss[n][j] => m = n /\ i = j) => Distinct(r)
    BY <2>1, FlattenFacts, Zenon
  <2> QED
    BY <1>5, <2>2
<1> HIDE DEF q
<1>7. ASSUME NEW j \in 1..Len(q)
      PROVE  /\ \/ \E m \in DOMAIN p : \E i \in DOMAIN p[m].funcs : q[j] = At("func", m, i)
                \/ \E m \in DOMAIN p : \E i \in DOMAIN p[m].globals : q[j] = At("global", m, i)
  <2>1. PICK m \in 1..Len(ss) : \E i \in 1..Len(ss[m]) : q[j] = ss[m][i]
    BY <1>6
  <2>2. PICK i \in 1..Len(ss[m]) : q[j] = ss[m][i]
    BY <2>1
  <2>3. m \in DOMAIN p
    BY <1>1, <1>4
  <2> QED
    BY <1>3, <2>2, <2>3
<1>8. Distinct(nat) /\ \A i \in 1..Len(nat), j \in 1..Len(q) : nat[i] # q[j]
  <2>1. Distinct(nat) /\ \A i \in 1..Len(nat) : nat[i].k = "native"
    BY <1>2, AtFacts DEF Distinct
  <2>2. \A j \in 1..Len(q) : q[j].k # "native"
    BY <1>7, AtFacts
  <2> QED
    BY <2>1, <2>2
<1>9. /\ d \in Seq(Ats) /\ Len(d) = Len(nat) + Len(q) /\ Distinct(d)
      /\ \A i \in 1..Len(nat) : d[i] = nat[i]
      /\ \A i \in 1..Len(q) : d[Len(nat) + i] = q[i]
      /\ \A i \in 1..(Len(nat) + Len(q)) : i \in 1..Len(nat) \/ i - Len(nat) \in 1..Len(q)
  BY <1>2, <1>6, <1>8, ConcatFacts
<1>10. Len(q) \in Nat
  BY <1>6
<1> HIDE DEF d
<1>11. ASSUME NEW j \in 1..Len(d)
       PROVE  Declares(p, d[j])
  <2>1. CASE j \in 1..Len(nat)
    BY <1>2, <1>9, <2>1 DEF Declares
  <2>2. CASE j - Len(nat) \in 1..Len(q)
    <3>1. Len(nat) + (j - Len(nat)) = j
      BY <1>2, <1>9, <1>10
    <3>2. d[j] = q[j - Len(nat)]
      BY <1>9, <2>2, <3>1
    <3> QED
      BY <1>7, <2>2, <3>2 DEF Declares
  <2> QED
    BY <1>9, <2>1, <2>2
<1>12. ASSUME NEW x, \E j \in 1..Len(q) : q[j] = x
       PROVE  \E j \in 1..Len(d) : d[j] = x
  <2>1. PICK j \in 1..Len(q) : q[j] = x
    BY <1>12
  <2>2. Len(nat) + j \in 1..Len(d) /\ d[Len(nat) + j] = x
    BY <1>2, <1>9, <1>10, <2>1
  <2> QED
    BY <2>2
<1>13. ASSUME NEW m \in DOMAIN p, NEW j \in 1..Len(ss[m])
       PROVE  \E l \in 1..Len(d) : d[l] = ss[m][j]
  <2>1. m \in 1..Len(ss)
    BY <1>1, <1>4
  <2> QED
    BY <1>6, <1>12, <2>1
<1>14. ASSUME NEW x, Declares(p, x)
       PROVE  \E j \in 1..Len(d) : d[j] = x
  <2>1. CASE \E i \in DOMAIN Natives : x = At("native", NoModule, i)
    <3>1. PICK i \in DOMAIN Natives : x = At("native", NoModule, i)
      BY <2>1
    <3>2. i \in 1..Len(d) /\ d[i] = x
      BY <1>2, <1>9, <1>10, <3>1
    <3> QED
      BY <3>2
  <2>2. ASSUME NEW m \in DOMAIN p, NEW i \in DOMAIN p[m].funcs, x = At("func", m, i)
        PROVE  \E j \in 1..Len(d) : d[j] = x
    <3>1. \E j \in 1..Len(ss[m]) : ss[m][j] = x
      BY <1>3, <2>2
    <3> QED
      BY <1>13, <3>1
  <2>3. ASSUME NEW m \in DOMAIN p, NEW i \in DOMAIN p[m].globals, x = At("global", m, i)
        PROVE  \E j \in 1..Len(d) : d[j] = x
    <3>1. \E j \in 1..Len(ss[m]) : ss[m][j] = x
      BY <1>3, <2>3
    <3> QED
      BY <1>13, <3>1
  <2> QED
    BY <1>14, <2>1, <2>2, <2>3 DEF Declares
<1>15. d = Declarations(p)
  BY DEF d, q, ss, nat, Declarations
<1> QED
  BY <1>9, <1>11, <1>14, <1>15

\* An alias of some module.
IsAlias(p, x) == \E m \in DOMAIN p : \E i \in DOMAIN p[m].aliases : x = At("alias", m, i)

\* The pass over the aliases.
LEMMA AliasesFacts ==
  ASSUME NEW p \in Programs
  PROVE  /\ Aliases(p) \in Seq(Ats) /\ DOMAIN Aliases(p) = 1..Len(Aliases(p))
         /\ Len(Aliases(p)) \in Nat
         /\ \A j \in 1..Len(Aliases(p)) : IsAlias(p, Aliases(p)[j])
<1> DEFINE S == [name : STRING, linkage : STRING, target : STRING]
           g == [m \in DOMAIN p |-> p[m].aliases]
           q == Pass("alias", g)
<1>1. DOMAIN p = 1..Len(p) /\ Len(p) \in Nat /\ \A m \in DOMAIN p : p[m].aliases \in Seq(S)
  BY ProgramFacts
<1> HIDE DEF S
<1>2. g \in Seq(Seq(S)) /\ DOMAIN g = DOMAIN p /\ "alias" \in Kinds
  <2>1. g \in [1..Len(p) -> Seq(S)]
    BY <1>1
  <2>2. g \in Seq(Seq(S))
    BY <1>1, <2>1, FunctionIsSeq
  <2> QED
    BY <2>2 DEF Kinds
<1>3. Aliases(p) = q
  BY DEF Aliases, Pass
<1>4. \A m \in DOMAIN p : g[m] = p[m].aliases
  OBVIOUS
<1> HIDE DEF g
<1>5. /\ q \in Seq(Ats)
      /\ \A j \in 1..Len(q) : \E m \in DOMAIN g : \E i \in DOMAIN g[m] : q[j] = At("alias", m, i)
  BY <1>2, PassFacts
<1> HIDE DEF q
<1>6. \A j \in 1..Len(q) : IsAlias(p, q[j])
  BY <1>2, <1>4, <1>5 DEF IsAlias
<1> QED
  BY <1>3, <1>5, <1>6

\* The last two passes define every function and every global.
LEMMA DefinitionsFacts ==
  ASSUME NEW p \in Programs
  PROVE  LET d == Definitions(p)
         IN /\ d \in Seq(Ats)
            /\ \A j \in 1..Len(d) : Defines(p, d[j])
            /\ \A x : Defines(p, x) => \E j \in 1..Len(d) : d[j] = x
<1> DEFINE S == [name : STRING, linkage : STRING, refs : Seq(STRING)]
           R == [name : STRING, linkage : STRING, tl : BOOLEAN, init : Constants]
           f == [m \in DOMAIN p |-> p[m].funcs]
           g == [m \in DOMAIN p |-> p[m].globals]
           q == Pass("define", f)
           r == Pass("init", g)
           d == q \o r
<1>1. DOMAIN p = 1..Len(p) /\ Len(p) \in Nat
  BY ProgramFacts
<1>2. \A m \in DOMAIN p : p[m].funcs \in Seq(S) /\ p[m].globals \in Seq(R)
  BY ProgramFacts
<1> HIDE DEF S, R
<1>3. f \in Seq(Seq(S)) /\ DOMAIN f = DOMAIN p /\ "define" \in Kinds
  <2>1. f \in [1..Len(p) -> Seq(S)]
    BY <1>1, <1>2
  <2>2. f \in Seq(Seq(S))
    BY <1>1, <2>1, FunctionIsSeq
  <2> QED
    BY <2>2 DEF Kinds
<1>4. g \in Seq(Seq(R)) /\ DOMAIN g = DOMAIN p /\ "init" \in Kinds
  <2>1. g \in [1..Len(p) -> Seq(R)]
    BY <1>1, <1>2
  <2>2. g \in Seq(Seq(R))
    BY <1>1, <2>1, FunctionIsSeq
  <2> QED
    BY <2>2 DEF Kinds
<1>5. Definitions(p) = d
  BY DEF Definitions, Pass
<1>6. \A m \in DOMAIN p : f[m] = p[m].funcs /\ g[m] = p[m].globals
  OBVIOUS
<1> HIDE DEF f, g
<1>7. /\ q \in Seq(Ats)
      /\ \A j \in 1..Len(q) : \E m \in DOMAIN f : \E i \in DOMAIN f[m] : q[j] = At("define", m, i)
      /\ \A m \in DOMAIN f : \A i \in DOMAIN f[m] : \E j \in 1..Len(q) : q[j] = At("define", m, i)
  BY <1>3, PassFacts
<1>8. /\ r \in Seq(Ats)
      /\ \A j \in 1..Len(r) : \E m \in DOMAIN g : \E i \in DOMAIN g[m] : r[j] = At("init", m, i)
      /\ \A m \in DOMAIN g : \A i \in DOMAIN g[m] : \E j \in 1..Len(r) : r[j] = At("init", m, i)
  BY <1>4, PassFacts
<1> HIDE DEF q, r
<1>9. /\ d \in Seq(Ats) /\ Len(d) = Len(q) + Len(r) /\ Len(q) \in Nat /\ Len(r) \in Nat
      /\ \A i \in 1..Len(q) : d[i] = q[i]
      /\ \A i \in 1..Len(r) : d[Len(q) + i] = r[i]
      /\ \A i \in 1..(Len(q) + Len(r)) : i \in 1..Len(q) \/ i - Len(q) \in 1..Len(r)
  BY <1>7, <1>8, ConcatFacts
<1> HIDE DEF d
<1>10. ASSUME NEW j \in 1..Len(d)
       PROVE  Defines(p, d[j])
  <2>1. CASE j \in 1..Len(q)
    <3>1. \E m \in DOMAIN p : \E i \in DOMAIN p[m].funcs : d[j] = At("define", m, i)
      <4>1. PICK m \in DOMAIN f : \E i \in DOMAIN f[m] : q[j] = At("define", m, i)
        BY <1>7, <2>1
      <4> QED
        BY <1>3, <1>6, <1>9, <2>1, <4>1
    <3> QED
      BY <3>1 DEF Defines
  <2>2. CASE j - Len(q) \in 1..Len(r)
    <3>1. Len(q) + (j - Len(q)) = j
      BY <1>9
    <3>2. d[j] = r[j - Len(q)]
      BY <1>9, <2>2, <3>1
    <3>3. \E m \in DOMAIN p : \E i \in DOMAIN p[m].globals : d[j] = At("init", m, i)
      <4>1. PICK m \in DOMAIN g : \E i \in DOMAIN g[m] : d[j] = At("init", m, i)
        BY <1>8, <2>2, <3>2
      <4> QED
        BY <1>4, <1>6, <4>1
    <3> QED
      BY <3>3 DEF Defines
  <2> QED
    BY <1>9, <2>1, <2>2
<1>11. ASSUME NEW x, Defines(p, x)
       PROVE  \E j \in 1..Len(d) : d[j] = x
  <2>1. ASSUME NEW m \in DOMAIN p, NEW i \in DOMAIN p[m].funcs, x = At("define", m, i)
        PROVE  \E j \in 1..Len(d) : d[j] = x
    <3>1. PICK j \in 1..Len(q) : q[j] = x
      BY <1>3, <1>6, <1>7, <2>1
    <3>2. j \in 1..Len(d) /\ d[j] = x
      BY <1>9, <3>1
    <3> QED
      BY <3>2
  <2>2. ASSUME NEW m \in DOMAIN p, NEW i \in DOMAIN p[m].globals, x = At("init", m, i)
        PROVE  \E j \in 1..Len(d) : d[j] = x
    <3>1. PICK j \in 1..Len(r) : r[j] = x
      BY <1>4, <1>6, <1>8, <2>2
    <3>2. Len(q) + j \in 1..Len(d) /\ d[Len(q) + j] = x
      BY <1>9, <3>1
    <3> QED
      BY <3>2
  <2> QED
    BY <1>11, <2>1, <2>2 DEF Defines
<1> QED
  BY <1>5, <1>9, <1>10, <1>11

\* The order of the whole: declarations, aliases, definitions, main.
LEMMA WorkFacts ==
  ASSUME NEW p \in Programs
  PROVE  LET w == Work(p)
             d == Len(Declarations(p))
             a == Len(Aliases(p))
         IN /\ w \in Seq(Ats) /\ d \in Nat /\ a \in Nat /\ Len(w) \in Nat /\ d + a < Len(w)
            /\ \A j \in 1..d : Declares(p, w[j])
            /\ \A x : Declares(p, x) => \E j \in 1..d : w[j] = x
            /\ \A i, j \in 1..d : w[i] = w[j] => i = j
            /\ \A k \in 1..a : w[d + k] = Aliases(p)[k]
            /\ \A j \in (d + a + 1)..(Len(w) - 1) : Defines(p, w[j])
            /\ \A x : Defines(p, x) => \E j \in (d + a + 1)..(Len(w) - 1) : w[j] = x
            /\ w[Len(w)] = At("main", NoModule, 1)
<1> DEFINE D == Declarations(p)
           A == Aliases(p)
           E == Definitions(p)
           M == <<At("main", NoModule, 1)>>
           d == Len(D)
           a == Len(A)
           e == Len(E)
           u == D \o A
           v == u \o E
           w == v \o M
<1>1. /\ D \in Seq(Ats) /\ A \in Seq(Ats) /\ E \in Seq(Ats)
      /\ d \in Nat /\ a \in Nat /\ e \in Nat
  BY DeclarationsFacts, AliasesFacts, DefinitionsFacts
<1>2. M \in Seq(Ats) /\ Len(M) = 1 /\ M[1] = At("main", NoModule, 1)
  BY DEF At, Ats, Kinds, NoModule
<1>3. /\ Distinct(D) /\ \A j \in 1..d : Declares(p, D[j])
      /\ \A x : Declares(p, x) => \E j \in 1..d : D[j] = x
  BY DeclarationsFacts
<1>4. /\ \A j \in 1..e : Defines(p, E[j])
      /\ \A x : Defines(p, x) => \E j \in 1..e : E[j] = x
  BY DefinitionsFacts
<1>5. w = Work(p)
  BY DEF Work, At
<1> HIDE DEF D, A, E, M
<1>6. /\ u \in Seq(Ats) /\ Len(u) = d + a
      /\ \A i \in 1..d : u[i] = D[i]
      /\ \A i \in 1..a : u[d + i] = A[i]
  BY <1>1, ConcatFacts
<1> HIDE DEF u
<1>7. /\ v \in Seq(Ats) /\ Len(v) = (d + a) + e
      /\ \A i \in 1..(d + a) : v[i] = u[i]
      /\ \A i \in 1..e : v[(d + a) + i] = E[i]
  <2>1. /\ v \in Seq(Ats) /\ Len(v) = Len(u) + Len(E)
        /\ \A i \in 1..Len(u) : v[i] = u[i]
        /\ \A i \in 1..Len(E) : v[Len(u) + i] = E[i]
    <3>1. u \in Seq(Ats) /\ E \in Seq(Ats)
      BY <1>1, <1>6
    <3> QED
      BY <3>1, ConcatFacts
  <2> HIDE DEF v
  <2> QED
    BY <1>6, <2>1
<1> HIDE DEF v
<1>8. /\ w \in Seq(Ats) /\ Len(w) = ((d + a) + e) + 1
      /\ \A i \in 1..((d + a) + e) : w[i] = v[i]
      /\ \A i \in 1..1 : w[((d + a) + e) + i] = M[i]
  <2>1. /\ w \in Seq(Ats) /\ Len(w) = Len(v) + Len(M)
        /\ \A i \in 1..Len(v) : w[i] = v[i]
        /\ \A i \in 1..Len(M) : w[Len(v) + i] = M[i]
    <3>1. v \in Seq(Ats) /\ M \in Seq(Ats)
      BY <1>2, <1>7
    <3> QED
      BY <3>1, ConcatFacts
  <2> HIDE DEF w
  <2> QED
    BY <1>2, <1>7, <2>1
<1> HIDE DEF w, d, a, e
<1>9. ASSUME NEW j \in 1..d
      PROVE  w[j] = D[j]
  BY <1>1, <1>6, <1>7, <1>8
<1>10. ASSUME NEW k \in 1..a
       PROVE  w[d + k] = A[k]
  <2>1. d + k \in 1..(d + a) /\ d + k \in 1..((d + a) + e)
    BY <1>1
  <2> QED
    BY <1>6, <1>7, <1>8, <2>1
<1>11. ASSUME NEW j \in 1..e
       PROVE  w[(d + a) + j] = E[j] /\ (d + a) + j \in (d + a + 1)..(Len(w) - 1)
  <2>1. (d + a) + j \in 1..((d + a) + e)
    BY <1>1
  <2>2. (d + a) + j \in (d + a + 1)..(Len(w) - 1)
    BY <1>1, <1>8
  <2> QED
    BY <1>7, <1>8, <2>1, <2>2
<1>12. ASSUME NEW j \in (d + a + 1)..(Len(w) - 1)
       PROVE  Defines(p, w[j])
  <2>1. j - (d + a) \in 1..e /\ (d + a) + (j - (d + a)) = j
    BY <1>1, <1>8
  <2>2. w[j] = E[j - (d + a)]
    BY <1>11, <2>1
  <2> QED
    BY <1>4, <2>1, <2>2
<1>13. ASSUME NEW x, Defines(p, x)
       PROVE  \E j \in (d + a + 1)..(Len(w) - 1) : w[j] = x
  <2>1. PICK j \in 1..e : E[j] = x
    BY <1>4, <1>13
  <2> QED
    BY <1>11, <2>1
<1>14. w[Len(w)] = At("main", NoModule, 1) /\ d + a < Len(w) /\ Len(w) \in Nat
  BY <1>1, <1>2, <1>8
<1>15. /\ \A j \in 1..d : Declares(p, w[j])
       /\ \A x : Declares(p, x) => \E j \in 1..d : w[j] = x
       /\ \A i, j \in 1..d : w[i] = w[j] => i = j
  <2>1. \A i, j \in 1..d : w[i] = w[j] => i = j
    BY <1>3, <1>9 DEF Distinct, d
  <2> QED
    BY <1>3, <1>9, <2>1
<1> QED
  BY <1>1, <1>5, <1>8, <1>10, <1>12, <1>13, <1>14, <1>15 DEF d, a, D, A

-----------------------------------------------------------------------------
(* The inductive invariant                                                 *)

\* How much of the work has been done, and what of it are declarations.
Pos == Len(Work(prog)) - Len(work)
Decls == Len(Declarations(prog))

\* The objects declared and the aliases added so far.
Seen == {x \in Objects(prog) : \E j \in 1..Pos : Work(prog)[j] = x}
Bound == {k \in DOMAIN Aliases(prog) : Decls + k <= Pos}

\* The work is done in order.
InvWork ==
  /\ prog \in Programs /\ status \in {"load", "run", "panic"}
  /\ work \in Seq(Ats) /\ Len(work) \in 0..Len(Work(prog))
  /\ \A i \in 1..Len(work) : work[i] = Work(prog)[Pos + i]
  /\ status = "run" => work = <<>>

\* What names denote for the compiler, which takes the aliases in order: only the
\* first n of them are looked at, and each denotes what those before it say.
EarlyAliasesNamed(p, m, name, linkage, n) ==
  {k \in 1..n : Named(AliasAt(p, k), Aliases(p)[k].m = m, name, linkage)}
EarlyDenote(p, m, name, n, targets) ==
  LET any(linkage) == \/ ObjectsNamed(p, m, name, linkage) # {}
                      \/ EarlyAliasesNamed(p, m, name, linkage, n) # {}
      pick(linkage) == IF ObjectsNamed(p, m, name, linkage) # {}
                       THEN CHOOSE x \in ObjectsNamed(p, m, name, linkage) : TRUE
                       ELSE targets[Min(EarlyAliasesNamed(p, m, name, linkage, n))]
  IN IF any("internal") THEN pick("internal")
     ELSE IF any("external") THEN pick("external")
     ELSE ExplodeObject(p)
EarlyTargets(p) ==
  LET targets[k \in DOMAIN Aliases(p)] ==
        EarlyDenote(p, Aliases(p)[k].m, AliasAt(p, k).target, k - 1, targets)
  IN targets
EarlyMeaning(p, m, name) == EarlyDenote(p, m, name, Len(Aliases(p)), EarlyTargets(p))

\* Every name in a compiled function is bound to what it denotes for the compiler.
EarlyNamesDenote ==
  \A a \in DOMAIN functions :
    LET f == functions[a]
    IN \A i \in DOMAIN f.refs :
         f.refs[i] = locs[EarlyMeaning(prog, f.it.m, prog[f.it.m].funcs[f.it.i].refs[i])]

\* The table of symbols has exactly the symbols of the objects declared, bound to
\* their definitions, and of the aliases added, bound to the definitions of what
\* they denote.
InvTable ==
  /\ DOMAIN forward = {ObjectSym(prog, x) : x \in Seen} \cup {AliasSym(prog, k) : k \in Bound}
  /\ DOMAIN locs = Seen
  /\ \A x \in Seen : /\ Source(prog, x).linkage \in Linkages
                     /\ forward[ObjectSym(prog, x)] = locs[x]
  /\ \A k \in Bound : /\ AliasAt(prog, k).linkage \in Linkages
                      /\ EarlyTargets(prog)[k] \in Objects(prog)
                      /\ ~ThreadLocal(prog, EarlyTargets(prog)[k])
                      /\ forward[AliasSym(prog, k)] = locs[EarlyTargets(prog)[k]]
  /\ \A x, y \in Seen : ObjectSym(prog, x) = ObjectSym(prog, y) => x = y

\* Definitions are addresses and keys handed out, each to one object.
InvLocs ==
  /\ next \in Nat /\ next_thread_local_key \in Nat
  /\ \A x \in Seen :
       IF ThreadLocal(prog, x)
       THEN locs[x] = Key(locs[x].v) /\ locs[x].v \in Nat /\ locs[x].v < next_thread_local_key
       ELSE locs[x] = Address(locs[x].v) /\ locs[x].v \in Nat /\ locs[x].v < next
  /\ \A x, y \in Seen : locs[x] = locs[y] => x = y

\* Every address handed out while loading has the symbol of its object.
InvReverse ==
  /\ \A a \in DOMAIN reverse :
       \E x \in Seen : locs[x] = Address(a) /\ reverse[a] = ObjectSym(prog, x)
  /\ \A x \in Seen : ~ThreadLocal(prog, x) => locs[x].v \in DOMAIN reverse
  /\ ops \in 0..MaxOps

\* Natives and functions are callable at their addresses, and nothing else is; a
\* function is compiled when the program runs.
InvFunctions ==
  /\ \A a \in DOMAIN functions :
       \E x \in Seen :
         /\ locs[x] = Address(a)
         /\ \/ x.k = "native" /\ ~functions[a].lazy /\ functions[a].refs = <<>>
            \/ x.k = "func" /\ functions[a].it = At("define", x.m, x.i)
         /\ functions[a] = [lazy |-> functions[a].lazy, it |-> functions[a].it,
                            refs |-> functions[a].refs]
         /\ status = "load" => functions[a].refs = <<>>
  /\ \A x \in Seen : x.k = "native" => locs[x].v \in DOMAIN functions
  /\ \A j \in 1..Pos : Work(prog)[j].k = "define" =>
       LET x == At("func", Work(prog)[j].m, Work(prog)[j].i)
       IN x \in Seen /\ locs[x].v \in DOMAIN functions

\* No initial value was the address of a thread-local.
InvInit ==
  \A j \in 1..Pos :
    LET x == At("global", Work(prog)[j].m, Work(prog)[j].i)
    IN Work(prog)[j].k = "init" /\ x \in Objects(prog) /\ Source(prog, x).init.c = "name" =>
         ~ThreadLocal(prog, EarlyMeaning(prog, x.m, Source(prog, x).init.name))

\* Every thread has its thread-locals at addresses of their own.
InvLocals ==
  /\ DOMAIN thread_locals = Threads
  /\ \A t \in Threads : \A key \in DOMAIN thread_locals[t] :
       /\ status = "run"
       /\ thread_locals[t][key] \in Nat /\ thread_locals[t][key] < next
       /\ \A x \in Seen : locs[x] # Address(thread_locals[t][key])
       /\ \A u \in Threads : \A l \in DOMAIN thread_locals[u] :
            thread_locals[t][key] = thread_locals[u][l] => t = u /\ key = l

\* The value that the source program gives x to start with, and the one that the
\* compiler comes to.
Start(x) == Initial(prog, x.m, Source(prog, x).init)
EarlyStart(x) ==
  LET c == Source(prog, x).init
  IN IF c.c = "num" THEN c.n ELSE locs[EarlyMeaning(prog, x.m, c.name)].v

\* A global's value is in its memory; a thread-local's in the memory that the thread
\* has for it, or it is still the initial one.
GlobalHolds(x) == locs[x].v \in DOMAIN mem /\ mem[locs[x].v] = meant[<<x>>]
LocalHolds(x, t) ==
  /\ locs[x].v \in DOMAIN thread_local_inits /\ thread_local_inits[locs[x].v] = Start(x)
  /\ IF locs[x].v \in DOMAIN thread_locals[t]
     THEN /\ thread_locals[t][locs[x].v] \in DOMAIN mem
          /\ mem[thread_locals[t][locs[x].v]] = meant[<<x, t>>]
     ELSE meant[<<x, t>>] = Start(x)

\* The variables of the source program, which have values once all objects are
\* declared.
InvMeant ==
  /\ \A v \in DOMAIN meant :
       /\ Decls < Pos
       /\ \E x \in Seen : \/ ~ThreadLocal(prog, x) /\ v = <<x>>
                          \/ ThreadLocal(prog, x) /\ \E t \in Threads : v = <<x, t>>
  /\ \A x \in Seen : <<x>> \in DOMAIN meant => GlobalHolds(x)
  /\ \A x \in Seen : \A t \in Threads : <<x, t>> \in DOMAIN meant => LocalHolds(x, t)

\* A thread's last pointer is the address of the variable it was computed from.
GotHolds(t, x) ==
  \/ /\ ThreadLocal(prog, x) /\ locs[x].v \in DOMAIN thread_locals[t]
     /\ got[t] = <<thread_locals[t][locs[x].v], <<x, t>>>>
  \/ ~ThreadLocal(prog, x) /\ got[t] = <<locs[x].v, <<x>>>>
InvGot ==
  /\ DOMAIN got = Threads
  /\ \A t \in Threads : got[t] # <<>> => \E x \in Seen : GotHolds(t, x)

-----------------------------------------------------------------------------
(* Objects, symbols, and what names denote                                 *)

\* The objects are what is declared, but for globals without initializer.
LEMMA ObjectFacts ==
  ASSUME NEW p \in Programs, NEW x
  PROVE  x \in Objects(p) <=>
           /\ Declares(p, x)
           /\ x.k = "global" => p[x.m].globals[x.i].init # Declared
<1> DEFINE d == Declarations(p)
<1>1. DOMAIN d = 1..Len(d) /\ ToSet(d) = {d[j] : j \in DOMAIN d}
  BY DeclarationsFacts DEF ToSet
<1>2. x \in ToSet(d) <=> Declares(p, x)
  BY <1>1, DeclarationsFacts
<1> HIDE DEF d
<1> QED
  BY <1>2 DEF Objects, d

\* The parts of an object.
LEMMA ObjectParts ==
  ASSUME NEW p \in Programs, NEW x \in Objects(p)
  PROVE  /\ x = At(x.k, x.m, x.i)
         /\ x.k \in {"native", "func", "global"}
         /\ x.k = "native" => /\ x.m = NoModule /\ x.i \in DOMAIN Natives
                              /\ Source(p, x).linkage = "external" /\ Source(p, x).name = Natives[x.i]
         /\ x.k # "native" => x.m \in DOMAIN p
         /\ x.k = "func" => x.i \in DOMAIN p[x.m].funcs /\ Source(p, x) = p[x.m].funcs[x.i]
         /\ x.k = "global" => /\ x.i \in DOMAIN p[x.m].globals
                              /\ Source(p, x) = p[x.m].globals[x.i]
                              /\ Source(p, x).init # Declared
<1>1. Declares(p, x) /\ (x.k = "global" => p[x.m].globals[x.i].init # Declared)
  BY ObjectFacts
<1>2. CASE \E i \in DOMAIN Natives : x = At("native", NoModule, i)
  BY <1>2 DEF At, Source
<1>3. CASE \E m \in DOMAIN p : \E i \in DOMAIN p[m].funcs : x = At("func", m, i)
  BY <1>3 DEF At, Source
<1>4. CASE \E m \in DOMAIN p : \E i \in DOMAIN p[m].globals : x = At("global", m, i)
  BY <1>1, <1>4 DEF At, Source
<1> QED
  BY <1>1, <1>2, <1>3, <1>4 DEF Declares

\* The native that undefined names stand for.
LEMMA ExplodeIsObject ==
  ASSUME NEW p \in Programs
  PROVE  \E x \in Objects(p) : x.k = "native" /\ Natives[x.i] = Explode
<1>1. PICK i \in DOMAIN Natives : Natives[i] = Explode
  BY LinkerAssumption DEF Range
<1> DEFINE x == At("native", NoModule, i)
<1>2. x.k = "native" /\ x.i = i
  BY AtFacts
<1>3. x \in Objects(p)
  BY <1>2, ObjectFacts DEF Declares
<1> QED
  BY <1>1, <1>2, <1>3

\* EarlyDenote looks at the first n aliases only.
LEMMA DenoteLocal ==
  ASSUME NEW p, NEW m, NEW name, NEW n, NEW f, NEW g,
         \A k \in 1..n : f[k] = g[k]
  PROVE  EarlyDenote(p, m, name, n, f) = EarlyDenote(p, m, name, n, g)
<1>1. ASSUME NEW linkage, EarlyAliasesNamed(p, m, name, linkage, n) # {}
      PROVE  LET k == Min(EarlyAliasesNamed(p, m, name, linkage, n)) IN f[k] = g[k]
  <2>1. EarlyAliasesNamed(p, m, name, linkage, n) \in SUBSET Nat
    BY DEF EarlyAliasesNamed
  <2>2. Min(EarlyAliasesNamed(p, m, name, linkage, n)) \in EarlyAliasesNamed(p, m, name, linkage, n)
    BY <1>1, <2>1, MinFacts
  <2> QED
    BY <2>2 DEF EarlyAliasesNamed
<1> QED
  BY <1>1 DEF EarlyDenote

\* What an alias denotes.
LEMMA TargetsFacts ==
  ASSUME NEW p \in Programs, NEW k \in DOMAIN Aliases(p)
  PROVE  EarlyTargets(p)[k] = EarlyDenote(p, Aliases(p)[k].m, AliasAt(p, k).target, k - 1, EarlyTargets(p))
<1> DEFINE n == Len(Aliases(p))
           D(i, g) == EarlyDenote(p, Aliases(p)[i].m, AliasAt(p, i).target, i - 1, g)
           Steps(g, l) == g = [i \in 1..l |-> D(i, g)]
           T == {l \in Nat : \E g : Steps(g, l)}
<1>1. DOMAIN Aliases(p) = 1..n /\ n \in Nat
  BY AliasesFacts
<1>2. 0 \in T
  <2>1. Steps([i \in 1..0 |-> p], 0)
    OBVIOUS
  <2> QED
    BY <2>1
<1>3. \A i : \A f, g : (\A j \in 1..(i - 1) : f[j] = g[j]) => D(i, f) = D(i, g)
  BY DenoteLocal
<1> HIDE DEF D
<1>4. ASSUME NEW l \in Nat, l \in T
      PROVE  l + 1 \in T
  <2>1. PICK g : Steps(g, l)
    BY <1>4
  <2> DEFINE new == D(l + 1, g)
             h == [i \in 1..l + 1 |-> IF i <= l THEN g[i] ELSE new]
  <2>2. (\A i \in 1..l : h[i] = g[i]) /\ h[l + 1] = new
    <3> HIDE DEF new
    <3> QED
      OBVIOUS
  <2>3. ASSUME NEW i \in 1..l + 1
        PROVE  h[i] = D(i, h)
    <3>1. \A j \in 1..l : g[j] = D(j, g)
      BY <2>1
    <3> HIDE DEF h
    <3>2. \A j \in 1..(i - 1) : g[j] = h[j]
      BY <2>2
    <3>3. D(i, g) = D(i, h)
      BY <1>3, <3>2
    <3>4. CASE i = l + 1
      BY <2>2, <3>3, <3>4
    <3>5. CASE i \in 1..l
      BY <2>2, <3>1, <3>3, <3>5
    <3> QED
      BY <3>4, <3>5
  <2>4. h = [i \in 1..l + 1 |-> h[i]]
    OBVIOUS
  <2>5. Steps(h, l + 1)
    <3> HIDE DEF h
    <3> QED
      BY <2>3, <2>4
  <2> HIDE DEF h, Steps
  <2>6. \E e : Steps(e, l + 1)
    BY <2>5
  <2> QED
    BY <2>6
<1>5. \E g : Steps(g, n)
  <2>1. n \in T
    <3> HIDE DEF T
    <3> QED
      BY <1>1, <1>2, <1>4, NatSetInduction
  <2> QED
    BY <2>1
<1> DEFINE f == CHOOSE g : Steps(g, n)
<1>6. Steps(f, n)
  BY <1>5
<1>7. EarlyTargets(p) = f
  BY <1>1 DEF EarlyTargets, D
<1> HIDE DEF f
<1>8. \A i \in 1..n : f[i] = D(i, f)
  BY <1>6
<1> QED
  BY <1>1, <1>7, <1>8 DEF D

-----------------------------------------------------------------------------
(* Aliases in order                                                        *)

\* When no alias has its target among the aliases after it, the aliases before it
\* say as much about the target as all aliases do.
LEMMA EarlyIsEnough ==
  ASSUME NEW p \in Programs, InOrder(p), NEW k \in DOMAIN Aliases(p), NEW f, NEW g,
         \A j \in 1..(k - 1) : f[j] = g[j]
  PROVE  EarlyDenote(p, Aliases(p)[k].m, AliasAt(p, k).target, k - 1, f)
           = Denote(p, Aliases(p)[k].m, AliasAt(p, k).target, g)
<1> DEFINE n == Len(Aliases(p))
           m == Aliases(p)[k].m
           name == AliasAt(p, k).target
           X(l) == ObjectsNamed(p, m, name, l)
           E(l) == EarlyAliasesNamed(p, m, name, l, k - 1)
           A(l) == AliasesNamed(p, m, name, l)
           x(l) == CHOOSE y \in X(l) : TRUE
<1>1. DOMAIN Aliases(p) = 1..n /\ n \in Nat /\ k \in 1..n
  BY AliasesFacts
<1>2. ASSUME NEW l
      PROVE  /\ A(l) \in SUBSET Nat /\ E(l) \in SUBSET Nat /\ E(l) \subseteq A(l)
             /\ \A j \in A(l) : j < k => j \in E(l)
             /\ \A j \in E(l) : j \in 1..(k - 1)
  BY <1>1 DEF AliasesNamed, EarlyAliasesNamed
<1>3. EarlyDenote(p, m, name, k - 1, f)
        = IF X("internal") # {} \/ E("internal") # {}
          THEN IF X("internal") # {} THEN x("internal") ELSE f[Min(E("internal"))]
          ELSE IF X("external") # {} \/ E("external") # {}
          THEN IF X("external") # {} THEN x("external") ELSE f[Min(E("external"))]
          ELSE ExplodeObject(p)
  BY DEF EarlyDenote
<1>4. Denote(p, m, name, g)
        = IF X("internal") # {} \/ A("internal") # {}
          THEN IF X("internal") # {} THEN x("internal") ELSE g[Min(A("internal"))]
          ELSE IF X("external") # {} \/ A("external") # {}
          THEN IF X("external") # {} THEN x("external") ELSE g[Min(A("external"))]
          ELSE ExplodeObject(p)
  BY DEF Denote
<1>5. Via(p, k) = IF X("internal") # {} THEN {}
                  ELSE IF A("internal") # {} THEN A("internal")
                  ELSE IF X("external") # {} THEN {} ELSE A("external")
  BY DEF Via
<1>6. Via(p, k) # {} => Min(Via(p, k)) < k
  BY DEF InOrder
<1> HIDE DEF X, E, A, x, m, name, n
<1>7. ASSUME NEW l, A(l) # {}, Min(A(l)) < k
      PROVE  E(l) # {} /\ Min(E(l)) = Min(A(l)) /\ f[Min(E(l))] = g[Min(A(l))]
  <2>1. Min(A(l)) \in A(l) /\ \A j \in A(l) : Min(A(l)) <= j
    BY <1>2, <1>7, MinFacts
  <2>2. Min(A(l)) \in E(l)
    BY <1>2, <1>7, <2>1
  <2>3. Min(E(l)) \in E(l) /\ \A j \in E(l) : Min(E(l)) <= j
    BY <1>2, <2>2, MinFacts
  <2>4. Min(E(l)) <= Min(A(l)) /\ Min(A(l)) <= Min(E(l)) /\ Min(E(l)) \in Nat /\ Min(A(l)) \in Nat
    BY <1>2, <2>1, <2>2, <2>3
  <2>5. Min(E(l)) = Min(A(l))
    BY <2>4
  <2> QED
    BY <1>2, <2>2, <2>3, <2>5
<1>8. ASSUME NEW l, A(l) = {}
      PROVE  E(l) = {}
  BY <1>2, <1>8
<1>9. CASE X("internal") # {}
  BY <1>3, <1>4, <1>9 DEF m, name
<1>10. CASE X("internal") = {} /\ A("internal") # {}
  <2>1. E("internal") # {} /\ f[Min(E("internal"))] = g[Min(A("internal"))]
    BY <1>5, <1>6, <1>7, <1>10
  <2> QED
    BY <1>3, <1>4, <1>10, <2>1 DEF m, name
<1>11. CASE X("internal") = {} /\ A("internal") = {}
  <2>1. E("internal") = {}
    BY <1>8, <1>11
  <2>2. CASE X("external") # {}
    BY <1>3, <1>4, <1>11, <2>1, <2>2 DEF m, name
  <2>3. CASE X("external") = {} /\ A("external") # {}
    <3>1. E("external") # {} /\ f[Min(E("external"))] = g[Min(A("external"))]
      BY <1>5, <1>6, <1>7, <1>11, <2>3
    <3> QED
      BY <1>3, <1>4, <1>11, <2>1, <2>3, <3>1 DEF m, name
  <2>4. CASE X("external") = {} /\ A("external") = {}
    <3>1. E("external") = {}
      BY <1>8, <2>4
    <3> QED
      BY <1>3, <1>4, <1>11, <2>1, <2>4, <3>1 DEF m, name
  <2> QED
    BY <2>2, <2>3, <2>4
<1> QED
  BY <1>9, <1>10, <1>11

FollowOp(p, targets, a) == Follow(p, targets)
FollowFold == INSTANCE FoldProofs WITH Op <- FollowOp

\* The rounds in which Targets follows the aliases.
LEMMA TargetsRounds ==
  ASSUME NEW p \in Programs
  PROVE  \E f : /\ \A i \in 1..Len(Aliases(p)) : f[i] = Follow(p, f[i - 1])
                /\ f[0] = [k \in DOMAIN Aliases(p) |-> ExplodeObject(p)]
                /\ Targets(p) = f[Len(Aliases(p))]
<1> DEFINE s == Aliases(p)
           z == [k \in DOMAIN Aliases(p) |-> ExplodeObject(p)]
           f == CHOOSE g : FollowFold!IsFold(g, p, z, s)
<1>1. Len(s) \in Nat
  BY AliasesFacts
<1>2. FollowFold!IsFold(f, p, z, s)
  <2>1. \E g : FollowFold!IsFold(g, p, z, s)
    <3> HIDE DEF z, s
    <3> QED
      BY <1>1, FollowFold!FoldSolution
  <2> QED
    BY <2>1
<1>3. Targets(p) = f[Len(s)]
  BY DEF Targets, Fold, FollowFold!IsFold, FollowOp
<1>4. f[0] = z /\ \A i \in 1..Len(s) : f[i] = FollowOp(p, f[i - 1], s[i])
  <2> HIDE DEF f, z, s
  <2> QED
    BY <1>1, <1>2, FollowFold!FoldValues
<1> HIDE DEF f
<1> QED
  BY <1>3, <1>4 DEF FollowOp

\* After n rounds the first n aliases denote what the compiler makes of them.
LEMMA OrderedTargets ==
  ASSUME NEW p \in Programs, InOrder(p)
  PROVE  \A k \in DOMAIN Aliases(p) : Targets(p)[k] = EarlyTargets(p)[k]
<1> DEFINE n == Len(Aliases(p))
<1>1. DOMAIN Aliases(p) = 1..n /\ n \in Nat
  BY AliasesFacts
<1>2. PICK f : /\ \A i \in 1..n : f[i] = Follow(p, f[i - 1])
               /\ Targets(p) = f[n]
  BY TargetsRounds
<1> DEFINE T == {i \in Nat : i <= n => \A k \in 1..i : f[i][k] = EarlyTargets(p)[k]}
<1>3. 0 \in T
  OBVIOUS
<1>4. ASSUME NEW i \in Nat, i \in T
      PROVE  i + 1 \in T
  <2>1. ASSUME i + 1 <= n, NEW k \in 1..(i + 1)
        PROVE  f[i + 1][k] = EarlyTargets(p)[k]
    <3>1. k \in DOMAIN Aliases(p) /\ i + 1 \in 1..n /\ (i + 1) - 1 = i
      BY <1>1, <2>1
    <3>2. f[i + 1][k] = Denote(p, Aliases(p)[k].m, AliasAt(p, k).target, f[i])
      <4>1. f[i + 1] = Follow(p, f[i])
        BY <1>2, <3>1
      <4> QED
        BY <3>1, <4>1 DEF Follow
    <3> DEFINE g == f[i]
               e == EarlyTargets(p)
    <3>3. \A j \in 1..(k - 1) : e[j] = g[j]
      BY <1>1, <1>4, <2>1
    <3> HIDE DEF g, e
    <3>4. EarlyTargets(p)[k]
            = EarlyDenote(p, Aliases(p)[k].m, AliasAt(p, k).target, k - 1, e)
      BY <3>1, TargetsFacts DEF e
    <3>5. EarlyDenote(p, Aliases(p)[k].m, AliasAt(p, k).target, k - 1, e)
            = Denote(p, Aliases(p)[k].m, AliasAt(p, k).target, g)
      BY <3>1, <3>3, EarlyIsEnough
    <3> QED
      BY <3>2, <3>4, <3>5 DEF g
  <2> QED
    BY <2>1
<1>5. n \in T
  <2> HIDE DEF T
  <2> QED
    BY <1>1, <1>3, <1>4, NatSetInduction
<1> QED
  BY <1>1, <1>2, <1>5

\* Then names mean to the compiler what they mean in the source program.
LEMMA OrderedMeaning ==
  ASSUME NEW p \in Programs, InOrder(p), NEW m, NEW name
  PROVE  Meaning(p, m, name) = EarlyMeaning(p, m, name)
<1> DEFINE n == Len(Aliases(p))
<1>1. DOMAIN Aliases(p) = 1..n /\ n \in Nat
  BY AliasesFacts
<1>2. \A l : EarlyAliasesNamed(p, m, name, l, n) = AliasesNamed(p, m, name, l)
  BY <1>1 DEF EarlyAliasesNamed, AliasesNamed
<1>3. \A l : /\ AliasesNamed(p, m, name, l) \in SUBSET Nat
             /\ AliasesNamed(p, m, name, l) \subseteq DOMAIN Aliases(p)
  BY <1>1 DEF AliasesNamed
<1>4. ASSUME NEW l, AliasesNamed(p, m, name, l) # {}
      PROVE  Targets(p)[Min(AliasesNamed(p, m, name, l))]
               = EarlyTargets(p)[Min(AliasesNamed(p, m, name, l))]
  <2>1. Min(AliasesNamed(p, m, name, l)) \in DOMAIN Aliases(p)
    BY <1>3, <1>4, MinFacts
  <2> QED
    BY <2>1, OrderedTargets
<1> QED
  BY <1>2, <1>4 DEF Meaning, Denote, EarlyMeaning, EarlyDenote

-----------------------------------------------------------------------------
(* The work, item by item                                                  *)

\* The item that is next, and the work after it.
LEMMA CurrentItem ==
  ASSUME InvWork, work # <<>>
  PROVE  /\ Pos \in Nat /\ Pos + 1 \in 1..Len(Work(prog))
         /\ It = Work(prog)[Pos + 1]
         /\ Tail(work) \in Seq(Ats) /\ Len(Tail(work)) = Len(work) - 1
         /\ \A i \in 1..(Len(work) - 1) : Tail(work)[i] = Work(prog)[Pos + 1 + i]
<1>1. /\ work \in Seq(Ats) /\ Len(work) \in Nat /\ Len(work) # 0
      /\ Len(work) <= Len(Work(prog)) /\ Len(Work(prog)) \in Nat
  BY WorkFacts DEF InvWork
<1>2. Pos \in Nat /\ Pos + 1 \in 1..Len(Work(prog)) /\ 1 \in 1..Len(work)
  BY <1>1 DEF Pos
<1>3. Head(work) = work[1]
  BY <1>1
<1>4. It = Work(prog)[Pos + 1]
  BY <1>2, <1>3 DEF InvWork, It
<1>5. /\ Tail(work) \in Seq(Ats) /\ Len(Tail(work)) = Len(work) - 1
      /\ \A i \in 1..(Len(work) - 1) : Tail(work)[i] = work[i + 1]
  BY <1>1
<1>6. ASSUME NEW i \in 1..(Len(work) - 1)
      PROVE  Tail(work)[i] = Work(prog)[Pos + 1 + i]
  <2>1. i + 1 \in 1..Len(work) /\ Pos + (i + 1) = Pos + 1 + i
    BY <1>1, <1>2
  <2>2. work[i + 1] = Work(prog)[Pos + (i + 1)]
    BY <2>1 DEF InvWork
  <2> QED
    BY <1>5, <2>1, <2>2
<1> QED
  BY <1>2, <1>4, <1>5, <1>6

\* Where in the work the items of a kind are.
LEMMA ItemPlaces ==
  ASSUME InvWork, work # <<>>
  PROVE  /\ Decls \in Nat /\ Len(Aliases(prog)) \in Nat
         /\ DOMAIN Aliases(prog) = 1..Len(Aliases(prog))
         /\ It.k \in {"native", "func", "global"} => Pos < Decls /\ Declares(prog, It)
         /\ It.k = "alias" => /\ Decls <= Pos /\ Pos + 1 - Decls \in DOMAIN Aliases(prog)
                              /\ It = Aliases(prog)[Pos + 1 - Decls]
                              /\ IsAlias(prog, It)
         /\ It.k \in {"define", "init"} => Decls + Len(Aliases(prog)) <= Pos /\ Defines(prog, It)
         /\ It.k = "main" => /\ Pos + 1 = Len(Work(prog)) /\ Decls + Len(Aliases(prog)) <= Pos
<1> DEFINE w == Work(prog)
           a == Len(Aliases(prog))
<1>1. prog \in Programs /\ Pos \in Nat /\ Pos + 1 \in 1..Len(w) /\ It = w[Pos + 1]
  BY CurrentItem DEF InvWork
<1>2. /\ Decls \in Nat /\ a \in Nat /\ Len(w) \in Nat /\ Decls + a < Len(w)
      /\ \A j \in 1..Decls : Declares(prog, w[j])
      /\ \A k \in 1..a : w[Decls + k] = Aliases(prog)[k]
      /\ \A j \in (Decls + a + 1)..(Len(w) - 1) : Defines(prog, w[j])
      /\ w[Len(w)] = At("main", NoModule, 1)
  BY <1>1, WorkFacts DEF Decls
<1>3. DOMAIN Aliases(prog) = 1..a /\ \A k \in 1..a : IsAlias(prog, Aliases(prog)[k])
  BY <1>1, AliasesFacts
<1> HIDE DEF w, a
<1>4. CASE Pos + 1 \in 1..Decls
  <2>1. Pos < Decls /\ Declares(prog, It)
    BY <1>1, <1>2, <1>4
  <2>2. It.k \in {"native", "func", "global"}
    BY <2>1, AtFacts DEF Declares
  <2> QED
    BY <1>2, <1>3, <2>1, <2>2 DEF a
<1>5. CASE Pos + 1 \in (Decls + 1)..(Decls + a)
  <2>1. Pos + 1 - Decls \in 1..a /\ Decls + (Pos + 1 - Decls) = Pos + 1 /\ Decls <= Pos
    BY <1>1, <1>2, <1>5
  <2>2. It = Aliases(prog)[Pos + 1 - Decls] /\ IsAlias(prog, It)
    BY <1>1, <1>2, <1>3, <2>1
  <2>3. It.k = "alias"
    BY <2>2, AtFacts DEF IsAlias
  <2> QED
    BY <1>2, <1>3, <2>1, <2>2, <2>3 DEF a
<1>6. CASE Pos + 1 \in (Decls + a + 1)..(Len(w) - 1)
  <2>1. Decls + a <= Pos /\ Defines(prog, It)
    BY <1>1, <1>2, <1>6
  <2>2. It.k \in {"define", "init"}
    BY <2>1, AtFacts DEF Defines
  <2> QED
    BY <1>2, <1>3, <2>1, <2>2 DEF a
<1>7. CASE Pos + 1 = Len(w)
  <2>1. It.k = "main" /\ Decls + a <= Pos
    BY <1>1, <1>2, <1>7, AtFacts
  <2> QED
    BY <1>2, <1>3, <1>7, <2>1 DEF a, w
<1> QED
  BY <1>1, <1>2, <1>4, <1>5, <1>6, <1>7

\* An object is an item of the first passes.
LEMMA SeenFacts ==
  ASSUME InvWork
  PROVE  /\ Seen \subseteq Objects(prog)
         /\ Decls <= Pos => Seen = Objects(prog)
         /\ Pos <= Decls => Bound = {}
         /\ Bound \subseteq DOMAIN Aliases(prog)
         /\ Decls + Len(Aliases(prog)) <= Pos => Bound = DOMAIN Aliases(prog)
         /\ Pos \in Nat /\ Pos <= Len(Work(prog))
<1> DEFINE w == Work(prog)
<1>1. prog \in Programs /\ Len(w) \in Nat /\ Decls \in Nat /\ Decls < Len(w)
  BY WorkFacts DEF InvWork, Decls
<1>2. Pos \in Nat /\ Pos <= Len(w)
  BY <1>1 DEF InvWork, Pos
<1>3. DOMAIN Aliases(prog) = 1..Len(Aliases(prog)) /\ Len(Aliases(prog)) \in Nat
  BY <1>1, AliasesFacts
<1>4. ASSUME Decls <= Pos, NEW x \in Objects(prog)
      PROVE  x \in Seen
  <2>1. Declares(prog, x)
    BY <1>1, ObjectFacts
  <2>2. PICK j \in 1..Decls : w[j] = x
    BY <1>1, <2>1, WorkFacts DEF Decls
  <2>3. j \in 1..Pos
    BY <1>1, <1>2, <1>4
  <2> QED
    BY <2>2, <2>3 DEF Seen
<1>5. Seen \subseteq Objects(prog)
  BY DEF Seen
<1>6. /\ Pos <= Decls => Bound = {}
      /\ Bound \subseteq DOMAIN Aliases(prog)
      /\ Decls + Len(Aliases(prog)) <= Pos => Bound = DOMAIN Aliases(prog)
  BY <1>1, <1>2, <1>3 DEF Bound
<1> QED
  BY <1>2, <1>4, <1>5, <1>6

\* After an item.
LEMMA Advance ==
  ASSUME InvWork, work # <<>>, prog' = prog, work' = Tail(work),
         status' = "load" \/ (status' = "run" /\ work' = <<>>)
  PROVE  /\ InvWork' /\ Pos' = Pos + 1 /\ Decls' = Decls
         /\ Seen' = Seen \cup (Objects(prog) \cap {It})
         /\ Bound' = Bound \cup {k \in DOMAIN Aliases(prog) : Decls + k = Pos + 1}
<1>1. /\ Pos \in Nat /\ Pos + 1 \in 1..Len(Work(prog))
      /\ It = Work(prog)[Pos + 1]
      /\ Tail(work) \in Seq(Ats) /\ Len(Tail(work)) = Len(work) - 1
      /\ \A i \in 1..(Len(work) - 1) : Tail(work)[i] = Work(prog)[Pos + 1 + i]
  BY CurrentItem
<1>2. /\ Len(work) \in Nat /\ Len(work) <= Len(Work(prog)) /\ Len(Work(prog)) \in Nat
      /\ Decls \in Nat /\ Len(work) # 0
  BY WorkFacts DEF InvWork, Decls
<1>3. Pos' = Pos + 1 /\ Decls' = Decls
  BY <1>1, <1>2 DEF Pos, Decls
<1>4. InvWork'
  <2>1. \A i \in 1..Len(work') : work'[i] = Work(prog')[Pos' + i]
    BY <1>1, <1>2, <1>3
  <2>2. work' \in Seq(Ats) /\ Len(work') \in 0..Len(Work(prog'))
    BY <1>1, <1>2
  <2> QED
    BY <2>1, <2>2 DEF InvWork
<1>5. 1..(Pos + 1) = (1..Pos) \cup {Pos + 1}
  BY <1>1
<1>6. Seen' = Seen \cup (Objects(prog) \cap {It})
  BY <1>1, <1>3, <1>5 DEF Seen
<1>7. DOMAIN Aliases(prog) \subseteq Nat
  BY AliasesFacts DEF InvWork
<1>8. Bound' = Bound \cup {k \in DOMAIN Aliases(prog) : Decls + k = Pos + 1}
  BY <1>1, <1>2, <1>3, <1>7 DEF Bound
<1> QED
  BY <1>3, <1>4, <1>6, <1>8

-----------------------------------------------------------------------------
(* Look-up                                                                 *)

\* The objects and aliases of a name are those with its symbol.
LEMMA NamedSymbols ==
  ASSUME InvWork, InvTable, Decls <= Pos, NEW n \in Nat, Bound = 1..n,
         NEW m \in DOMAIN prog \cup {NoModule}, NEW name, NEW linkage \in Linkages
  PROVE  LET sym == Symbol(linkage, m, name)
             xs == ObjectsNamed(prog, m, name, linkage)
             ks == EarlyAliasesNamed(prog, m, name, linkage, n)
         IN /\ xs \subseteq Seen /\ \A x \in xs : forward[sym] = locs[x]
            /\ ks \subseteq Bound /\ \A k \in ks : forward[sym] = locs[EarlyTargets(prog)[k]]
            /\ xs # {} \/ ks # {} <=> sym \in DOMAIN forward
<1> DEFINE sym == Symbol(linkage, m, name)
           xs == ObjectsNamed(prog, m, name, linkage)
           ks == EarlyAliasesNamed(prog, m, name, linkage, n)
<1>1. prog \in Programs /\ Seen = Objects(prog)
  BY SeenFacts DEF InvWork
<1>2. ASSUME NEW x \in Seen
      PROVE  x \in xs <=> ObjectSym(prog, x) = sym
  <2>1. Source(prog, x).linkage \in Linkages
    BY DEF InvTable
  <2>2. x \in xs <=> /\ Source(prog, x).name = name /\ Source(prog, x).linkage = linkage
                     /\ linkage = "internal" => x.m = m
    BY <1>1 DEF ObjectsNamed, Named
  <2> QED
    BY <2>1, <2>2 DEF ObjectSym, Symbol, External, Linkages
<1>3. ASSUME NEW k \in Bound
      PROVE  k \in ks <=> AliasSym(prog, k) = sym
  <2>1. AliasAt(prog, k).linkage \in Linkages
    BY DEF InvTable
  <2>2. k \in ks <=> /\ AliasAt(prog, k).name = name /\ AliasAt(prog, k).linkage = linkage
                     /\ linkage = "internal" => Aliases(prog)[k].m = m
    BY DEF EarlyAliasesNamed, Named
  <2> QED
    BY <2>1, <2>2 DEF AliasSym, Symbol, External, Linkages
<1>4. xs \subseteq Seen /\ ks \subseteq Bound
  BY <1>1 DEF ObjectsNamed, EarlyAliasesNamed
<1> HIDE DEF xs, ks, sym
<1>5. \A x \in xs : forward[sym] = locs[x]
  BY <1>2, <1>4 DEF InvTable
<1>6. \A k \in ks : forward[sym] = locs[EarlyTargets(prog)[k]]
  BY <1>3, <1>4 DEF InvTable
<1>7. xs # {} \/ ks # {} <=> sym \in DOMAIN forward
  BY <1>2, <1>3, <1>4 DEF InvTable
<1> QED
  BY <1>4, <1>5, <1>6, <1>7 DEF xs, ks, sym

\* SymbolTable::lookup finds the definition of the object that the name denotes,
\* by the aliases added so far.
LEMMA LookupDenotes ==
  ASSUME InvWork, InvTable, Decls <= Pos, NEW n \in Nat, Bound = 1..n,
         NEW m \in DOMAIN prog \cup {NoModule}, NEW name
  PROVE  /\ EarlyDenote(prog, m, name, n, EarlyTargets(prog)) \in Objects(prog)
         /\ lookup(m, name) = locs[EarlyDenote(prog, m, name, n, EarlyTargets(prog))]
<1> DEFINE xs(l) == ObjectsNamed(prog, m, name, l)
           ks(l) == EarlyAliasesNamed(prog, m, name, l, n)
           any(l) == xs(l) # {} \/ ks(l) # {}
           pick(l) == IF xs(l) # {} THEN CHOOSE x \in xs(l) : TRUE
                      ELSE EarlyTargets(prog)[Min(ks(l))]
           e == ExplodeObject(prog)
           int == Symbol("internal", m, name)
           ext == External(name)
<1>1. prog \in Programs /\ Seen = Objects(prog)
  BY SeenFacts DEF InvWork
<1>2. EarlyDenote(prog, m, name, n, EarlyTargets(prog))
        = IF any("internal") THEN pick("internal")
          ELSE IF any("external") THEN pick("external") ELSE e
  BY DEF EarlyDenote
<1>3. Symbol("external", m, name) = ext
  BY DEF Symbol
<1>4. ASSUME NEW l \in Linkages
      PROVE  LET sym == Symbol(l, m, name)
             IN /\ any(l) <=> sym \in DOMAIN forward
                /\ any(l) => pick(l) \in Objects(prog) /\ forward[sym] = locs[pick(l)]
  <2> DEFINE sym == Symbol(l, m, name)
             X == xs(l)
             K == ks(l)
             x == CHOOSE y \in X : TRUE
             k == Min(K)
  <2>1. /\ X \subseteq Seen /\ \A y \in X : forward[sym] = locs[y]
        /\ K \subseteq Bound /\ \A j \in K : forward[sym] = locs[EarlyTargets(prog)[j]]
        /\ X # {} \/ K # {} <=> sym \in DOMAIN forward
    BY NamedSymbols
  <2>2. X # {} => x \in X
    OBVIOUS
  <2>3. K # {} => k \in K
    <3>1. K \in SUBSET Nat
      BY DEF EarlyAliasesNamed
    <3> HIDE DEF K
    <3> QED
      BY <3>1, MinFacts
  <2>4. pick(l) = IF X # {} THEN x ELSE EarlyTargets(prog)[k]
    OBVIOUS
  <2>5. any(l) <=> X # {} \/ K # {}
    OBVIOUS
  <2>6. \A j \in Bound : EarlyTargets(prog)[j] \in Objects(prog)
    BY DEF InvTable
  <2> HIDE DEF X, K, x, k, sym, pick, any
  <2>7. any(l) => pick(l) \in Objects(prog) /\ forward[sym] = locs[pick(l)]
    <3>1. CASE X # {}
      <4>1. x \in Objects(prog) /\ forward[sym] = locs[x] /\ pick(l) = x
        BY <1>1, <2>1, <2>2, <2>4, <3>1
      <4> QED
        BY <4>1
    <3>2. CASE X = {} /\ K # {}
      <4>1. k \in K /\ k \in Bound /\ pick(l) = EarlyTargets(prog)[k]
        BY <2>1, <2>3, <2>4, <3>2
      <4>2. pick(l) \in Objects(prog) /\ forward[sym] = locs[pick(l)]
        BY <2>1, <2>6, <4>1
      <4> QED
        BY <4>2
    <3> QED
      BY <2>5, <3>1, <3>2
  <2> QED
    BY <2>1, <2>5, <2>7 DEF sym
<1>5. /\ any("internal") <=> int \in DOMAIN forward
      /\ any("internal") => pick("internal") \in Objects(prog) /\ forward[int] = locs[pick("internal")]
      /\ any("external") <=> ext \in DOMAIN forward
      /\ any("external") => pick("external") \in Objects(prog) /\ forward[ext] = locs[pick("external")]
  <2>1. "internal" \in Linkages /\ "external" \in Linkages
    BY DEF Linkages
  <2> HIDE DEF any, pick
  <2> QED
    BY <1>3, <1>4, <2>1
<1>6. e \in Objects(prog) /\ e.k = "native" /\ Natives[e.i] = Explode
  BY <1>1, ExplodeIsObject DEF ExplodeObject
<1>7. forward[External(Explode)] = locs[e]
  <2>1. ObjectSym(prog, e) = External(Explode)
    BY <1>1, <1>6, ObjectParts DEF ObjectSym, Symbol
  <2> HIDE DEF e
  <2> QED
    BY <1>1, <1>6, <2>1 DEF InvTable
<1>8. m = NoModule => ~any("internal")
  <2>1. ASSUME m = NoModule, NEW x \in xs("internal")
        PROVE  FALSE
    <3>1. x \in Objects(prog) /\ x.m = NoModule /\ Source(prog, x).linkage = "internal"
      BY <2>1 DEF ObjectsNamed, Named
    <3>2. NoModule \notin DOMAIN prog
      BY <1>1, ProgramFacts DEF NoModule
    <3> QED
      BY <1>1, <3>1, <3>2, ObjectParts
  <2>2. ASSUME m = NoModule, NEW k \in ks("internal")
        PROVE  FALSE
    <3>1. k \in Bound /\ Aliases(prog)[k].m = NoModule
      BY <2>2 DEF EarlyAliasesNamed, Named
    <3>2. IsAlias(prog, Aliases(prog)[k]) /\ NoModule \notin DOMAIN prog
      BY <1>1, <3>1, AliasesFacts, SeenFacts, ProgramFacts DEF NoModule
    <3> QED
      BY <3>1, <3>2, AtFacts DEF IsAlias
  <2> QED
    BY <2>1, <2>2
<1>9. lookup(m, name) = IF m # NoModule /\ int \in DOMAIN forward THEN forward[int]
                        ELSE IF ext \in DOMAIN forward THEN forward[ext]
                        ELSE forward[External(Explode)]
  BY DEF lookup
<1> HIDE DEF any, pick, e, int, ext
<1> QED
  BY <1>2, <1>5, <1>6, <1>7, <1>8, <1>9

-----------------------------------------------------------------------------
(* The table of symbols                                                    *)

TableInv == InvWork /\ InvTable /\ InvLocs

\* Steps that declare nothing and add no alias.
LEMMA SameTable ==
  ASSUME InvTable, InvLocs, Seen' = Seen, Bound' = Bound,
         UNCHANGED <<prog, forward, locs, next_thread_local_key>>, next' \in Nat, next <= next'
  PROVE  InvTable' /\ InvLocs'
<1>1. InvTable'
  BY DEF InvTable
<1>2. InvLocs'
  BY DEF InvLocs
<1> QED
  BY <1>1, <1>2

\* An object gets a symbol and a definition.
DeclareObject ==
  LET sym == ObjectSym(prog, It)
  IN /\ status = "load" /\ work # <<>> /\ It \in Objects(prog)
     /\ Source(prog, It).linkage \in Linkages /\ sym \notin DOMAIN forward
     /\ IF ThreadLocal(prog, It) THEN AddThreadLocal(sym) ELSE AddGlobal(sym)
     /\ locs' = With(locs, It, forward'[sym])
     /\ Done

\* It is a new one.
LEMMA DeclareFacts ==
  ASSUME TableInv, DeclareObject
  PROVE  /\ InvWork' /\ Pos' = Pos + 1 /\ Decls' = Decls
         /\ It \in Objects(prog) /\ It \notin Seen /\ Seen' = Seen \cup {It}
         /\ Bound = {} /\ Bound' = {} /\ Pos < Decls
         /\ forward' = With(forward, ObjectSym(prog, It), locs'[It])
         /\ \A x \in Seen : locs'[x] = locs[x]
         /\ DOMAIN locs' = Seen'
         /\ locs'[It] = IF ThreadLocal(prog, It) THEN Key(next_thread_local_key) ELSE Address(next)
<1> USE DEF TableInv
<1> DEFINE sym == ObjectSym(prog, It)
<1>1. /\ status = "load" /\ work # <<>> /\ It \in Objects(prog)
      /\ sym \notin DOMAIN forward /\ locs' = With(locs, It, forward'[sym]) /\ Done
      /\ IF ThreadLocal(prog, It) THEN AddThreadLocal(sym) ELSE AddGlobal(sym)
  BY DEF DeclareObject
<1>2. prog \in Programs
  BY DEF InvWork
<1>3. It.k \in {"native", "func", "global"}
  BY <1>1, <1>2, ObjectParts
<1>4. Pos < Decls
  BY <1>1, <1>3, ItemPlaces
<1>5. /\ InvWork' /\ Pos' = Pos + 1 /\ Decls' = Decls
      /\ Seen' = Seen \cup (Objects(prog) \cap {It})
      /\ Bound' = Bound \cup {k \in DOMAIN Aliases(prog) : Decls + k = Pos + 1}
  <2>1. prog' = prog /\ work' = Tail(work) /\ status' = "load"
    BY <1>1 DEF Done
  <2> QED
    BY <1>1, <2>1, Advance
<1>6. Bound = {} /\ Bound' = {}
  <2>1. Pos \in Nat /\ Decls \in Nat /\ DOMAIN Aliases(prog) = 1..Len(Aliases(prog))
    BY <1>1, ItemPlaces, SeenFacts
  <2>2. Bound = {}
    BY <1>4, <2>1, SeenFacts
  <2> QED
    BY <1>4, <1>5, <2>1, <2>2
<1>7. It \notin Seen
  BY <1>1 DEF InvTable
<1>8. /\ forward' = With(forward, sym, IF ThreadLocal(prog, It) THEN Key(next_thread_local_key)
                                       ELSE Address(next))
  BY <1>1 DEF AddThreadLocal, AddGlobal
<1> HIDE DEF sym
<1>9. DOMAIN locs = Seen
  BY DEF InvTable
<1>10. locs'[It] = forward'[sym] /\ DOMAIN locs' = Seen' /\ \A x \in Seen : locs'[x] = locs[x]
  <2> DEFINE d == forward'[sym]
  <2>1. locs' = With(locs, It, d) /\ Seen' = DOMAIN locs \cup {It}
    BY <1>1, <1>5, <1>9
  <2> HIDE DEF d
  <2> QED
    BY <1>7, <1>9, <2>1 DEF d, With
<1> QED
  <2> DEFINE d == IF ThreadLocal(prog, It) THEN Key(next_thread_local_key) ELSE Address(next)
  <2>1. forward' = With(forward, sym, d)
    BY <1>8
  <2> HIDE DEF d
  <2>2. forward'[sym] = d
    BY <2>1 DEF With
  <2>3. locs'[It] = d /\ forward' = With(forward, sym, locs'[It])
    BY <1>10, <2>1, <2>2
  <2>4. Seen' = Seen \cup {It}
    BY <1>1, <1>5
  <2> QED
    BY <1>1, <1>4, <1>5, <1>6, <1>7, <1>10, <2>3, <2>4 DEF sym, d

\* So the table grows by the symbol, and the definition is a new one.
LEMMA DeclareKeeps ==
  ASSUME TableInv, DeclareObject
  PROVE  TableInv'
<1> USE DEF TableInv
<1> DEFINE sym == ObjectSym(prog, It)
<1>1. /\ InvWork'
      /\ It \in Objects(prog) /\ It \notin Seen /\ Seen' = Seen \cup {It}
      /\ Bound = {} /\ Bound' = {}
      /\ forward' = With(forward, sym, locs'[It])
      /\ \A x \in Seen : locs'[x] = locs[x]
      /\ DOMAIN locs' = Seen'
      /\ locs'[It] = IF ThreadLocal(prog, It) THEN Key(next_thread_local_key) ELSE Address(next)
  BY DeclareFacts
<1>2. prog' = prog /\ sym \notin DOMAIN forward /\ Source(prog, It).linkage \in Linkages
  BY DEF DeclareObject, Done
<1>3. /\ DOMAIN forward = {ObjectSym(prog, x) : x \in Seen}
      /\ \A x \in Seen : Source(prog, x).linkage \in Linkages /\ forward[ObjectSym(prog, x)] = locs[x]
      /\ \A x, y \in Seen : ObjectSym(prog, x) = ObjectSym(prog, y) => x = y
  BY <1>1 DEF InvTable
<1>4. /\ DOMAIN forward' = DOMAIN forward \cup {sym} /\ forward'[sym] = locs'[It]
      /\ \A y \in DOMAIN forward : forward'[y] = forward[y]
  <2> DEFINE d == locs'[It]
  <2>1. forward' = With(forward, sym, d)
    BY <1>1
  <2> HIDE DEF d, sym
  <2>2. forward'[sym] = d /\ DOMAIN forward' = DOMAIN forward \cup {sym}
    BY <2>1 DEF With
  <2>3. \A y \in DOMAIN forward : forward'[y] = forward[y]
    BY <1>2, <2>1 DEF With
  <2> QED
    BY <2>2, <2>3 DEF d
<1>5. InvTable'
  <2>1. \A x \in Seen : ObjectSym(prog, x) \in DOMAIN forward /\ ObjectSym(prog, x) # sym
    BY <1>2, <1>3
  <2>2. DOMAIN forward' = {ObjectSym(prog, x) : x \in Seen'}
    BY <1>1, <1>3, <1>4
  <2>3. ASSUME NEW x \in Seen'
        PROVE  /\ Source(prog, x).linkage \in Linkages /\ forward'[ObjectSym(prog, x)] = locs'[x]
    <3>1. CASE x = It
      BY <1>2, <1>4, <3>1
    <3>2. CASE x \in Seen
      BY <1>1, <1>3, <1>4, <2>1, <3>2
    <3> QED
      BY <1>1, <3>1, <3>2
  <2>4. \A x, y \in Seen' : ObjectSym(prog, x) = ObjectSym(prog, y) => x = y
    BY <1>1, <1>3, <2>1
  <2> HIDE DEF sym
  <2> QED
    BY <1>1, <1>2, <2>2, <2>3, <2>4 DEF InvTable
<1>6. InvLocs'
  <2>1. /\ next \in Nat /\ next_thread_local_key \in Nat
        /\ next' \in Nat /\ next_thread_local_key' \in Nat
        /\ next <= next' /\ next_thread_local_key <= next_thread_local_key'
        /\ ThreadLocal(prog, It) => next_thread_local_key < next_thread_local_key'
        /\ ~ThreadLocal(prog, It) => next < next'
    BY DEF InvLocs, DeclareObject, AddThreadLocal, AddGlobal
  <2>2. ASSUME NEW x \in Seen'
        PROVE  IF ThreadLocal(prog, x)
               THEN /\ locs'[x] = Key(locs'[x].v) /\ locs'[x].v \in Nat
                    /\ locs'[x].v < next_thread_local_key'
               ELSE locs'[x] = Address(locs'[x].v) /\ locs'[x].v \in Nat /\ locs'[x].v < next'
    <3>1. CASE x = It
      BY <1>1, <2>1, <3>1 DEF Key, Address
    <3>2. CASE x \in Seen
      BY <1>1, <2>1, <3>2 DEF InvLocs
    <3> QED
      BY <1>1, <3>1, <3>2
  <2>3. ASSUME NEW x \in Seen
        PROVE  locs[x] # locs'[It]
    <3> DEFINE v == locs[x].v
    <3>0. \/ locs[x] = Key(v) /\ v \in Nat /\ v < next_thread_local_key
          \/ locs[x] = Address(v) /\ v \in Nat /\ v < next
      BY DEF InvLocs
    <3> HIDE DEF v
    <3>1. CASE ThreadLocal(prog, It)
      BY <1>1, <2>1, <3>0, <3>1 DEF Key, Address
    <3>2. CASE ~ThreadLocal(prog, It)
      BY <1>1, <2>1, <3>0, <3>2 DEF Key, Address
    <3> QED
      BY <3>1, <3>2
  <2>4. \A x, y \in Seen' : locs'[x] = locs'[y] => x = y
    BY <1>1, <2>3 DEF InvLocs
  <2> QED
    BY <1>2, <2>1, <2>2, <2>4 DEF InvLocs
<1> QED
  BY <1>1, <1>5, <1>6

\* Keys are the definitions of thread-locals.
LEMMA ConstIsGlobal ==
  ASSUME InvLocs, NEW x \in Seen
  PROVE  as_const(locs[x]) <=> ~ThreadLocal(prog, x)
<1> DEFINE v == locs[x].v
<1>1. CASE ThreadLocal(prog, x)
  <2>1. locs[x] = Key(v)
    BY <1>1 DEF InvLocs
  <2> HIDE DEF v
  <2>2. locs[x].k = "tls"
    BY <2>1 DEF Key
  <2> QED
    BY <1>1, <2>2 DEF as_const
<1>2. CASE ~ThreadLocal(prog, x)
  <2>1. locs[x] = Address(v)
    BY <1>2 DEF InvLocs
  <2> HIDE DEF v
  <2>2. locs[x].k = "global"
    BY <2>1 DEF Address
  <2> QED
    BY <1>2, <2>2 DEF as_const
<1> QED
  BY <1>1, <1>2

\* Where the pass over the aliases is, and what it looks up.
LEMMA AliasFacts ==
  ASSUME TableInv, Item("alias")
  PROVE  LET k == Pos + 1 - Decls
         IN /\ k \in DOMAIN Aliases(prog) /\ Bound = 1..(k - 1) /\ Seen = Objects(prog)
            /\ prog[It.m].aliases[It.i] = AliasAt(prog, k)
            /\ Symbol(AliasAt(prog, k).linkage, It.m, AliasAt(prog, k).name) = AliasSym(prog, k)
            /\ EarlyTargets(prog)[k] \in Objects(prog)
            /\ lookup(It.m, AliasAt(prog, k).target) = locs[EarlyTargets(prog)[k]]
            /\ as_const(locs[EarlyTargets(prog)[k]]) <=> ~ThreadLocal(prog, EarlyTargets(prog)[k])
<1> USE DEF TableInv
<1> DEFINE k == Pos + 1 - Decls
           target == AliasAt(prog, k).target
<1>1. work # <<>> /\ It.k = "alias" /\ prog \in Programs
  BY DEF Item, It, InvWork
<1>2. /\ Decls \in Nat /\ Len(Aliases(prog)) \in Nat /\ Decls <= Pos
      /\ DOMAIN Aliases(prog) = 1..Len(Aliases(prog))
      /\ k \in DOMAIN Aliases(prog) /\ It = Aliases(prog)[k] /\ IsAlias(prog, It)
  BY <1>1, ItemPlaces
<1>3. Pos \in Nat /\ Seen = Objects(prog)
  BY <1>2, SeenFacts
<1>4. Bound = 1..(k - 1) /\ k - 1 \in Nat
  BY <1>2, <1>3 DEF Bound
<1>5. It.m \in DOMAIN prog
  BY <1>2, AtFacts DEF IsAlias
<1>6. EarlyTargets(prog)[k] = EarlyDenote(prog, It.m, target, k - 1, EarlyTargets(prog))
  BY <1>1, <1>2, TargetsFacts
<1> HIDE DEF k
<1>7. /\ EarlyDenote(prog, It.m, target, k - 1, EarlyTargets(prog)) \in Objects(prog)
      /\ lookup(It.m, target) = locs[EarlyDenote(prog, It.m, target, k - 1, EarlyTargets(prog))]
  <2> HIDE DEF target
  <2> QED
    BY <1>2, <1>4, <1>5, LookupDenotes
<1>8. /\ prog[It.m].aliases[It.i] = AliasAt(prog, k)
      /\ Symbol(AliasAt(prog, k).linkage, It.m, AliasAt(prog, k).name) = AliasSym(prog, k)
  BY <1>2 DEF AliasAt, AliasSym
<1>9. as_const(locs[EarlyTargets(prog)[k]]) <=> ~ThreadLocal(prog, EarlyTargets(prog)[k])
  BY <1>3, <1>6, <1>7, ConstIsGlobal
<1> QED
  BY <1>2, <1>3, <1>4, <1>6, <1>7, <1>8, <1>9 DEF k, target

\* An alias gets the definition of what it denotes.
LEMMA AliasKeeps ==
  ASSUME TableInv, AddAlias, ~Panic
  PROVE  /\ TableInv' /\ Seen' = Seen /\ Pos' = Pos + 1 /\ Decls' = Decls
         /\ UNCHANGED <<prog, status, reverse, next_thread_local_key, functions, thread_local_inits,
                        next, mem, locs, meant, thread_locals, got, ops>>
         /\ DOMAIN forward \subseteq DOMAIN forward'
         /\ \A s \in DOMAIN forward : forward'[s] = forward[s]
         /\ \A s \in DOMAIN forward' : \E x \in Seen : forward'[s] = locs[x]
<1> USE DEF TableInv
<1> DEFINE k == Pos + 1 - Decls
           sym == AliasSym(prog, k)
           T == EarlyTargets(prog)[k]
<1>1. /\ k \in DOMAIN Aliases(prog) /\ Bound = 1..(k - 1) /\ Seen = Objects(prog)
      /\ prog[It.m].aliases[It.i] = AliasAt(prog, k)
      /\ Symbol(AliasAt(prog, k).linkage, It.m, AliasAt(prog, k).name) = sym
      /\ T \in Objects(prog)
      /\ lookup(It.m, AliasAt(prog, k).target) = locs[T]
      /\ as_const(locs[T]) <=> ~ThreadLocal(prog, T)
  BY AliasFacts DEF AddAlias
<1>2. status = "load" /\ work # <<>> /\ It.k = "alias"
  BY DEF AddAlias, Item, It
<1>3. /\ AliasAt(prog, k).linkage \in Linkages
      /\ ~ThreadLocal(prog, T)
      /\ sym \in DOMAIN forward => forward[sym] = locs[T]
      /\ forward' = With(forward, sym, locs[T]) /\ Done
      /\ UNCHANGED <<reverse, next_thread_local_key, functions, thread_local_inits, next, mem, locs,
                     meant>>
  <2> HIDE DEF k, sym, T, TableInv
  <2> QED
    BY <1>1 DEF AddAlias
<1>4. prog' = prog /\ work' = Tail(work) /\ status' = "load"
  BY <1>2, <1>3 DEF Done
<1>5. /\ InvWork' /\ Pos' = Pos + 1 /\ Decls' = Decls
      /\ Seen' = Seen \cup (Objects(prog) \cap {It})
      /\ Bound' = Bound \cup {j \in DOMAIN Aliases(prog) : Decls + j = Pos + 1}
  BY <1>2, <1>4, Advance
<1>6. Seen' = Seen
  BY <1>1, <1>5
<1>7. Bound' = Bound \cup {k}
  <2>1. Pos \in Nat /\ Decls \in Nat /\ DOMAIN Aliases(prog) = 1..Len(Aliases(prog))
    BY <1>2, SeenFacts, ItemPlaces
  <2> QED
    BY <1>1, <1>5, <2>1
<1> HIDE DEF k, sym, T
<1>8. /\ DOMAIN forward' = DOMAIN forward \cup {sym}
      /\ forward'[sym] = locs[T]
      /\ \A s \in DOMAIN forward : forward'[s] = forward[s]
  BY <1>3 DEF With
<1>9. /\ DOMAIN forward = {ObjectSym(prog, x) : x \in Seen} \cup {AliasSym(prog, j) : j \in Bound}
      /\ DOMAIN locs = Seen
      /\ \A x \in Seen : /\ Source(prog, x).linkage \in Linkages
                         /\ forward[ObjectSym(prog, x)] = locs[x]
      /\ \A j \in Bound : /\ AliasAt(prog, j).linkage \in Linkages
                          /\ EarlyTargets(prog)[j] \in Objects(prog)
                          /\ ~ThreadLocal(prog, EarlyTargets(prog)[j])
                          /\ forward[AliasSym(prog, j)] = locs[EarlyTargets(prog)[j]]
      /\ \A x, y \in Seen : ObjectSym(prog, x) = ObjectSym(prog, y) => x = y
  BY DEF InvTable
<1>10. InvTable'
  <2>1. \A x \in Seen : forward'[ObjectSym(prog, x)] = locs[x]
    BY <1>8, <1>9
  <2>2. ASSUME NEW j \in Bound'
        PROVE  /\ AliasAt(prog, j).linkage \in Linkages
               /\ EarlyTargets(prog)[j] \in Objects(prog)
               /\ ~ThreadLocal(prog, EarlyTargets(prog)[j])
               /\ forward'[AliasSym(prog, j)] = locs[EarlyTargets(prog)[j]]
    <3>1. CASE j = k
      BY <1>1, <1>3, <1>8, <3>1 DEF sym, T
    <3>2. CASE j \in Bound
      BY <1>8, <1>9, <3>2
    <3> QED
      BY <1>7, <3>1, <3>2
  <2>3. DOMAIN forward' = {ObjectSym(prog, x) : x \in Seen} \cup {AliasSym(prog, j) : j \in Bound'}
    BY <1>7, <1>8, <1>9 DEF sym
  <2>4. locs' = locs
    BY <1>3
  <2> QED
    BY <1>4, <1>6, <1>9, <2>1, <2>2, <2>3, <2>4 DEF InvTable
<1>11. InvLocs'
  BY <1>3, <1>4, <1>6 DEF InvLocs
<1>12. \A s \in DOMAIN forward : \E x \in Seen : forward[s] = locs[x]
  BY <1>1, <1>9
<1>13. \A s \in DOMAIN forward' : \E x \in Seen : forward'[s] = locs[x]
  BY <1>1, <1>8, <1>12
<1> QED
  BY <1>3, <1>5, <1>6, <1>8, <1>10, <1>11, <1>13 DEF Done

\* An item that declares nothing.
LEMMA PassOver ==
  ASSUME TableInv, work # <<>>, It \notin Objects(prog), It.k # "alias",
         prog' = prog, work' = Tail(work), status' = "load" \/ (status' = "run" /\ work' = <<>>),
         UNCHANGED <<table, locs, next>>
  PROVE  TableInv' /\ Seen' = Seen /\ Bound' = Bound /\ Pos' = Pos + 1 /\ Decls' = Decls
<1> USE DEF TableInv
<1>1. /\ InvWork' /\ Pos' = Pos + 1 /\ Decls' = Decls
      /\ Seen' = Seen \cup (Objects(prog) \cap {It})
      /\ Bound' = Bound \cup {k \in DOMAIN Aliases(prog) : Decls + k = Pos + 1}
  BY Advance
<1>2. Seen' = Seen
  BY <1>1
<1>3. prog \in Programs /\ It = Work(prog)[Pos + 1]
  BY CurrentItem DEF InvWork
<1>4. ASSUME NEW k \in DOMAIN Aliases(prog), Decls + k = Pos + 1
      PROVE  FALSE
  <2>1. Work(prog)[Decls + k] = Aliases(prog)[k] /\ IsAlias(prog, Aliases(prog)[k])
    BY <1>3, WorkFacts, AliasesFacts DEF Decls
  <2> QED
    BY <1>3, <1>4, <2>1, AtFacts DEF IsAlias
<1>5. Bound' = Bound
  BY <1>1, <1>4
<1>6. next \in Nat /\ next' = next
  BY DEF InvLocs
<1>7. InvTable' /\ InvLocs'
  BY <1>2, <1>5, <1>6, SameTable DEF table
<1> QED
  BY <1>1, <1>2, <1>5, <1>7

\* The steps of the first passes: a panic, a new object, or a global that is
\* passed over.
LEMMA NativeStep ==
  ASSUME TableInv, AddNative
  PROVE  \/ /\ Panic /\ It \in Objects(prog)
            /\ ObjectSym(prog, It) \in DOMAIN forward
         \/ /\ DeclareObject /\ It.k = "native"
            /\ functions' = With(functions, next, [lazy |-> FALSE, it |-> It, refs |-> <<>>])
            /\ UNCHANGED <<thread_local_inits, mem, meant>>
<1> USE DEF TableInv
<1>1. work # <<>> /\ status = "load" /\ It.k = "native" /\ prog \in Programs
  BY DEF AddNative, Item, It, InvWork
<1>2. Declares(prog, It)
  BY <1>1, ItemPlaces
<1>3. It \in Objects(prog)
  BY <1>1, <1>2, ObjectFacts
<1> DEFINE sym == External(Natives[It.i])
<1>4. ObjectSym(prog, It) = sym /\ Source(prog, It).linkage \in Linkages
  BY <1>1, <1>3, ObjectParts DEF ObjectSym, Symbol, Linkages
<1>5. ~ThreadLocal(prog, It)
  BY <1>1 DEF ThreadLocal
<1>6. CASE sym \in DOMAIN forward
  BY <1>3, <1>4, <1>6 DEF AddNative
<1>7. CASE sym \notin DOMAIN forward
  <2>1. /\ AddGlobal(sym) /\ Done
        /\ functions' = With(functions, next, [lazy |-> FALSE, it |-> It, refs |-> <<>>])
        /\ locs' = With(locs, It, Address(next))
        /\ UNCHANGED <<thread_local_inits, mem, meant>>
    BY <1>7 DEF AddNative
  <2>2. forward'[sym] = Address(next)
    BY <2>1 DEF AddGlobal, With
  <2> HIDE DEF sym
  <2>3. DeclareObject
    BY <1>1, <1>3, <1>4, <1>5, <1>7, <2>1, <2>2 DEF DeclareObject
  <2> QED
    BY <1>1, <2>1, <2>3
<1> QED
  BY <1>6, <1>7

\* The same of functions.
LEMMA FuncStep ==
  ASSUME TableInv, DeclareFunc
  PROVE  \/ /\ Panic /\ It \in Objects(prog)
            /\ \/ Source(prog, It).linkage \notin Linkages
               \/ ObjectSym(prog, It) \in DOMAIN forward
         \/ /\ DeclareObject /\ It.k = "func"
            /\ UNCHANGED <<functions, thread_local_inits, mem, meant>>
<1> USE DEF TableInv
<1>1. work # <<>> /\ status = "load" /\ It.k = "func" /\ prog \in Programs
  BY DEF DeclareFunc, Item, It, InvWork
<1>2. Declares(prog, It)
  BY <1>1, ItemPlaces
<1>3. It \in Objects(prog)
  BY <1>1, <1>2, ObjectFacts
<1> DEFINE f == prog[It.m].funcs[It.i]
           sym == Symbol(f.linkage, It.m, f.name)
<1>4. ObjectSym(prog, It) = sym /\ Source(prog, It).linkage = f.linkage
  BY <1>1, <1>3, ObjectParts DEF ObjectSym
<1>5. ~ThreadLocal(prog, It)
  BY <1>1 DEF ThreadLocal
<1>6. CASE f.linkage \notin Linkages \/ sym \in DOMAIN forward
  BY <1>3, <1>4, <1>6 DEF DeclareFunc
<1>7. CASE ~(f.linkage \notin Linkages \/ sym \in DOMAIN forward)
  <2>1. /\ AddGlobal(sym) /\ Done
        /\ locs' = With(locs, It, Address(next))
        /\ UNCHANGED <<functions, thread_local_inits, mem, meant>>
    BY <1>7 DEF DeclareFunc
  <2>2. forward'[sym] = Address(next)
    BY <2>1 DEF AddGlobal, With
  <2> HIDE DEF sym, f
  <2>3. DeclareObject
    BY <1>1, <1>3, <1>4, <1>5, <1>7, <2>1, <2>2 DEF DeclareObject
  <2> QED
    BY <1>1, <2>1, <2>3
<1> QED
  BY <1>6, <1>7

\* And of globals.
LEMMA GlobalStep ==
  ASSUME TableInv, DeclareGlobal
  PROVE  \/ /\ Panic /\ It \in Objects(prog)
            /\ \/ Source(prog, It).linkage \notin Linkages
               \/ ObjectSym(prog, It) \in DOMAIN forward
         \/ /\ DeclareObject /\ It.k = "global"
            /\ UNCHANGED <<functions, thread_local_inits, mem, meant>>
         \/ /\ It.k = "global" /\ It \notin Objects(prog) /\ Done
            /\ UNCHANGED <<table, functions, thread_local_inits, next, mem, locs, meant>>
<1> USE DEF TableInv
<1>1. work # <<>> /\ status = "load" /\ It.k = "global" /\ prog \in Programs
  BY DEF DeclareGlobal, Item, It, InvWork
<1>2. Declares(prog, It)
  BY <1>1, ItemPlaces
<1> DEFINE g == prog[It.m].globals[It.i]
           sym == Symbol(g.linkage, It.m, g.name)
<1>3. It \in Objects(prog) <=> g.init # Declared
  BY <1>1, <1>2, ObjectFacts
<1>4. It \in Objects(prog) => Source(prog, It) = g /\ ObjectSym(prog, It) = sym
  BY <1>1, ObjectParts DEF ObjectSym
<1>5. ThreadLocal(prog, It) <=> g.tl
  BY <1>1 DEF ThreadLocal, Source
<1>6. CASE g.init = Declared
  <2>1. Done /\ UNCHANGED <<table, functions, thread_local_inits, next, mem, locs, meant>>
    BY <1>6 DEF DeclareGlobal
  <2> QED
    BY <1>1, <1>3, <1>6, <2>1
<1>7. CASE g.init # Declared /\ (g.linkage \notin Linkages \/ sym \in DOMAIN forward)
  <2>1. Panic
    BY <1>7 DEF DeclareGlobal
  <2> QED
    BY <1>3, <1>4, <1>7, <2>1
<1>8. CASE g.init # Declared /\ ~(g.linkage \notin Linkages \/ sym \in DOMAIN forward)
  <2>1. /\ IF g.tl THEN AddThreadLocal(sym) ELSE AddGlobal(sym)
        /\ locs' = With(locs, It, forward'[sym]) /\ Done
        /\ UNCHANGED <<functions, thread_local_inits, mem, meant>>
    BY <1>8 DEF DeclareGlobal
  <2> HIDE DEF sym, g
  <2>2. DeclareObject
    BY <1>1, <1>3, <1>4, <1>5, <1>8, <2>1 DEF DeclareObject
  <2> QED
    BY <1>1, <2>1, <2>2
<1> QED
  BY <1>6, <1>7, <1>8

-----------------------------------------------------------------------------
(* The last passes and the running program                                 *)

\* When all aliases are added, look-up finds what a name means.
LEMMA MeaningFacts ==
  ASSUME TableInv, Decls + Len(Aliases(prog)) <= Pos,
         NEW m \in DOMAIN prog \cup {NoModule}, NEW name
  PROVE  /\ EarlyMeaning(prog, m, name) \in Objects(prog) /\ Seen = Objects(prog)
         /\ lookup(m, name) = locs[EarlyMeaning(prog, m, name)]
         /\ as_const(lookup(m, name)) <=> ~ThreadLocal(prog, EarlyMeaning(prog, m, name))
<1> USE DEF TableInv
<1> DEFINE n == Len(Aliases(prog))
<1>1. /\ prog \in Programs /\ n \in Nat /\ DOMAIN Aliases(prog) = 1..n /\ Decls \in Nat
      /\ Pos \in Nat
  BY AliasesFacts, WorkFacts, SeenFacts DEF InvWork, Decls
<1>2. Decls <= Pos /\ Bound = 1..n /\ Seen = Objects(prog)
  BY <1>1, SeenFacts
<1>3. EarlyMeaning(prog, m, name) = EarlyDenote(prog, m, name, n, EarlyTargets(prog))
  BY DEF EarlyMeaning
<1> HIDE DEF n
<1>4. EarlyMeaning(prog, m, name) \in Objects(prog) /\ lookup(m, name) = locs[EarlyMeaning(prog, m, name)]
  BY <1>1, <1>2, <1>3, LookupDenotes
<1> QED
  BY <1>2, <1>4, ConstIsGlobal

\* Definitions and main come after all objects and aliases, and are neither.
LEMMA LateItem ==
  ASSUME TableInv, work # <<>>, It.k \in {"define", "init", "main"}
  PROVE  /\ It \notin Objects(prog) /\ Decls + Len(Aliases(prog)) <= Pos
         /\ Decls <= Pos /\ Seen = Objects(prog) /\ Bound = DOMAIN Aliases(prog)
<1> USE DEF TableInv
<1>1. prog \in Programs /\ Decls \in Nat /\ Len(Aliases(prog)) \in Nat /\ Pos \in Nat
  BY ItemPlaces, SeenFacts DEF InvWork
<1>2. Decls + Len(Aliases(prog)) <= Pos
  BY ItemPlaces
<1> QED
  BY <1>1, <1>2, ObjectParts, SeenFacts

\* The running program leaves what was loaded alone.
LEMMA RunStep ==
  ASSUME TableInv, Run
  PROVE  /\ UNCHANGED loaded /\ status = "run" /\ ops < MaxOps /\ ops' = ops + 1
         /\ next' \in Nat /\ next <= next'
<1>0. next \in Nat
  BY DEF TableInv, InvLocs
<1>1. CASE \E a \in DOMAIN functions : CallFunc(a)
  <2>1. PICK a \in DOMAIN functions : CallFunc(a)
    BY <1>1
  <2>2. Running /\ UNCHANGED <<loaded, next>>
    BY <2>1, Zenon DEF CallFunc
  <2> QED
    BY <1>0, <2>2 DEF Running
<1>2. CASE \E t \in Threads : \E a \in DOMAIN functions : \E i \in DOMAIN functions[a].refs :
             EvaluateThreadLocal(t, a, i)
  BY <1>0, <1>2 DEF EvaluateThreadLocal, Running
<1>3. CASE \E t \in Threads : \E a \in DOMAIN functions : \E i \in DOMAIN functions[a].refs :
             EvaluateGlobal(t, a, i)
  BY <1>0, <1>3 DEF EvaluateGlobal, Running
<1>4. CASE \E t \in Threads : \E name \in Exported : Dlsym(t, name)
  BY <1>0, <1>4 DEF Dlsym, Running
<1>5. CASE \E t \in Threads : \E w \in Words : Store(t, w)
  BY <1>0, <1>5 DEF Store, Running
<1> QED
  BY <1>1, <1>2, <1>3, <1>4, <1>5 DEF Run

\* What was loaded keeps the table.
LEMMA LoadedKeeps ==
  ASSUME TableInv, UNCHANGED loaded, next' \in Nat, next <= next'
  PROVE  TableInv' /\ Seen' = Seen /\ Bound' = Bound /\ Pos' = Pos /\ Decls' = Decls
<1> USE DEF TableInv
<1>1. UNCHANGED <<prog, work, status, forward, locs, next_thread_local_key>>
  BY DEF loaded, table
<1>2. Seen' = Seen /\ Bound' = Bound /\ Pos' = Pos /\ Decls' = Decls
  BY <1>1 DEF Seen, Bound, Pos, Decls
<1>3. InvWork'
  BY <1>1, <1>2 DEF InvWork
<1>4. InvTable' /\ InvLocs'
  BY <1>1, <1>2, SameTable
<1> QED
  BY <1>2, <1>3, <1>4

\* A panic too.
LEMMA PanicKeeps ==
  ASSUME TableInv, Panic
  PROVE  TableInv' /\ Seen' = Seen /\ Bound' = Bound /\ Pos' = Pos /\ Decls' = Decls
<1> USE DEF TableInv
<1>1. UNCHANGED <<prog, work, forward, locs, next_thread_local_key, next>> /\ status' = "panic"
  BY DEF Panic, table
<1>2. Seen' = Seen /\ Bound' = Bound /\ Pos' = Pos /\ Decls' = Decls
  BY <1>1 DEF Seen, Bound, Pos, Decls
<1>3. InvWork'
  BY <1>1, <1>2 DEF InvWork
<1>4. next \in Nat
  BY DEF InvLocs
<1>5. InvTable' /\ InvLocs'
  BY <1>1, <1>2, <1>4, SameTable
<1> QED
  BY <1>2, <1>3, <1>5

\* An item of the last passes is done.
LEMMA LateKeeps ==
  ASSUME TableInv, status = "load", work # <<>>, It.k \in {"define", "init"}, Done,
         UNCHANGED <<table, locs, next>>
  PROVE  TableInv' /\ Seen' = Seen /\ Bound' = Bound /\ Pos' = Pos + 1 /\ Decls' = Decls
<1>1. It \notin Objects(prog) /\ It.k # "alias"
  BY LateItem
<1>2. prog' = prog /\ work' = Tail(work) /\ status' = "load"
  BY DEF Done
<1> QED
  BY <1>1, <1>2, PassOver

\* The program starts.
LEMMA MainKeeps ==
  ASSUME TableInv, AddMain, ~Panic
  PROVE  /\ TableInv' /\ Seen' = Seen /\ Bound' = Bound /\ Pos' = Pos + 1 /\ Decls' = Decls
         /\ Pos' = Len(Work(prog))
         /\ UNCHANGED <<prog, table, functions, thread_local_inits, next, mem, locs,
                        thread_locals, got, meant, ops>>
         /\ status' = "run" /\ External("main") \in DOMAIN forward
         /\ as_const(forward[External("main")])
         /\ forward[External("main")].v \in DOMAIN functions
<1> USE DEF TableInv
<1>1. work # <<>> /\ It.k = "main"
  BY DEF AddMain, Item, It
<1>2. /\ status' = "run" /\ work' = <<>>
      /\ UNCHANGED <<prog, table, functions, thread_local_inits, next, mem, locs,
                     thread_locals, got, meant, ops>>
      /\ External("main") \in DOMAIN forward
      /\ as_const(forward[External("main")])
      /\ forward[External("main")].v \in DOMAIN functions
  BY DEF AddMain
<1>3. It \notin Objects(prog) /\ It.k # "alias"
  BY <1>1, LateItem
<1>4. Tail(work) = <<>> /\ Pos + 1 = Len(Work(prog))
  <2>1. Pos + 1 = Len(Work(prog)) /\ Len(work) \in Nat /\ Len(Work(prog)) \in Nat
        /\ Tail(work) \in Seq(Ats) /\ Len(Tail(work)) = Len(work) - 1
    BY <1>1, ItemPlaces, CurrentItem, WorkFacts DEF InvWork
  <2>2. Len(Tail(work)) = 0
    BY <2>1 DEF Pos
  <2> QED
    BY <2>1, <2>2, EmptySeq
<1>5. TableInv' /\ Seen' = Seen /\ Bound' = Bound /\ Pos' = Pos + 1 /\ Decls' = Decls
  BY <1>1, <1>2, <1>3, <1>4, PassOver
<1> QED
  BY <1>2, <1>4, <1>5

\* A global is initialised.
InitObject ==
  LET x == At("global", It.m, It.i)
  IN /\ status = "load" /\ work # <<>> /\ It.k = "init" /\ x \in Objects(prog)
     /\ Source(prog, x).init.c = "name" =>
          ~ThreadLocal(prog, EarlyMeaning(prog, x.m, Source(prog, x).init.name))
     /\ IF ThreadLocal(prog, x)
        THEN /\ thread_local_inits' = With(thread_local_inits, locs[x].v, EarlyStart(x))
             /\ meant' = [v \in DOMAIN meant \cup {<<x, t>> : t \in Threads} |->
                            IF v \in DOMAIN meant THEN meant[v] ELSE Start(x)]
             /\ UNCHANGED mem
        ELSE /\ mem' = With(mem, locs[x].v, EarlyStart(x))
             /\ meant' = With(meant, <<x>>, Start(x))
             /\ UNCHANGED thread_local_inits
     /\ Done /\ UNCHANGED <<table, functions, next, locs>>

\* Globals without initializer are passed over twice.
PassGlobal ==
  /\ status = "load" /\ work # <<>> /\ It \notin Objects(prog) /\ Done
  /\ \/ It.k = "global"
     \/ It.k = "init" /\ At("global", It.m, It.i) \notin Objects(prog)
  /\ UNCHANGED <<table, functions, thread_local_inits, next, mem, locs, meant>>

LEMMA InitStep ==
  ASSUME TableInv, InitGlobal
  PROVE  \/ /\ Panic
            /\ LET x == At("global", It.m, It.i)
               IN /\ x \in Objects(prog) /\ Source(prog, x).init.c = "name"
                  /\ ThreadLocal(prog, EarlyMeaning(prog, x.m, Source(prog, x).init.name))
         \/ InitObject
         \/ PassGlobal
<1> DEFINE g == prog[It.m].globals[It.i]
           x == At("global", It.m, It.i)
           init == compile_const(It.m, g.init)
           start == Initial(prog, It.m, g.init)
<1>1. work # <<>> /\ status = "load" /\ It.k = "init" /\ prog \in Programs
  <2>1. Item("init")
    BY Zenon DEF InitGlobal
  <2> QED
    BY <2>1 DEF Item, It, TableInv, InvWork
<1>2. PICK m, i : m \in DOMAIN prog /\ i \in DOMAIN prog[m].globals /\ It = At("init", m, i)
  <2>1. Defines(prog, It)
    BY <1>1, ItemPlaces DEF TableInv
  <2> QED
    BY <1>1, <2>1, AtFacts DEF Defines
<1>3. It.m = m /\ It.i = i /\ [It EXCEPT !.k = "global"] = x
  BY <1>2 DEF At
<1>4. x.k = "global" /\ x.m = m /\ x.i = i /\ Declares(prog, x)
  <2>1. x = At("global", m, i) /\ Declares(prog, x)
    BY <1>2, <1>3 DEF Declares
  <2> HIDE DEF x
  <2> QED
    BY <2>1, AtFacts
<1>5. x \in Objects(prog) <=> g.init # Declared
  BY <1>1, <1>3, <1>4, ObjectFacts
<1>6. Source(prog, x) = g /\ (ThreadLocal(prog, x) <=> g.tl) /\ Start(x) = start
  BY <1>3, <1>4 DEF Source, ThreadLocal, Start
<1> DEFINE early == IF g.init.c = "num" THEN g.init.n ELSE locs[EarlyMeaning(prog, m, g.init.name)].v
<1>12. EarlyStart(x) = early
  BY <1>4, <1>6 DEF EarlyStart
<1>7. It \notin Objects(prog) /\ Decls + Len(Aliases(prog)) <= Pos
  BY <1>1, LateItem
<1>8. g.init \in Constants
  <2> DEFINE S == [name : STRING, linkage : STRING, tl : BOOLEAN, init : Constants]
             s == prog[m].globals
  <2>1. s \in Seq(S) /\ i \in DOMAIN s
    BY <1>1, <1>2, ProgramFacts
  <2> HIDE DEF S, s
  <2>2. s[i] \in S
    BY <2>1
  <2> QED
    BY <1>3, <2>2 DEF S, s
<1> DEFINE c == g.init
           M == EarlyMeaning(prog, m, c.name)
<1>9. /\ lookup(m, c.name) = locs[M]
      /\ as_const(lookup(m, c.name)) <=> ~ThreadLocal(prog, M)
  <2>1. m \in DOMAIN prog \cup {NoModule}
    BY <1>2
  <2> DEFINE name == c.name
  <2> HIDE DEF name
  <2>2. /\ lookup(m, name) = locs[EarlyMeaning(prog, m, name)]
        /\ as_const(lookup(m, name)) <=> ~ThreadLocal(prog, EarlyMeaning(prog, m, name))
    BY <1>7, <2>1, MeaningFacts
  <2> QED
    BY <2>2 DEF name
<1>10. CASE c = Declared
  <2>1. Done /\ UNCHANGED <<table, functions, thread_local_inits, next, mem, locs, meant>>
    BY <1>10 DEF InitGlobal
  <2> HIDE DEF c, g
  <2> QED
    BY <1>1, <1>5, <1>7, <1>10, <2>1 DEF PassGlobal, c
<1>11. CASE c # Declared
  <2>1. /\ c.c = "num" \/ c.c = "name"
        /\ c.c = "num" => as_const(init) /\ init.v = early
        /\ c.c = "name" => (as_const(init) <=> ~ThreadLocal(prog, M)) /\ init.v = early
    <3>1. \/ c \in [c : {"num"}, n : Int]
          \/ c \in [c : {"name"}, name : STRING]
      BY <1>8, <1>11 DEF Constants
    <3> HIDE DEF g
    <3>2. CASE c \in [c : {"num"}, n : Int]
      <4>1. c.c = "num"
        BY <3>2
      <4> QED
        BY <4>1 DEF compile_const, as_const
    <3>3. CASE c \in [c : {"name"}, name : STRING]
      <4>1. c.c = "name"
        BY <3>3
      <4>2. init = lookup(m, c.name) /\ early = locs[M].v
        BY <1>3, <4>1 DEF compile_const
      <4> QED
        BY <1>9, <4>1, <4>2
    <3> QED
      BY <3>1, <3>2, <3>3
  <2>2. CASE ~as_const(init)
    <3>1. Panic
      BY <1>11, <2>2 DEF InitGlobal
    <3>2. c.c = "name" /\ ThreadLocal(prog, M)
      BY <2>1, <2>2
    <3> QED
      BY <1>4, <1>5, <1>6, <1>11, <3>1, <3>2
  <2>3. CASE as_const(init)
    <3>1. init.v = EarlyStart(x)
      BY <1>12, <2>1
    <3>2. c.c = "name" => ~ThreadLocal(prog, M)
      BY <2>1, <2>3
    <3> DEFINE y == [It EXCEPT !.k = "global"]
    <3>3. /\ IF g.tl
             THEN /\ thread_local_inits' = With(thread_local_inits, locs[y].v, init.v)
                  /\ meant' = [v \in DOMAIN meant \cup {<<y, t>> : t \in Threads} |->
                                 IF v \in DOMAIN meant THEN meant[v] ELSE start]
                  /\ UNCHANGED mem
             ELSE /\ mem' = With(mem, locs[y].v, init.v)
                  /\ meant' = With(meant, <<y>>, start)
                  /\ UNCHANGED thread_local_inits
          /\ Done /\ UNCHANGED <<table, functions, next, locs>>
      BY <1>11, <2>3 DEF InitGlobal
    <3>4. y = x
      BY <1>3
    <3>5. x \in Objects(prog) /\ (Source(prog, x).init.c = "name" =>
            ~ThreadLocal(prog, EarlyMeaning(prog, x.m, Source(prog, x).init.name)))
      BY <1>4, <1>5, <1>6, <1>11, <3>2
    <3> HIDE DEF y, x, g, init, start, early, M, c
    <3>6. InitObject
      BY <1>1, <1>6, <3>1, <3>3, <3>4, <3>5 DEF InitObject, x
    <3> QED
      BY <3>6
  <2> QED
    BY <2>2, <2>3
<1> QED
  BY <1>10, <1>11

\* A function becomes callable at its address.
LEMMA DefineStep ==
  ASSUME TableInv, DefineFunc
  PROVE  LET x == At("func", It.m, It.i)
         IN /\ status = "load" /\ work # <<>> /\ It.k = "define" /\ Done
            /\ x \in Objects(prog) /\ Seen = Objects(prog)
            /\ It = At("define", It.m, It.i) /\ ~ThreadLocal(prog, x)
            /\ functions' = With(functions, locs[x].v, [lazy |-> TRUE, it |-> It, refs |-> <<>>])
            /\ UNCHANGED <<table, thread_local_inits, next, mem, locs, meant>>
<1> DEFINE x == At("func", It.m, It.i)
<1>1. work # <<>> /\ status = "load" /\ It.k = "define" /\ prog \in Programs
  <2>1. Item("define")
    BY Zenon DEF DefineFunc
  <2> QED
    BY <2>1 DEF Item, It, TableInv, InvWork
<1>2. PICK m, i : m \in DOMAIN prog /\ i \in DOMAIN prog[m].funcs /\ It = At("define", m, i)
  <2>1. Defines(prog, It)
    BY <1>1, ItemPlaces DEF TableInv
  <2> QED
    BY <1>1, <2>1, AtFacts DEF Defines
<1>3. It.m = m /\ It.i = i /\ [It EXCEPT !.k = "func"] = x
  BY <1>2 DEF At
<1>4. x = At("func", m, i) /\ x.k = "func" /\ Declares(prog, x)
  <2>1. x = At("func", m, i) /\ Declares(prog, x)
    BY <1>2, <1>3 DEF Declares
  <2> HIDE DEF x
  <2> QED
    BY <2>1, AtFacts
<1>5. x \in Objects(prog)
  BY <1>1, <1>4, ObjectFacts
<1>6. Seen = Objects(prog)
  BY <1>1, LateItem
<1>7. ~ThreadLocal(prog, x)
  BY <1>4 DEF ThreadLocal
<1> DEFINE y == [It EXCEPT !.k = "func"]
<1>8. /\ Done /\ UNCHANGED <<table, thread_local_inits, next, mem, locs, meant>>
      /\ functions' = With(functions, locs[y].v, [lazy |-> TRUE, it |-> It, refs |-> <<>>])
  BY Zenon DEF DefineFunc
<1>9. y = x
  BY <1>3
<1> HIDE DEF x, y
<1> QED
  BY <1>1, <1>2, <1>3, <1>5, <1>6, <1>7, <1>8, <1>9 DEF x

\* The steps of the program.
NativeObject ==
  /\ DeclareObject /\ It.k = "native"
  /\ functions' = With(functions, next, [lazy |-> FALSE, it |-> It, refs |-> <<>>])
  /\ UNCHANGED <<thread_local_inits, mem, meant>>
ModuleObject ==
  /\ DeclareObject /\ It.k \in {"func", "global"}
  /\ UNCHANGED <<functions, thread_local_inits, mem, meant>>

LEMMA NextCases ==
  ASSUME TableInv, [Next]_vars
  PROVE  \/ Load /\ Panic
         \/ NativeObject
         \/ ModuleObject
         \/ PassGlobal
         \/ AddAlias /\ ~Panic
         \/ DefineFunc
         \/ InitObject
         \/ AddMain /\ ~Panic
         \/ Run
         \/ UNCHANGED vars
<1>1. CASE AddNative
  BY <1>1, NativeStep DEF NativeObject, Load
<1>2. CASE DeclareFunc
  BY <1>2, FuncStep DEF ModuleObject, Load
<1>3. CASE DeclareGlobal
  <2>1. work # <<>> /\ status = "load"
    BY <1>3 DEF DeclareGlobal, Item
  <2> QED
    BY <1>3, <2>1, GlobalStep DEF ModuleObject, PassGlobal, Load
<1>4. CASE InitGlobal
  BY <1>4, InitStep DEF Load
<1> QED
  BY <1>1, <1>2, <1>3, <1>4 DEF Next, Load

LEMMA TableInit ==
  ASSUME Init
  PROVE  TableInv /\ Pos = 0 /\ Seen = {}
<1>1. /\ prog \in Programs /\ work = Work(prog) /\ status = "load"
      /\ forward = Empty /\ next_thread_local_key = 0 /\ next = 1 /\ locs = Empty
  BY DEF Init
<1>2. work \in Seq(Ats) /\ Len(work) \in Nat /\ Decls \in Nat
  BY <1>1, WorkFacts DEF Decls
<1>3. Pos = 0
  BY <1>1, <1>2 DEF Pos
<1>4. InvWork
  BY <1>1, <1>2, <1>3 DEF InvWork
<1>5. Seen = {}
  BY <1>3 DEF Seen
<1>6. Bound = {}
  BY <1>2, <1>3, <1>4, SeenFacts
<1>7. InvTable
  BY <1>1, <1>5, <1>6 DEF InvTable, Empty
<1>8. InvLocs
  BY <1>1, <1>5 DEF InvLocs
<1> QED
  BY <1>3, <1>4, <1>5, <1>7, <1>8 DEF TableInv

\* What a step of the program never does to definitions: take one back.
LEMMA TableNext ==
  ASSUME TableInv, [Next]_vars
  PROVE  /\ TableInv' /\ prog' = prog /\ Decls' = Decls
         /\ Seen \subseteq Seen' /\ \A x \in Seen : locs'[x] = locs[x]
<1>0. next \in Nat /\ prog \in Programs
  BY DEF TableInv, InvLocs, InvWork
<1>1. CASE Panic
  BY <1>1, PanicKeeps DEF Panic
<1>2. CASE NativeObject \/ ModuleObject
  <2>1. DeclareObject
    BY <1>2 DEF NativeObject, ModuleObject
  <2>2. prog' = prog
    BY <2>1 DEF DeclareObject, Done
  <2> QED
    BY <2>1, <2>2, DeclareKeeps, DeclareFacts
<1>3. CASE PassGlobal
  <2>1. /\ work # <<>> /\ It \notin Objects(prog) /\ It.k # "alias"
        /\ prog' = prog /\ work' = Tail(work) /\ status' = "load" /\ UNCHANGED <<table, locs, next>>
    BY <1>3 DEF PassGlobal, Done
  <2> QED
    BY <2>1, PassOver
<1>4. CASE AddAlias /\ ~Panic
  BY <1>4, AliasKeeps
<1>5. CASE DefineFunc
  <2>1. /\ status = "load" /\ work # <<>> /\ It.k = "define" /\ Done
        /\ UNCHANGED <<table, locs, next>>
    BY <1>5, DefineStep
  <2> QED
    BY <2>1, LateKeeps DEF Done
<1>6. CASE InitObject
  <2>1. /\ status = "load" /\ work # <<>> /\ It.k = "init" /\ Done
        /\ UNCHANGED <<table, locs, next>>
    BY <1>6 DEF InitObject
  <2> QED
    BY <2>1, LateKeeps DEF Done
<1>7. CASE AddMain /\ ~Panic
  BY <1>7, MainKeeps
<1>8. CASE Run
  <2>1. UNCHANGED loaded /\ next' \in Nat /\ next <= next'
    BY <1>8, RunStep
  <2> QED
    BY <2>1, LoadedKeeps DEF loaded
<1>9. CASE UNCHANGED vars
  <2>1. UNCHANGED loaded /\ next' \in Nat /\ next <= next'
    BY <1>0, <1>9 DEF vars
  <2> QED
    BY <2>1, LoadedKeeps DEF loaded
<1> QED
  BY <1>1, <1>2, <1>3, <1>4, <1>5, <1>6, <1>7, <1>8, <1>9, NextCases

-----------------------------------------------------------------------------
(* The two tables agree                                                    *)

\* Steps that declare nothing.
LEMMA SameReverse ==
  ASSUME InvReverse, Seen' = Seen, UNCHANGED <<prog, reverse, locs>>, ops' \in 0..MaxOps
  PROVE  InvReverse'
BY DEF InvReverse

LEMMA DeclareReverse ==
  ASSUME TableInv, InvReverse, DeclareObject
  PROVE  InvReverse'
<1> DEFINE sym == ObjectSym(prog, It)
<1>1. /\ It \in Objects(prog) /\ It \notin Seen /\ Seen' = Seen \cup {It}
      /\ \A x \in Seen : locs'[x] = locs[x]
      /\ locs'[It] = IF ThreadLocal(prog, It) THEN Key(next_thread_local_key) ELSE Address(next)
  BY DeclareFacts
<1>2. prog' = prog /\ ops' = ops
  BY DEF DeclareObject, Done
<1>3. CASE ThreadLocal(prog, It)
  <2>1. reverse' = reverse
    BY <1>3 DEF DeclareObject, AddThreadLocal
  <2> QED
    BY <1>1, <1>2, <1>3, <2>1 DEF InvReverse
<1>4. CASE ~ThreadLocal(prog, It)
  <2>1. reverse' = With(reverse, next, sym)
    BY <1>4 DEF DeclareObject, AddGlobal
  <2>2. locs'[It] = Address(next) /\ locs'[It].v = next
    BY <1>1, <1>4 DEF Address
  <2> HIDE DEF sym
  <2>3. /\ DOMAIN reverse' = DOMAIN reverse \cup {next} /\ reverse'[next] = sym
        /\ \A a \in DOMAIN reverse : a # next => reverse'[a] = reverse[a]
    BY <2>1 DEF With
  <2>4. ASSUME NEW a \in DOMAIN reverse'
        PROVE  \E x \in Seen' : locs'[x] = Address(a) /\ reverse'[a] = ObjectSym(prog, x)
    <3>1. CASE a = next
      BY <1>1, <2>2, <2>3, <3>1 DEF sym
    <3>2. CASE a # next
      <4>1. a \in DOMAIN reverse /\ reverse'[a] = reverse[a]
        BY <2>3, <3>2
      <4>2. PICK x \in Seen : locs[x] = Address(a) /\ reverse[a] = ObjectSym(prog, x)
        BY <4>1 DEF InvReverse
      <4> QED
        BY <1>1, <4>1, <4>2
    <3> QED
      BY <3>1, <3>2
  <2>5. \A x \in Seen' : ~ThreadLocal(prog, x) => locs'[x].v \in DOMAIN reverse'
    BY <1>1, <2>2, <2>3 DEF InvReverse
  <2> QED
    BY <1>2, <2>4, <2>5 DEF InvReverse
<1> QED
  BY <1>3, <1>4

\* Only the first passes declare objects.
LEMMA KeepsObjects ==
  ASSUME TableInv, [Next]_vars, ~NativeObject, ~ModuleObject
  PROVE  Seen' = Seen /\ UNCHANGED <<prog, reverse, locs>> /\ (Run \/ ops' = ops)
<1>0. next \in Nat
  BY DEF TableInv, InvLocs
<1>1. CASE Panic
  BY <1>1, PanicKeeps DEF Panic, table
<1>2. CASE PassGlobal
  <2>1. /\ work # <<>> /\ It \notin Objects(prog) /\ It.k # "alias"
        /\ prog' = prog /\ work' = Tail(work) /\ status' = "load" /\ UNCHANGED <<table, locs, next>>
    BY <1>2 DEF PassGlobal, Done
  <2> QED
    BY <1>2, <2>1, PassOver DEF PassGlobal, Done, table
<1>3. CASE AddAlias /\ ~Panic
  BY <1>3, AliasKeeps
<1>4. CASE DefineFunc
  <2>1. /\ status = "load" /\ work # <<>> /\ It.k = "define" /\ Done
        /\ UNCHANGED <<table, locs, next>>
    BY <1>4, DefineStep
  <2> QED
    BY <2>1, LateKeeps DEF Done, table
<1>5. CASE InitObject
  <2>1. /\ status = "load" /\ work # <<>> /\ It.k = "init" /\ Done
        /\ UNCHANGED <<table, locs, next>>
    BY <1>5 DEF InitObject
  <2> QED
    BY <2>1, LateKeeps DEF Done, table
<1>6. CASE AddMain /\ ~Panic
  BY <1>6, MainKeeps DEF table
<1>7. CASE Run
  <2>1. UNCHANGED loaded /\ next' \in Nat /\ next <= next'
    BY <1>7, RunStep
  <2> QED
    BY <1>7, <2>1, LoadedKeeps DEF loaded, table
<1>8. CASE UNCHANGED vars
  <2>1. UNCHANGED loaded /\ next' \in Nat /\ next <= next' /\ ops' = ops
    BY <1>0, <1>8 DEF vars
  <2> QED
    BY <2>1, LoadedKeeps DEF loaded, table
<1> QED
  BY <1>1, <1>2, <1>3, <1>4, <1>5, <1>6, <1>7, <1>8, NextCases

LEMMA ReverseNext ==
  ASSUME TableInv, InvReverse, [Next]_vars
  PROVE  InvReverse'
<1>1. CASE NativeObject \/ ModuleObject
  BY <1>1, DeclareReverse DEF NativeObject, ModuleObject
<1>2. CASE ~NativeObject /\ ~ModuleObject
  <2>1. Seen' = Seen /\ UNCHANGED <<prog, reverse, locs>> /\ (Run \/ ops' = ops)
    BY <1>2, KeepsObjects
  <2>2. ops \in 0..MaxOps /\ MaxOps \in Nat
    BY LinkerAssumption DEF InvReverse
  <2>3. Run => ops < MaxOps /\ ops' = ops + 1
    BY RunStep
  <2>4. ops' \in 0..MaxOps
    BY <2>1, <2>2, <2>3
  <2> QED
    BY <2>1, <2>4, SameReverse
<1> QED
  BY <1>1, <1>2

-----------------------------------------------------------------------------
(* Functions                                                               *)

\* The program runs when all work is done.
LEMMA RunFacts ==
  ASSUME TableInv, status = "run"
  PROVE  /\ Pos = Len(Work(prog)) /\ Decls + Len(Aliases(prog)) < Pos /\ Decls < Pos
         /\ Seen = Objects(prog) /\ Bound = DOMAIN Aliases(prog) /\ prog \in Programs
<1>1. /\ prog \in Programs /\ work = <<>> /\ Len(Work(prog)) \in Nat
      /\ Decls \in Nat /\ Len(Aliases(prog)) \in Nat /\ Decls + Len(Aliases(prog)) < Len(Work(prog))
  BY WorkFacts DEF TableInv, InvWork, Decls
<1>2. Pos = Len(Work(prog))
  BY <1>1 DEF Pos
<1> QED
  BY <1>1, <1>2, SeenFacts DEF TableInv

\* Steps that leave the functions alone.
LEMMA SameFunctions ==
  ASSUME InvFunctions, functions' = functions, prog' = prog, Pos \in Nat,
         Seen \subseteq Seen', \A x \in Seen : locs'[x] = locs[x],
         \A x \in Seen' : x \in Seen \/ x.k # "native",
         Pos' = Pos \/ (Pos' = Pos + 1 /\ Work(prog)[Pos + 1].k # "define"),
         status' = "load" => status = "load"
  PROVE  InvFunctions'
<1>1. ASSUME NEW a \in DOMAIN functions
      PROVE  \E x \in Seen' :
               /\ locs'[x] = Address(a)
               /\ \/ x.k = "native" /\ ~functions[a].lazy /\ functions[a].refs = <<>>
                  \/ x.k = "func" /\ functions[a].it = At("define", x.m, x.i)
               /\ functions[a] = [lazy |-> functions[a].lazy, it |-> functions[a].it,
                                  refs |-> functions[a].refs]
               /\ status' = "load" => functions[a].refs = <<>>
  <2>1. PICK x \in Seen :
               /\ locs[x] = Address(a)
               /\ \/ x.k = "native" /\ ~functions[a].lazy /\ functions[a].refs = <<>>
                  \/ x.k = "func" /\ functions[a].it = At("define", x.m, x.i)
               /\ functions[a] = [lazy |-> functions[a].lazy, it |-> functions[a].it,
                                  refs |-> functions[a].refs]
               /\ status = "load" => functions[a].refs = <<>>
    BY Zenon DEF InvFunctions
  <2> QED
    BY <2>1, Zenon
<1>2. \A x \in Seen' : x.k = "native" => locs'[x].v \in DOMAIN functions
  BY DEF InvFunctions
<1>3. ASSUME NEW j \in 1..Pos', Work(prog)[j].k = "define"
      PROVE  LET x == At("func", Work(prog)[j].m, Work(prog)[j].i)
             IN x \in Seen' /\ locs'[x].v \in DOMAIN functions
  <2>1. j \in 1..Pos
    BY <1>3
  <2>2. LET x == At("func", Work(prog)[j].m, Work(prog)[j].i)
        IN x \in Seen /\ locs[x].v \in DOMAIN functions
    BY <1>3, <2>1 DEF InvFunctions
  <2> QED
    BY <2>2
<1> QED
  BY <1>1, <1>2, <1>3, Zenon DEF InvFunctions

\* A function is added at the address of an object.
AddFunction(x, f) ==
  /\ functions' = With(functions, locs'[x].v, f)
  /\ x \in Seen' /\ locs'[x] = Address(locs'[x].v)
  /\ \/ x.k = "native" /\ ~f.lazy
     \/ x.k = "func" /\ f.it = At("define", x.m, x.i)
  /\ f = [lazy |-> f.lazy, it |-> f.it, refs |-> <<>>] /\ f.refs = <<>>

LEMMA AddFunctionKeeps ==
  ASSUME InvFunctions, prog' = prog, Pos \in Nat, Pos' = Pos + 1,
         Seen \subseteq Seen', \A y \in Seen : locs'[y] = locs[y],
         status' = "load" => status = "load",
         NEW x, NEW f, AddFunction(x, f),
         \A y \in Seen' : y \in Seen \/ y.k # "native" \/ y = x,
         Work(prog)[Pos + 1].k = "define" => x = At("func", Work(prog)[Pos + 1].m, Work(prog)[Pos + 1].i)
  PROVE  InvFunctions'
<1> DEFINE a0 == locs'[x].v
<1>1. /\ functions' = With(functions, a0, f) /\ x \in Seen' /\ locs'[x] = Address(a0)
      /\ \/ x.k = "native" /\ ~f.lazy
         \/ x.k = "func" /\ f.it = At("define", x.m, x.i)
      /\ f = [lazy |-> f.lazy, it |-> f.it, refs |-> <<>>] /\ f.refs = <<>>
  BY DEF AddFunction
<1> HIDE DEF a0
<1>2. /\ DOMAIN functions' = DOMAIN functions \cup {a0} /\ functions'[a0] = f
      /\ \A a \in DOMAIN functions : a # a0 => functions'[a] = functions[a]
  BY <1>1 DEF With
<1>3. ASSUME NEW a \in DOMAIN functions'
      PROVE  \E y \in Seen' :
               /\ locs'[y] = Address(a)
               /\ \/ y.k = "native" /\ ~functions'[a].lazy /\ functions'[a].refs = <<>>
                  \/ y.k = "func" /\ functions'[a].it = At("define", y.m, y.i)
               /\ functions'[a] = [lazy |-> functions'[a].lazy, it |-> functions'[a].it,
                                   refs |-> functions'[a].refs]
               /\ status' = "load" => functions'[a].refs = <<>>
  <2>1. CASE a = a0
    <3>1. functions'[a] = f
      BY <1>2, <2>1
    <3> QED
      BY <1>1, <2>1, <3>1
  <2>2. CASE a # a0
    <3>1. a \in DOMAIN functions /\ functions'[a] = functions[a]
      BY <1>2, <2>2
    <3>2. PICK y \in Seen :
               /\ locs[y] = Address(a)
               /\ \/ y.k = "native" /\ ~functions[a].lazy /\ functions[a].refs = <<>>
                  \/ y.k = "func" /\ functions[a].it = At("define", y.m, y.i)
               /\ functions[a] = [lazy |-> functions[a].lazy, it |-> functions[a].it,
                                  refs |-> functions[a].refs]
               /\ status = "load" => functions[a].refs = <<>>
      BY <3>1, Zenon DEF InvFunctions
    <3> QED
      BY <3>1, <3>2, Zenon
  <2> QED
    BY <2>1, <2>2
<1>4. \A y \in Seen' : y.k = "native" => locs'[y].v \in DOMAIN functions'
  BY <1>2 DEF InvFunctions, a0
<1>5. ASSUME NEW j \in 1..Pos', Work(prog)[j].k = "define"
      PROVE  LET y == At("func", Work(prog)[j].m, Work(prog)[j].i)
             IN y \in Seen' /\ locs'[y].v \in DOMAIN functions'
  <2>1. CASE j \in 1..Pos
    <3>1. LET y == At("func", Work(prog)[j].m, Work(prog)[j].i)
          IN y \in Seen /\ locs[y].v \in DOMAIN functions
      BY <1>5, <2>1 DEF InvFunctions
    <3> QED
      BY <1>2, <3>1
  <2>2. CASE j = Pos + 1
    BY <1>1, <1>2, <1>5, <2>2 DEF a0
  <2> QED
    BY <2>1, <2>2
<1> QED
  BY <1>3, <1>4, <1>5, Zenon DEF InvFunctions

\* A function called for the first time is compiled: every name in it becomes the
\* definition of the object it means.
LEMMA CallKeeps ==
  ASSUME TableInv, InvFunctions, EarlyNamesDenote, NEW a \in DOMAIN functions, CallFunc(a)
  PROVE  InvFunctions' /\ EarlyNamesDenote'
<1> DEFINE f == functions[a]
           m == f.it.m
           refs == prog[m].funcs[f.it.i].refs
           R == [i \in DOMAIN refs |-> compile_const(m, NameOf(refs[i]))]
<1>a. f.lazy /\ Running /\ UNCHANGED <<loaded, next, mem, thread_locals, got, meant>>
  BY Zenon DEF CallFunc
<1>b. functions' = [functions EXCEPT ![a].lazy = FALSE, ![a].refs = R]
  BY Zenon DEF CallFunc
<1>1. status = "run" /\ loaded' = loaded /\ next' = next
  BY <1>a DEF Running
<1>2. UNCHANGED <<prog, work, status, locs>>
  BY <1>1 DEF loaded
<1>3. Pos' = Pos /\ Seen' = Seen /\ Pos \in Nat
  <2>1. next \in Nat
    BY DEF TableInv, InvLocs
  <2>2. next' \in Nat /\ next <= next'
    BY <1>1, <2>1
  <2> QED
    BY <1>1, <2>2, LoadedKeeps, SeenFacts DEF TableInv
<1>4. PICK x \in Seen :
               /\ locs[x] = Address(a)
               /\ \/ x.k = "native" /\ ~f.lazy /\ f.refs = <<>>
                  \/ x.k = "func" /\ f.it = At("define", x.m, x.i)
               /\ f = [lazy |-> f.lazy, it |-> f.it, refs |-> f.refs]
  BY Zenon DEF InvFunctions
<1>5. x.k = "func" /\ f.it = At("define", x.m, x.i)
  BY <1>a, <1>4, Zenon
<1>6. m = x.m /\ x \in Objects(prog) /\ prog \in Programs /\ Decls + Len(Aliases(prog)) <= Pos
  <2>1. prog \in Programs /\ Decls + Len(Aliases(prog)) < Pos
    BY <1>1, RunFacts
  <2>2. Decls \in Nat /\ Len(Aliases(prog)) \in Nat
    BY <2>1, WorkFacts DEF Decls
  <2> QED
    BY <1>3, <1>5, <2>1, <2>2, AtFacts DEF Seen
<1>7. m \in DOMAIN prog
  BY <1>5, <1>6, ObjectParts
<1> HIDE DEF R
<1>8. /\ DOMAIN functions' = DOMAIN functions
      /\ functions'[a] = [lazy |-> FALSE, it |-> f.it, refs |-> R]
      /\ \A b \in DOMAIN functions : b # a => functions'[b] = functions[b]
  <2> DEFINE g == [functions EXCEPT ![a].lazy = FALSE]
  <2>1. functions' = [g EXCEPT ![a].refs = R]
    BY <1>b
  <2>2. /\ DOMAIN g = DOMAIN functions /\ g[a] = [lazy |-> FALSE, it |-> f.it, refs |-> f.refs]
        /\ \A b \in DOMAIN functions : b # a => g[b] = functions[b]
    <3>1. g[a] = [f EXCEPT !.lazy = FALSE]
      OBVIOUS
    <3> DEFINE l == f.lazy
               it == f.it
               r == f.refs
    <3>2. f = [lazy |-> l, it |-> it, refs |-> r]
      BY <1>4
    <3>3. g[a] = [lazy |-> FALSE, it |-> it, refs |-> r]
      <4> DEFINE h == f
      <4>1. h = [lazy |-> l, it |-> it, refs |-> r] /\ g[a] = [h EXCEPT !.lazy = FALSE]
        BY <3>1, <3>2
      <4> HIDE DEF h, g, l, it, r
      <4> QED
        BY <4>1
    <3> QED
      BY <3>3
  <2> HIDE DEF g
  <2>3. functions'[a] = [g[a] EXCEPT !.refs = R]
    BY <2>1, <2>2
  <2>4. functions'[a] = [lazy |-> FALSE, it |-> f.it, refs |-> R]
    <3> DEFINE it == f.it
               r == f.refs
               h == g[a]
               k == functions'[a]
    <3>1. h = [lazy |-> FALSE, it |-> it, refs |-> r] /\ k = [h EXCEPT !.refs = R]
      BY <2>2, <2>3
    <3> HIDE DEF it, r, h, k
    <3>2. k = [lazy |-> FALSE, it |-> it, refs |-> R]
      BY <3>1
    <3> QED
      BY <3>2 DEF k, it
  <2>5. DOMAIN functions' = DOMAIN functions
    BY <2>1, <2>2
  <2> QED
    BY <2>1, <2>2, <2>4, <2>5
<1>9. functions'[a].it = f.it /\ functions'[a].refs = R /\ ~functions'[a].lazy
  BY <1>8
<1>10. ASSUME NEW i \in DOMAIN R
       PROVE  R[i] = locs[EarlyMeaning(prog, m, refs[i])]
  <2> DEFINE name == refs[i]
  <2>1. m \in DOMAIN prog \cup {NoModule}
    BY <1>7
  <2>2. R[i] = compile_const(m, NameOf(name))
    BY Zenon DEF R
  <2> HIDE DEF name, m
  <2>3. R[i] = lookup(m, name)
    BY <2>2 DEF compile_const, NameOf
  <2>4. lookup(m, name) = locs[EarlyMeaning(prog, m, name)]
    BY <1>6, <2>1, MeaningFacts
  <2> QED
    BY <2>3, <2>4 DEF name
<1>11. InvFunctions'
  <2>1. ASSUME NEW b \in DOMAIN functions'
        PROVE  \E y \in Seen' :
                 /\ locs'[y] = Address(b)
                 /\ \/ y.k = "native" /\ ~functions'[b].lazy /\ functions'[b].refs = <<>>
                    \/ y.k = "func" /\ functions'[b].it = At("define", y.m, y.i)
                 /\ functions'[b] = [lazy |-> functions'[b].lazy, it |-> functions'[b].it,
                                     refs |-> functions'[b].refs]
                 /\ status' = "load" => functions'[b].refs = <<>>
    <3>0. status' # "load"
      BY <1>1, <1>2
    <3>1. CASE b = a
      <4>1. functions'[b] = [lazy |-> functions'[b].lazy, it |-> functions'[b].it,
                             refs |-> functions'[b].refs]
        BY <1>8, <3>1
      <4> QED
        BY <1>2, <1>3, <1>4, <1>5, <1>9, <3>0, <3>1, <4>1, Zenon
    <3>2. CASE b # a
      <4>1. b \in DOMAIN functions /\ functions'[b] = functions[b]
        BY <1>8, <3>2
      <4>2. \E y \in Seen :
                 /\ locs[y] = Address(b)
                 /\ \/ y.k = "native" /\ ~functions[b].lazy /\ functions[b].refs = <<>>
                    \/ y.k = "func" /\ functions[b].it = At("define", y.m, y.i)
                 /\ functions[b] = [lazy |-> functions[b].lazy, it |-> functions[b].it,
                                    refs |-> functions[b].refs]
        BY <4>1, Zenon DEF InvFunctions
      <4> QED
        BY <1>2, <1>3, <3>0, <4>1, <4>2, Zenon
    <3> QED
      BY <3>1, <3>2
  <2>2. \A y \in Seen' : y.k = "native" => locs'[y].v \in DOMAIN functions'
    BY <1>2, <1>3, <1>8 DEF InvFunctions
  <2>3. \A j \in 1..Pos' : Work(prog')[j].k = "define" =>
          LET y == At("func", Work(prog')[j].m, Work(prog')[j].i)
          IN y \in Seen' /\ locs'[y].v \in DOMAIN functions'
    BY <1>2, <1>3, <1>8 DEF InvFunctions
  <2> QED
    BY <2>1, <2>2, <2>3, Zenon DEF InvFunctions
<1>12. EarlyNamesDenote'
  <2>1. ASSUME NEW b \in DOMAIN functions', NEW i \in DOMAIN functions'[b].refs
        PROVE  functions'[b].refs[i] =
                 locs[EarlyMeaning(prog, functions'[b].it.m,
                              prog[functions'[b].it.m].funcs[functions'[b].it.i].refs[i])]
    <3>1. CASE b = a
      <4>1. i \in DOMAIN R
        BY <1>9, <2>1, <3>1
      <4> QED
        BY <1>9, <1>10, <3>1, <4>1
    <3>2. CASE b # a
      <4>1. b \in DOMAIN functions /\ functions'[b] = functions[b]
        BY <1>8, <3>2
      <4> QED
        BY <4>1, <2>1 DEF EarlyNamesDenote
    <3> QED
      BY <3>1, <3>2
  <2> QED
    BY <1>2, <2>1 DEF EarlyNamesDenote
<1> QED
  BY <1>11, <1>12

\* What the items that define no function do to the work.
LEMMA OtherItem ==
  ASSUME TableInv, PassGlobal \/ InitObject \/ (AddAlias /\ ~Panic) \/ ModuleObject
  PROVE  /\ Pos' = Pos + 1 /\ Pos \in Nat /\ It = Work(prog)[Pos + 1] /\ It.k # "define"
         /\ functions' = functions /\ status = "load" /\ status' = "load"
<1>1. CASE PassGlobal
  <2>1. /\ work # <<>> /\ It \notin Objects(prog) /\ It.k # "alias" /\ It.k # "define"
        /\ status = "load" /\ functions' = functions
        /\ prog' = prog /\ work' = Tail(work) /\ status' = "load" /\ UNCHANGED <<table, locs, next>>
    BY <1>1 DEF PassGlobal, Done
  <2> QED
    BY <2>1, PassOver, CurrentItem DEF TableInv
<1>2. CASE InitObject
  <2>1. /\ status = "load" /\ work # <<>> /\ It.k = "init" /\ Done
        /\ UNCHANGED <<table, functions, locs, next>>
    BY <1>2 DEF InitObject
  <2> QED
    BY <2>1, LateKeeps, CurrentItem DEF Done, TableInv
<1>3. CASE AddAlias /\ ~Panic
  <2>1. status = "load" /\ work # <<>> /\ It.k = "alias"
    <3>1. Item("alias")
      BY <1>3, Zenon DEF AddAlias
    <3> QED
      BY <3>1 DEF Item, It
  <2> QED
    BY <1>3, <2>1, AliasKeeps, CurrentItem DEF TableInv
<1>4. CASE ModuleObject
  <2>1. /\ DeclareObject /\ It.k # "define" /\ functions' = functions
        /\ work # <<>> /\ status = "load" /\ status' = "load"
    BY <1>4 DEF ModuleObject, DeclareObject, Done
  <2> QED
    BY <2>1, DeclareFacts, CurrentItem DEF TableInv
<1> QED
  BY <1>1, <1>2, <1>3, <1>4

LEMMA RunFunctions ==
  ASSUME Run
  PROVE  (\E a \in DOMAIN functions : CallFunc(a)) \/ functions' = functions
<1>1. ASSUME NEW t, NEW a, NEW i, EvaluateThreadLocal(t, a, i)
      PROVE  functions' = functions
  BY <1>1 DEF EvaluateThreadLocal
<1>2. ASSUME NEW t, NEW a, NEW i, EvaluateGlobal(t, a, i)
      PROVE  functions' = functions
  BY <1>2 DEF EvaluateGlobal
<1>3. ASSUME NEW t, NEW name, Dlsym(t, name)
      PROVE  functions' = functions
  BY <1>3 DEF Dlsym
<1>4. ASSUME NEW t, NEW w, Store(t, w)
      PROVE  functions' = functions
  BY <1>4 DEF Store
<1> QED
  BY <1>1, <1>2, <1>3, <1>4, Zenon DEF Run

LEMMA FunctionsNext ==
  ASSUME TableInv, InvFunctions, EarlyNamesDenote, [Next]_vars
  PROVE  InvFunctions'
<1>0. /\ Pos \in Nat /\ prog' = prog /\ Seen \subseteq Seen' /\ next \in Nat
      /\ \A x \in Seen : locs'[x] = locs[x]
  BY TableNext, SeenFacts DEF TableInv, InvLocs
<1>1. CASE Panic
  <2>1. Pos' = Pos /\ Seen' = Seen /\ functions' = functions /\ status' # "load"
    BY <1>1, PanicKeeps DEF Panic
  <2> QED
    BY <1>0, <2>1, SameFunctions
<1>2. CASE NativeObject
  <2>1. /\ Pos' = Pos + 1 /\ Seen' = Seen \cup {It} /\ It \in Seen' /\ ~ThreadLocal(prog, It)
        /\ locs'[It] = Address(next) /\ It.k = "native" /\ work # <<>>
        /\ status = "load"
    BY <1>2, DeclareFacts DEF NativeObject, ThreadLocal, DeclareObject
  <2>2. locs'[It].v = next
    BY <2>1 DEF Address
  <2> DEFINE f == [lazy |-> FALSE, it |-> It, refs |-> <<>>]
  <2>3. functions' = With(functions, next, f)
    BY <1>2 DEF NativeObject
  <2>4. AddFunction(It, f)
    BY <2>1, <2>2, <2>3 DEF AddFunction
  <2> HIDE DEF f
  <2>5. It = Work(prog)[Pos + 1]
    BY <2>1, CurrentItem DEF TableInv
  <2>6. \A y \in Seen' : y \in Seen \/ y.k # "native" \/ y = It
    BY <2>1
  <2> QED
    BY <1>0, <2>1, <2>4, <2>5, <2>6, AddFunctionKeeps
<1>3. CASE PassGlobal \/ InitObject \/ (AddAlias /\ ~Panic)
  <2>1. /\ Pos' = Pos + 1 /\ Work(prog)[Pos + 1].k # "define"
        /\ functions' = functions /\ status = "load" /\ status' = "load"
    BY <1>3, OtherItem
  <2>2. Seen' = Seen
    <3>1. ~DeclareObject
      <4>1. CASE PassGlobal
        BY <4>1 DEF PassGlobal, DeclareObject
      <4>2. CASE InitObject
        <5>1. It \notin Objects(prog)
          BY <4>2, LateItem DEF InitObject
        <5> QED
          BY <5>1 DEF DeclareObject
      <4>3. CASE AddAlias /\ ~Panic
        <5>1. Seen' = Seen
          BY <4>3, AliasKeeps
        <5> QED
          BY <5>1, DeclareFacts
      <4> QED
        BY <1>3, <4>1, <4>2, <4>3
    <3> QED
      BY <3>1, KeepsObjects DEF NativeObject, ModuleObject
  <2> QED
    BY <1>0, <2>1, <2>2, SameFunctions
<1>4. CASE ModuleObject
  <2>1. /\ Pos' = Pos + 1 /\ Work(prog)[Pos + 1].k # "define"
        /\ functions' = functions /\ status = "load" /\ status' = "load"
    BY <1>4, OtherItem
  <2>2. Seen' = Seen \cup {It} /\ It.k # "native"
    BY <1>4, DeclareFacts DEF ModuleObject
  <2>3. \A x \in Seen' : x \in Seen \/ x.k # "native"
    BY <2>2
  <2> QED
    BY <1>0, <2>1, <2>3, SameFunctions
<1>5. CASE DefineFunc
  <2> DEFINE x == At("func", It.m, It.i)
             f == [lazy |-> TRUE, it |-> It, refs |-> <<>>]
  <2>1. /\ status = "load" /\ work # <<>> /\ It.k = "define" /\ Done
        /\ x \in Objects(prog) /\ Seen = Objects(prog)
        /\ It = At("define", It.m, It.i) /\ ~ThreadLocal(prog, x)
        /\ functions' = With(functions, locs[x].v, f)
        /\ UNCHANGED <<table, locs, next>>
    BY <1>5, DefineStep
  <2>2. Pos' = Pos + 1 /\ Seen' = Seen /\ It = Work(prog)[Pos + 1] /\ locs' = locs
    BY <2>1, LateKeeps, CurrentItem DEF TableInv
  <2>3. x.k = "func" /\ x.m = It.m /\ x.i = It.i
    BY AtFacts
  <2>4. locs[x] = Address(locs[x].v)
    BY <2>1 DEF TableInv, InvLocs
  <2>5. f.it = It /\ f.refs = <<>> /\ f = [lazy |-> f.lazy, it |-> f.it, refs |-> <<>>]
    OBVIOUS
  <2> HIDE DEF x, f
  <2>6. AddFunction(x, f)
    BY <2>1, <2>2, <2>3, <2>4, <2>5 DEF AddFunction
  <2>7. Work(prog)[Pos + 1].k = "define" =>
          x = At("func", Work(prog)[Pos + 1].m, Work(prog)[Pos + 1].i)
    BY <2>2 DEF x
  <2> QED
    BY <1>0, <2>1, <2>2, <2>6, <2>7, AddFunctionKeeps
<1>6. CASE AddMain /\ ~Panic
  <2>1. work # <<>> /\ It.k = "main" /\ status = "load"
    <3>1. Item("main")
      BY <1>6, Zenon DEF AddMain
    <3> QED
      BY <3>1 DEF Item, It
  <2>2. Pos' = Pos + 1 /\ Seen' = Seen /\ functions' = functions /\ status' # "load"
    BY <1>6, MainKeeps
  <2>3. It = Work(prog)[Pos + 1]
    BY <2>1, CurrentItem DEF TableInv
  <2> QED
    BY <1>0, <2>1, <2>2, <2>3, SameFunctions
<1>7. CASE Run
  <2>1. UNCHANGED loaded /\ next' \in Nat /\ next <= next' /\ status = "run"
    BY <1>7, RunStep
  <2>2. Pos' = Pos /\ Seen' = Seen /\ status' = status
    BY <2>1, LoadedKeeps DEF loaded
  <2>3. CASE \E a \in DOMAIN functions : CallFunc(a)
    BY <2>3, CallKeeps
  <2>4. CASE functions' = functions
    BY <1>0, <2>2, <2>4, SameFunctions
  <2> QED
    BY <1>7, <2>3, <2>4, RunFunctions
<1>8. CASE UNCHANGED vars
  <2>1. UNCHANGED loaded /\ next' \in Nat /\ next <= next' /\ functions' = functions
    BY <1>0, <1>8 DEF vars
  <2>2. Pos' = Pos /\ Seen' = Seen /\ status' = status
    BY <2>1, LoadedKeeps DEF loaded
  <2> QED
    BY <1>0, <2>1, <2>2, SameFunctions
<1> QED
  BY <1>1, <1>2, <1>3, <1>4, <1>5, <1>6, <1>7, <1>8, NextCases

LEMMA NamesNext ==
  ASSUME TableInv, InvFunctions, EarlyNamesDenote, [Next]_vars
  PROVE  EarlyNamesDenote'
<1>1. InvFunctions'
  BY FunctionsNext
<1>2. CASE status' = "load"
  <2>1. \A a \in DOMAIN functions' : functions'[a].refs = <<>>
    BY <1>1, <1>2 DEF InvFunctions
  <2>2. \A a \in DOMAIN functions' : DOMAIN functions'[a].refs = {}
    BY <2>1
  <2> QED
    BY <2>2 DEF EarlyNamesDenote
<1>3. CASE UNCHANGED <<prog, functions, locs>>
  BY <1>3 DEF EarlyNamesDenote
<1>4. CASE Panic
  BY <1>3, <1>4 DEF Panic
<1>5. CASE AddMain /\ ~Panic
  BY <1>3, <1>5, MainKeeps
<1>6. CASE Run
  <2>1. UNCHANGED <<prog, locs>>
    BY <1>6, RunStep DEF loaded
  <2>2. CASE \E a \in DOMAIN functions : CallFunc(a)
    BY <2>2, CallKeeps
  <2>3. CASE functions' = functions
    BY <1>3, <2>1, <2>3
  <2> QED
    BY <1>6, <2>2, <2>3, RunFunctions
<1>7. CASE UNCHANGED vars
  BY <1>3, <1>7 DEF vars, loaded
<1>8. CASE NativeObject \/ DefineFunc
  BY <1>2, <1>8, DefineStep DEF NativeObject, DeclareObject, Done
<1>9. CASE ModuleObject \/ PassGlobal \/ (AddAlias /\ ~Panic) \/ InitObject
  BY <1>2, <1>9, OtherItem
<1> QED
  BY <1>4, <1>5, <1>6, <1>7, <1>8, <1>9, NextCases

-----------------------------------------------------------------------------

\* What holds of the tables and of the functions in every state.
LinkInv == TableInv /\ InvReverse /\ InvFunctions /\ EarlyNamesDenote

LEMMA LinkInvAlways == Spec => []LinkInv
<1>1. Init => LinkInv
  <2> SUFFICES ASSUME Init PROVE LinkInv
    OBVIOUS
  <2>1. TableInv /\ Pos = 0 /\ Seen = {}
    BY TableInit
  <2>2. reverse = Empty /\ functions = Empty /\ ops = 0 /\ MaxOps \in Nat
    BY LinkerAssumption DEF Init
  <2>3. InvReverse
    BY <2>1, <2>2 DEF InvReverse, Empty
  <2>4. DOMAIN functions = {} /\ 1..Pos = {}
    BY <2>1, <2>2 DEF Empty
  <2>5. InvFunctions
    BY <2>1, <2>4 DEF InvFunctions
  <2>6. EarlyNamesDenote
    BY <2>4 DEF EarlyNamesDenote
  <2> QED
    BY <2>1, <2>3, <2>5, <2>6 DEF LinkInv
<1>2. LinkInv /\ [Next]_vars => LinkInv'
  BY TableNext, ReverseNext, FunctionsNext, NamesNext DEF LinkInv
<1> QED
  BY <1>1, <1>2, PTL DEF Spec

\* The forward and the reverse table of symbols.rs agree in every state, whatever
\* the modules define and in whatever order, and whatever the aliases are: no alias
\* takes the symbol of an object over, and every function has a symbol.
THEOREM TablesAgree == Spec => []LinkTypeOK
<1>1. LinkInv => LinkTypeOK
  <2> SUFFICES ASSUME LinkInv PROVE LinkTypeOK
    OBVIOUS
  <2> USE DEF LinkInv, TableInv
  <2>1. status \in {"load", "run", "panic"} /\ ops \in 0..MaxOps /\ prog \in Programs
    BY DEF InvWork, InvReverse
  <2>2. \A sym \in DOMAIN forward : \E x \in Seen : forward[sym] = locs[x]
    <3>1. Bound # {} => Seen = Objects(prog)
      <4>1. Decls \in Nat /\ Pos \in Nat
        BY <2>1, WorkFacts, SeenFacts DEF Decls
      <4> QED
        BY <4>1, SeenFacts
    <3> QED
      BY <3>1 DEF InvTable
  <2>3. ASSUME NEW x \in Seen
        PROVE  /\ locs[x].k \in {"global", "tls"}
               /\ locs[x].k = "global" => locs[x].v \in DOMAIN reverse
    <3> DEFINE v == locs[x].v
    <3>1. CASE ThreadLocal(prog, x)
      <4>1. locs[x] = Key(v)
        BY <3>1 DEF InvLocs
      <4> HIDE DEF v
      <4> QED
        BY <4>1 DEF Key
    <3>2. CASE ~ThreadLocal(prog, x)
      <4>1. locs[x] = Address(v) /\ v \in DOMAIN reverse
        BY <3>2 DEF InvLocs, InvReverse
      <4> HIDE DEF v
      <4> QED
        BY <4>1 DEF Address, v
    <3> QED
      BY <3>1, <3>2
  <2>4. ASSUME NEW a, NEW x \in Seen, locs[x] = Address(a)
        PROVE  a < next /\ a \in DOMAIN reverse
    <3>1. locs[x].v = a /\ locs[x].k = "global"
      BY <2>4 DEF Address
    <3>2. ~ThreadLocal(prog, x)
      <4>1. ASSUME ThreadLocal(prog, x) PROVE FALSE
        <5> DEFINE v == locs[x].v
        <5>1. locs[x] = Key(v)
          BY <4>1 DEF InvLocs
        <5> HIDE DEF v
        <5> QED
          BY <3>1, <5>1 DEF Key
      <4> QED
        BY <4>1
    <3> QED
      BY <3>1, <3>2 DEF InvLocs, InvReverse
  <2>5. ASSUME NEW a \in DOMAIN reverse
        PROVE  a < next /\ forward[reverse[a]] = Address(a)
    <3>1. PICK x \in Seen : locs[x] = Address(a) /\ reverse[a] = ObjectSym(prog, x)
      BY DEF InvReverse
    <3>2. forward[ObjectSym(prog, x)] = locs[x]
      BY DEF InvTable
    <3> QED
      BY <2>4, <3>1, <3>2
  <2>6. \A d \in Range(forward) : d.k = "global" => d.v \in DOMAIN reverse
    BY <2>2, <2>3 DEF Range
  <2>7. ASSUME NEW a \in DOMAIN functions
        PROVE  a \in DOMAIN reverse
    <3>1. PICK x \in Seen : locs[x] = Address(a)
      BY DEF InvFunctions
    <3> QED
      BY <2>4, <3>1
  <2>8. \A sym \in DOMAIN forward : forward[sym].k \in {"global", "tls"}
    BY <2>2, <2>3
  <2> QED
    BY <2>1, <2>5, <2>6, <2>7, <2>8 DEF LinkTypeOK
<1> QED
  BY <1>1, LinkInvAlways, PTL

\* Every name in a compiled function is bound to what the rules of linkage say it
\* denotes, for all programs in which no alias has its target among the aliases after
\* it: SymbolTable::lookup, called from compile_modules while the table fills and from
\* Lazy::force at any time after the load, finds the module's own object first, an
\* exported one next, and explode only if no module defines the name, however many
\* aliases are in between.
THEOREM NamesAreBound == Spec => []NamesDenote
<1>1. LinkInv => NamesDenote
  <2> SUFFICES ASSUME LinkInv, InOrder(prog), NEW a \in DOMAIN functions,
                      NEW i \in DOMAIN functions[a].refs
               PROVE  functions[a].refs[i]
                        = locs[Meaning(prog, functions[a].it.m,
                               prog[functions[a].it.m].funcs[functions[a].it.i].refs[i])]
    BY DEF NamesDenote
  <2> DEFINE m == functions[a].it.m
             name == prog[m].funcs[functions[a].it.i].refs[i]
  <2>1. prog \in Programs
    BY DEF LinkInv, TableInv, InvWork
  <2>2. functions[a].refs[i] = locs[EarlyMeaning(prog, m, name)]
    BY DEF LinkInv, EarlyNamesDenote
  <2> HIDE DEF m, name
  <2>3. Meaning(prog, m, name) = EarlyMeaning(prog, m, name)
    BY <2>1, OrderedMeaning
  <2> QED
    BY <2>2, <2>3 DEF m, name
<1> QED
  BY <1>1, LinkInvAlways, PTL

-----------------------------------------------------------------------------
(* Panics                                                                  *)

\* The programs that the compiler accepts.
EarlyWellFormed(p) ==
  LET numbers == DOMAIN Aliases(p)
      target(k) == EarlyTargets(p)[k]
  IN /\ \A x \in Objects(p) : Source(p, x).linkage \in Linkages
     /\ \A k \in numbers : AliasAt(p, k).linkage \in Linkages
     /\ \A x, y \in Objects(p) : x # y => ObjectSym(p, x) # ObjectSym(p, y)
     /\ \A k \in numbers : ~ThreadLocal(p, target(k))
     /\ \A k \in numbers : \A x \in Objects(p) : AliasSym(p, k) = ObjectSym(p, x) => target(k) = x
     /\ \A k, j \in numbers : AliasSym(p, k) = AliasSym(p, j) => target(k) = target(j)
     /\ \A x \in Objects(p) : x.k = "global" /\ Source(p, x).init.c = "name" =>
          ~ThreadLocal(p, EarlyMeaning(p, x.m, Source(p, x).init.name))
     /\ \/ \E x \in Objects(p) : ObjectSym(p, x) = External("main")
        \/ \E k \in numbers : AliasSym(p, k) = External("main")
     /\ EarlyMeaning(p, NoModule, "main").k # "global"
EarlyPanics ==
  (status = "panic" => ~EarlyWellFormed(prog)) /\ (status = "run" => EarlyWellFormed(prog))

LEMMA OrderedWellFormed ==
  ASSUME NEW p \in Programs, InOrder(p)
  PROVE  WellFormed(p) <=> EarlyWellFormed(p)
<1>1. \A k \in DOMAIN Aliases(p) : Targets(p)[k] = EarlyTargets(p)[k]
  BY OrderedTargets
<1>2. \A m, name : Meaning(p, m, name) = EarlyMeaning(p, m, name)
  BY OrderedMeaning
<1> QED
  BY <1>1, <1>2 DEF WellFormed, EarlyWellFormed

\* Steps that come to no initial value.
LEMMA InitNext ==
  ASSUME LinkInv, InvInit, [Next]_vars
  PROVE  InvInit'
<1> DEFINE G(j) == At("global", Work(prog)[j].m, Work(prog)[j].i)
           Ok(j) == Work(prog)[j].k = "init" /\ G(j) \in Objects(prog)
                      /\ Source(prog, G(j)).init.c = "name" =>
                    ~ThreadLocal(prog, EarlyMeaning(prog, G(j).m, Source(prog, G(j)).init.name))
<1>0. TableInv /\ Pos \in Nat /\ prog' = prog /\ next \in Nat
  BY TableNext, SeenFacts DEF LinkInv, TableInv, InvLocs
<1>1. \A j \in 1..Pos : Ok(j)
  BY DEF InvInit
<1>2. ASSUME Pos' = Pos
      PROVE  InvInit'
  BY <1>0, <1>1, <1>2 DEF InvInit
<1>3. ASSUME Pos' = Pos + 1, Ok(Pos + 1)
      PROVE  InvInit'
  <2> HIDE DEF Ok
  <2>1. \A j \in 1..Pos' : Ok(j)
    BY <1>0, <1>1, <1>3
  <2> QED
    BY <1>0, <2>1 DEF InvInit, Ok
<1>4. work # <<>> => It = Work(prog)[Pos + 1]
  BY <1>0, CurrentItem DEF TableInv
<1>5. CASE Panic
  BY <1>0, <1>2, <1>5, PanicKeeps
<1>6. CASE NativeObject \/ ModuleObject
  <2>1. DeclareObject /\ It.k # "init" /\ work # <<>>
    BY <1>6 DEF NativeObject, ModuleObject, DeclareObject
  <2> QED
    BY <1>0, <1>3, <1>4, <2>1, DeclareFacts
<1>7. CASE PassGlobal
  <2>1. work # <<>> /\ (It.k = "init" => At("global", It.m, It.i) \notin Objects(prog))
    BY <1>7 DEF PassGlobal
  <2>2. Pos' = Pos + 1
    BY <1>0, <1>7, OtherItem
  <2> QED
    BY <1>3, <1>4, <2>1, <2>2
<1>8. CASE AddAlias /\ ~Panic
  <2>1. work # <<>> /\ It.k # "init"
    <3>1. Item("alias")
      BY <1>8, Zenon DEF AddAlias
    <3> QED
      BY <3>1 DEF Item, It
  <2> QED
    BY <1>0, <1>3, <1>4, <1>8, <2>1, AliasKeeps
<1>9. CASE DefineFunc
  <2>1. /\ status = "load" /\ work # <<>> /\ It.k = "define" /\ Done
        /\ UNCHANGED <<table, locs, next>>
    BY <1>0, <1>9, DefineStep
  <2>2. Pos' = Pos + 1
    BY <1>0, <2>1, LateKeeps
  <2> QED
    BY <1>3, <1>4, <2>1, <2>2
<1>10. CASE InitObject
  <2> DEFINE x == At("global", It.m, It.i)
  <2>1. /\ work # <<>>
        /\ Source(prog, x).init.c = "name" =>
             ~ThreadLocal(prog, EarlyMeaning(prog, x.m, Source(prog, x).init.name))
    BY <1>10 DEF InitObject
  <2>2. Pos' = Pos + 1
    BY <1>0, <1>10, OtherItem
  <2> QED
    BY <1>3, <1>4, <2>1, <2>2
<1>11. CASE AddMain /\ ~Panic
  <2>1. work # <<>> /\ It.k # "init"
    <3>1. Item("main")
      BY <1>11, Zenon DEF AddMain
    <3> QED
      BY <3>1 DEF Item, It
  <2> QED
    BY <1>0, <1>3, <1>4, <1>11, <2>1, MainKeeps
<1>12. CASE Run
  <2>1. UNCHANGED loaded /\ next' \in Nat /\ next <= next'
    BY <1>0, <1>12, RunStep
  <2> QED
    BY <1>0, <1>2, <2>1, LoadedKeeps
<1>13. CASE UNCHANGED vars
  <2>1. UNCHANGED loaded /\ next' \in Nat /\ next <= next'
    BY <1>0, <1>13 DEF vars
  <2> QED
    BY <1>0, <1>2, <2>1, LoadedKeeps
<1> QED
  BY <1>0, <1>5, <1>6, <1>7, <1>8, <1>9, <1>10, <1>11, <1>12, <1>13, NextCases

\* An object that cannot be declared has no symbol of a permitted kind, or shares
\* it with another one.
LEMMA DeclarePanic ==
  ASSUME TableInv, work # <<>>, It \in Objects(prog),
         \/ Source(prog, It).linkage \notin Linkages
         \/ ObjectSym(prog, It) \in DOMAIN forward
  PROVE  ~EarlyWellFormed(prog)
<1>1. CASE Source(prog, It).linkage \notin Linkages
  BY <1>1 DEF EarlyWellFormed
<1>2. CASE ObjectSym(prog, It) \in DOMAIN forward
  <2>1. prog \in Programs /\ Decls \in Nat /\ Pos \in Nat /\ It = Work(prog)[Pos + 1]
    BY WorkFacts, CurrentItem DEF TableInv, InvWork, Decls
  <2>2. Pos < Decls
    <3>1. It.k \in {"native", "func", "global"}
      BY <2>1, ObjectParts
    <3> QED
      BY <3>1, ItemPlaces DEF TableInv
  <2>3. Bound = {}
    BY <2>1, <2>2, SeenFacts DEF TableInv
  <2>4. PICK y \in Seen : ObjectSym(prog, y) = ObjectSym(prog, It)
    BY <1>2, <2>3 DEF TableInv, InvTable
  <2>5. PICK j \in 1..Pos : Work(prog)[j] = y
    BY DEF Seen
  <2>6. j \in 1..Decls /\ Pos + 1 \in 1..Decls /\ j # Pos + 1
    BY <2>1, <2>2
  <2>7. y # It
    BY <2>1, <2>5, <2>6, WorkFacts DEF Decls
  <2>8. y \in Objects(prog)
    BY DEF Seen
  <2> QED
    BY <2>4, <2>7, <2>8 DEF EarlyWellFormed
<1> QED
  BY <1>1, <1>2

\* An alias that cannot be added is one of a thread-local, or its symbol denotes
\* something else.
LEMMA AliasPanic ==
  ASSUME TableInv, AddAlias, Panic
  PROVE  ~EarlyWellFormed(prog)
<1> DEFINE k == Pos + 1 - Decls
           sym == AliasSym(prog, k)
           T == EarlyTargets(prog)[k]
<1>0. Item("alias")
  BY Zenon DEF AddAlias
<1>1. /\ k \in DOMAIN Aliases(prog) /\ Bound = 1..(k - 1) /\ Seen = Objects(prog)
      /\ prog[It.m].aliases[It.i] = AliasAt(prog, k)
      /\ Symbol(AliasAt(prog, k).linkage, It.m, AliasAt(prog, k).name) = sym
      /\ T \in Objects(prog)
      /\ lookup(It.m, AliasAt(prog, k).target) = locs[T]
      /\ as_const(locs[T]) <=> ~ThreadLocal(prog, T)
  BY <1>0, AliasFacts
<1>2. status' = "panic" /\ status = "load"
  BY <1>0 DEF Panic, Item
<1> HIDE DEF k, sym, T
<1>3. \/ AliasAt(prog, k).linkage \notin Linkages
      \/ ThreadLocal(prog, T)
      \/ sym \in DOMAIN forward /\ forward[sym] # locs[T]
  BY <1>1, <1>2 DEF AddAlias, Done
<1>4. CASE AliasAt(prog, k).linkage \notin Linkages
  BY <1>1, <1>4 DEF EarlyWellFormed
<1>5. CASE ThreadLocal(prog, T)
  BY <1>1, <1>5 DEF EarlyWellFormed, T
<1>6. CASE sym \in DOMAIN forward /\ forward[sym] # locs[T]
  <2>1. CASE \E x \in Seen : sym = ObjectSym(prog, x)
    <3>1. PICK x \in Seen : sym = ObjectSym(prog, x)
      BY <2>1
    <3>2. x # T /\ x \in Objects(prog)
      BY <1>1, <1>6, <3>1 DEF TableInv, InvTable
    <3> QED
      BY <1>1, <3>1, <3>2 DEF EarlyWellFormed, T, sym
  <2>2. CASE \E j \in Bound : sym = AliasSym(prog, j)
    <3>1. PICK j \in Bound : sym = AliasSym(prog, j)
      BY <2>2
    <3>2. EarlyTargets(prog)[j] # T /\ j \in DOMAIN Aliases(prog)
      BY <1>1, <1>6, <3>1 DEF TableInv, InvTable, Bound
    <3> QED
      BY <1>1, <3>1, <3>2 DEF EarlyWellFormed, T, sym
  <2> QED
    BY <1>6, <2>1, <2>2 DEF TableInv, InvTable
<1> QED
  BY <1>3, <1>4, <1>5, <1>6

\* What add_main finds.
LEMMA MainFacts ==
  ASSUME TableInv, Item("main")
  PROVE  LET M == EarlyMeaning(prog, NoModule, "main")
         IN /\ prog \in Programs /\ Pos \in Nat /\ Pos + 1 = Len(Work(prog))
            /\ Seen = Objects(prog) /\ Bound = DOMAIN Aliases(prog) /\ M \in Objects(prog)
            /\ External("main") \in DOMAIN forward => forward[External("main")] = locs[M]
            /\ as_const(locs[M]) <=> ~ThreadLocal(prog, M)
            /\ \A x : Defines(prog, x) => \E j \in 1..Pos : Work(prog)[j] = x
<1> DEFINE M == EarlyMeaning(prog, NoModule, "main")
<1>1. work # <<>> /\ It.k = "main" /\ prog \in Programs
  BY DEF Item, It, TableInv, InvWork
<1>2. /\ Decls + Len(Aliases(prog)) <= Pos /\ Seen = Objects(prog) /\ Bound = DOMAIN Aliases(prog)
  BY <1>1, LateItem
<1>3. Pos + 1 = Len(Work(prog)) /\ Pos \in Nat /\ Decls \in Nat /\ Len(Aliases(prog)) \in Nat
  BY <1>1, ItemPlaces, SeenFacts DEF TableInv
<1>4. /\ M \in Objects(prog) /\ lookup(NoModule, "main") = locs[M]
      /\ as_const(locs[M]) <=> ~ThreadLocal(prog, M)
  <2>1. NoModule \in DOMAIN prog \cup {NoModule}
    OBVIOUS
  <2> QED
    BY <1>2, <2>1, MeaningFacts
<1>5. External("main") \in DOMAIN forward => forward[External("main")] = locs[M]
  BY <1>4 DEF lookup
<1>6. \A x : Defines(prog, x) => \E j \in 1..Pos : Work(prog)[j] = x
  <2>1. (Decls + Len(Aliases(prog)) + 1)..(Len(Work(prog)) - 1) \subseteq 1..Pos
    BY <1>3
  <2> DEFINE lo == Decls + Len(Aliases(prog)) + 1
             hi == Len(Work(prog)) - 1
  <2>2. \A x : Defines(prog, x) => \E j \in lo..hi : Work(prog)[j] = x
    BY <1>1, WorkFacts DEF Decls
  <2> QED
    BY <2>1, <2>2
<1> QED
  BY <1>1, <1>2, <1>3, <1>4, <1>5, <1>6

\* A program that cannot be started has no main, or a main that is no function.
LEMMA MainPanic ==
  ASSUME LinkInv, AddMain, Panic
  PROVE  ~EarlyWellFormed(prog)
<1> USE DEF LinkInv
<1> DEFINE M == EarlyMeaning(prog, NoModule, "main")
           main == External("main")
<1>0. Item("main")
  BY Zenon DEF AddMain
<1>1. /\ prog \in Programs /\ Pos \in Nat
      /\ Seen = Objects(prog) /\ Bound = DOMAIN Aliases(prog) /\ M \in Objects(prog)
      /\ main \in DOMAIN forward => forward[main] = locs[M]
      /\ as_const(locs[M]) <=> ~ThreadLocal(prog, M)
      /\ \A x : Defines(prog, x) => \E j \in 1..Pos : Work(prog)[j] = x
  BY <1>0, MainFacts
<1>2. status' = "panic"
  BY DEF Panic
<1>3. ~(main \in DOMAIN forward /\ as_const(forward[main]) /\ forward[main].v \in DOMAIN functions)
  BY <1>2 DEF AddMain
<1> HIDE DEF M, main
<1>4. CASE main \notin DOMAIN forward
  <2>1. /\ \A x \in Objects(prog) : ObjectSym(prog, x) # main
        /\ \A k \in DOMAIN Aliases(prog) : AliasSym(prog, k) # main
    BY <1>1, <1>4 DEF TableInv, InvTable
  <2> QED
    BY <2>1 DEF EarlyWellFormed, main
<1>5. CASE main \in DOMAIN forward
  <2>1. ThreadLocal(prog, M) \/ locs[M].v \notin DOMAIN functions
    BY <1>1, <1>3, <1>5
  <2>2. M.k = "global"
    <3>1. CASE ThreadLocal(prog, M)
      BY <3>1 DEF ThreadLocal
    <3>2. CASE locs[M].v \notin DOMAIN functions
      <4>1. M.k # "native"
        BY <1>1, <3>2 DEF InvFunctions
      <4>2. M.k # "func"
        <5>1. SUFFICES ASSUME M.k = "func" PROVE FALSE
          OBVIOUS
        <5>2. M = At("func", M.m, M.i) /\ M.m \in DOMAIN prog /\ M.i \in DOMAIN prog[M.m].funcs
          BY <1>1, <5>1, ObjectParts
        <5>3. Defines(prog, At("define", M.m, M.i))
          BY <5>2 DEF Defines
        <5>4. PICK j \in 1..Pos : Work(prog)[j] = At("define", M.m, M.i)
          BY <1>1, <5>3
        <5>5. Work(prog)[j].k = "define" /\ Work(prog)[j].m = M.m /\ Work(prog)[j].i = M.i
          BY <5>4, AtFacts
        <5>6. locs[M].v \in DOMAIN functions
          BY <5>2, <5>5 DEF InvFunctions
        <5> QED
          BY <3>2, <5>6
      <4> QED
        BY <1>1, <4>1, <4>2, ObjectParts
    <3> QED
      BY <2>1, <3>1, <3>2
  <2> QED
    BY <2>2 DEF EarlyWellFormed, M
<1> QED
  BY <1>4, <1>5

\* A program that is started is well-formed.
LEMMA MainRuns ==
  ASSUME LinkInv, InvInit, AddMain, ~Panic
  PROVE  EarlyWellFormed(prog)
<1> USE DEF LinkInv
<1> DEFINE M == EarlyMeaning(prog, NoModule, "main")
           main == External("main")
           T(k) == EarlyTargets(prog)[k]
<1>0. Item("main")
  BY Zenon DEF AddMain
<1>1. /\ prog \in Programs /\ Pos \in Nat
      /\ Seen = Objects(prog) /\ Bound = DOMAIN Aliases(prog) /\ M \in Objects(prog)
      /\ main \in DOMAIN forward => forward[main] = locs[M]
      /\ as_const(locs[M]) <=> ~ThreadLocal(prog, M)
      /\ \A x : Defines(prog, x) => \E j \in 1..Pos : Work(prog)[j] = x
  BY <1>0, MainFacts
<1>2. main \in DOMAIN forward /\ as_const(forward[main]) /\ forward[main].v \in DOMAIN functions
  BY MainKeeps
<1>3. /\ \A x \in Objects(prog) : /\ Source(prog, x).linkage \in Linkages
                                  /\ forward[ObjectSym(prog, x)] = locs[x]
      /\ \A k \in DOMAIN Aliases(prog) : /\ AliasAt(prog, k).linkage \in Linkages
                                         /\ T(k) \in Objects(prog) /\ ~ThreadLocal(prog, T(k))
                                         /\ forward[AliasSym(prog, k)] = locs[T(k)]
      /\ \A x, y \in Objects(prog) : ObjectSym(prog, x) = ObjectSym(prog, y) => x = y
      /\ \A x, y \in Objects(prog) : locs[x] = locs[y] => x = y
  BY <1>1 DEF TableInv, InvTable, InvLocs
<1>4. \A k \in DOMAIN Aliases(prog) : \A x \in Objects(prog) :
        AliasSym(prog, k) = ObjectSym(prog, x) => T(k) = x
  BY <1>3
<1>5. \A k, j \in DOMAIN Aliases(prog) : AliasSym(prog, k) = AliasSym(prog, j) => T(k) = T(j)
  BY <1>3
<1>6. ASSUME NEW x \in Objects(prog), x.k = "global", Source(prog, x).init.c = "name"
      PROVE  ~ThreadLocal(prog, EarlyMeaning(prog, x.m, Source(prog, x).init.name))
  <2>1. x = At("global", x.m, x.i) /\ x.m \in DOMAIN prog /\ x.i \in DOMAIN prog[x.m].globals
    BY <1>1, <1>6, ObjectParts
  <2>2. Defines(prog, At("init", x.m, x.i))
    BY <2>1 DEF Defines
  <2>3. PICK j \in 1..Pos : Work(prog)[j] = At("init", x.m, x.i)
    BY <1>1, <2>2
  <2>4. Work(prog)[j].k = "init" /\ Work(prog)[j].m = x.m /\ Work(prog)[j].i = x.i
    BY <2>3, AtFacts
  <2>5. x = At("global", Work(prog)[j].m, Work(prog)[j].i)
    BY <2>1, <2>4
  <2> QED
    BY <1>6, <2>4, <2>5 DEF InvInit
<1>7. \/ \E x \in Objects(prog) : ObjectSym(prog, x) = main
      \/ \E k \in DOMAIN Aliases(prog) : AliasSym(prog, k) = main
  BY <1>1, <1>2 DEF TableInv, InvTable
<1>8. M.k # "global"
  <2> HIDE DEF M, main
  <2>1. PICK y \in Seen : /\ locs[y] = Address(locs[M].v)
                          /\ y.k = "native" \/ y.k = "func"
    BY <1>1, <1>2 DEF InvFunctions
  <2>2. locs[M] = Address(locs[M].v)
    BY <1>1, <1>2 DEF TableInv, InvLocs
  <2>3. M = y
    BY <1>1, <1>3, <2>1, <2>2
  <2> QED
    BY <2>1, <2>3
<1> HIDE DEF M, main, T
<1> QED
  BY <1>3, <1>4, <1>5, <1>6, <1>7, <1>8 DEF EarlyWellFormed, M, main, T

LEMMA PanicsNext ==
  ASSUME LinkInv, InvInit, EarlyPanics, [Next]_vars
  PROVE  EarlyPanics'
<1>0. TableInv /\ prog' = prog
  BY TableNext DEF LinkInv
<1>1. CASE Load /\ Panic
  <2>0. work # <<>> /\ status' = "panic"
    BY <1>1, Zenon DEF Load, AddNative, DeclareFunc, DeclareGlobal, AddAlias, DefineFunc, InitGlobal,
                       AddMain, Item, Panic
  <2>1. ASSUME It \in Objects(prog), \/ Source(prog, It).linkage \notin Linkages
                                    \/ ObjectSym(prog, It) \in DOMAIN forward
        PROVE  ~EarlyWellFormed(prog)
    BY <1>0, <2>0, <2>1, DeclarePanic
  <2>2. status = "load"
    BY <1>1, Zenon DEF Load, AddNative, DeclareFunc, DeclareGlobal, AddAlias, DefineFunc, InitGlobal,
                       AddMain, Item
  <2>3. ~Done
    BY <2>0, <2>2 DEF Done
  <2>4. ASSUME AddNative PROVE ~EarlyWellFormed(prog)
    BY <1>0, <2>1, <2>3, <2>4, NativeStep DEF DeclareObject
  <2>5. ASSUME DeclareFunc PROVE ~EarlyWellFormed(prog)
    BY <1>0, <2>1, <2>3, <2>5, FuncStep DEF DeclareObject
  <2>6. ASSUME DeclareGlobal PROVE ~EarlyWellFormed(prog)
    BY <1>0, <2>1, <2>3, <2>6, GlobalStep DEF DeclareObject
  <2>7. ASSUME AddAlias PROVE ~EarlyWellFormed(prog)
    BY <1>0, <1>1, <2>7, AliasPanic
  <2>8. ASSUME DefineFunc PROVE ~EarlyWellFormed(prog)
    BY <1>0, <2>3, <2>8, DefineStep
  <2>9. ASSUME InitGlobal PROVE ~EarlyWellFormed(prog)
    <3> DEFINE x == At("global", It.m, It.i)
    <3>1. /\ x \in Objects(prog) /\ Source(prog, x).init.c = "name"
          /\ ThreadLocal(prog, EarlyMeaning(prog, x.m, Source(prog, x).init.name))
      BY <1>0, <2>3, <2>9, InitStep DEF InitObject, PassGlobal
    <3>2. x.k = "global"
      BY AtFacts
    <3> HIDE DEF x
    <3> QED
      BY <3>1, <3>2 DEF EarlyWellFormed
  <2>10. ASSUME AddMain PROVE ~EarlyWellFormed(prog)
    BY <1>1, <2>10, MainPanic
  <2>11. ~EarlyWellFormed(prog)
    BY <1>1, <2>4, <2>5, <2>6, <2>7, <2>8, <2>9, <2>10 DEF Load
  <2> QED
    BY <1>0, <2>0, <2>11 DEF EarlyPanics
<1>2. CASE AddMain /\ ~Panic
  <2>1. EarlyWellFormed(prog) /\ status' = "run"
    BY <1>0, <1>2, MainRuns, MainKeeps
  <2> QED
    BY <1>0, <2>1 DEF EarlyPanics
<1>3. CASE status' = status
  BY <1>0, <1>3 DEF EarlyPanics
<1>4. CASE NativeObject \/ ModuleObject \/ PassGlobal \/ InitObject
  BY <1>3, <1>4 DEF NativeObject, ModuleObject, DeclareObject, PassGlobal, InitObject, Done
<1>5. CASE AddAlias /\ ~Panic
  BY <1>0, <1>3, <1>5, AliasKeeps
<1>6. CASE DefineFunc
  BY <1>0, <1>3, <1>6, DefineStep DEF Done
<1>7. CASE Run
  BY <1>0, <1>3, <1>7, RunStep DEF loaded
<1>8. CASE UNCHANGED vars
  BY <1>3, <1>8 DEF vars, loaded
<1> QED
  BY <1>0, <1>1, <1>2, <1>4, <1>5, <1>6, <1>7, <1>8, NextCases

\* Every program that defines a symbol twice, gives it a linkage that is not known,
\* aliases a thread-local, initialises a global with a thread-local's address, or has
\* no main or one that is a variable stops the load, and no other program does: the
\* assertions of symbols.rs and module.rs are exactly the rules, in whatever order the
\* modules meet them, if no alias has its target among the aliases after it.
THEOREM PanicsAreExact == Spec => []PanicsIfIllFormed
<1>1. Init => InvInit /\ EarlyPanics
  <2>1. ASSUME Init PROVE Pos = 0 /\ status = "load"
    BY <2>1, TableInit DEF Init
  <2> QED
    BY <2>1 DEF InvInit, EarlyPanics
<1>2. LinkInv /\ InvInit /\ EarlyPanics /\ [Next]_vars => InvInit' /\ EarlyPanics'
  BY InitNext, PanicsNext
<1>3. LinkInv /\ EarlyPanics => PanicsIfIllFormed
  BY OrderedWellFormed DEF LinkInv, TableInv, InvWork, EarlyPanics, PanicsIfIllFormed
<1> QED
  BY <1>1, <1>2, <1>3, LinkInvAlways, PTL DEF Spec

-----------------------------------------------------------------------------
(* Variables                                                               *)

\* Definitions of the same sort are different for different objects.
LEMMA LocFacts ==
  ASSUME InvLocs, NEW x \in Seen
  PROVE  /\ locs[x].v \in Nat /\ next \in Nat
         /\ ~ThreadLocal(prog, x) => locs[x] = Address(locs[x].v) /\ locs[x].v < next
         /\ ThreadLocal(prog, x) => locs[x] = Key(locs[x].v)
         /\ \A y \in Seen : /\ ThreadLocal(prog, x) <=> ThreadLocal(prog, y)
                            /\ locs[x].v = locs[y].v
                            => x = y
<1>1. ASSUME NEW y \in Seen
      PROVE  /\ locs[y].v \in Nat
             /\ ~ThreadLocal(prog, y) => locs[y] = Address(locs[y].v) /\ locs[y].v < next
             /\ ThreadLocal(prog, y) => locs[y] = Key(locs[y].v)
  BY DEF InvLocs
<1>2. ASSUME NEW y \in Seen, ThreadLocal(prog, x) <=> ThreadLocal(prog, y), locs[x].v = locs[y].v
      PROVE  x = y
  <2>1. locs[x] = locs[y]
    BY <1>1, <1>2
  <2> QED
    BY <2>1 DEF InvLocs
<1> QED
  BY <1>1, <1>2 DEF InvLocs

\* The variables that have values.
LEMMA VariableForm ==
  ASSUME InvMeant, NEW x
  PROVE  /\ <<x>> \in DOMAIN meant => x \in Seen /\ ~ThreadLocal(prog, x)
         /\ \A t : <<x, t>> \in DOMAIN meant => x \in Seen /\ ThreadLocal(prog, x) /\ t \in Threads
<1>1. ASSUME <<x>> \in DOMAIN meant
      PROVE  x \in Seen /\ ~ThreadLocal(prog, x)
  BY <1>1 DEF InvMeant
<1>2. ASSUME NEW t, <<x, t>> \in DOMAIN meant
      PROVE  x \in Seen /\ ThreadLocal(prog, x) /\ t \in Threads
  BY <1>2 DEF InvMeant
<1> QED
  BY <1>1, <1>2

\* While loading there is no memory of thread-locals.
LEMMA LoadLocals ==
  ASSUME InvLocals, status # "run", NEW t \in Threads
  PROVE  DOMAIN thread_locals[t] = {}
BY DEF InvLocals

VarInv == InvLocals /\ InvMeant /\ InvGot

\* Steps that leave the variables alone.
LEMMA SameVars ==
  ASSUME TableInv, VarInv, prog' = prog, Seen' = Seen, locs' = locs, Decls' = Decls,
         Pos' \in Nat, Pos <= Pos', Decls \in Nat, Pos \in Nat, next' = next,
         status' = status \/ status = "load",
         UNCHANGED <<thread_local_inits, mem, meant, thread_locals, got>>
  PROVE  VarInv'
<1> USE DEF VarInv
<1>1. InvLocals'
  <2>1. CASE status = "load"
    <3>1. \A t \in Threads : DOMAIN thread_locals[t] = {}
      BY <2>1, LoadLocals
    <3> QED
      BY <3>1 DEF InvLocals
  <2>2. CASE status' = status
    BY <2>2 DEF InvLocals
  <2> QED
    BY <2>1, <2>2
<1>2. \A x : (GlobalHolds(x))' <=> GlobalHolds(x)
  BY DEF GlobalHolds
<1>3. \A x : Start(x)' = Start(x)
  BY DEF Start, Initial
<1>4. \A x, t : (LocalHolds(x, t))' <=> LocalHolds(x, t)
  BY <1>3 DEF LocalHolds
<1>5. InvMeant'
  <2>1. \A v \in DOMAIN meant' :
          /\ Decls' < Pos'
          /\ \E x \in Seen' : \/ ~ThreadLocal(prog', x) /\ v = <<x>>
                              \/ ThreadLocal(prog', x) /\ \E t \in Threads : v = <<x, t>>
    BY DEF InvMeant
  <2> QED
    BY <1>2, <1>4, <2>1 DEF InvMeant
<1>6. InvGot'
  BY DEF InvGot, GotHolds
<1> QED
  BY <1>1, <1>5, <1>6

\* Declaring an object, there are no variables yet.
LEMMA DeclareVars ==
  ASSUME TableInv, VarInv, NativeObject \/ ModuleObject
  PROVE  VarInv'
<1> USE DEF VarInv
<1>1. /\ DeclareObject /\ UNCHANGED <<thread_local_inits, mem, meant, thread_locals, got, prog>>
      /\ status = "load" /\ status' = "load"
  BY DEF NativeObject, ModuleObject, DeclareObject, Done
<1>2. /\ Pos' = Pos + 1 /\ Decls' = Decls /\ Pos < Decls /\ Seen \subseteq Seen'
      /\ \A x \in Seen : locs'[x] = locs[x]
  BY <1>1, DeclareFacts
<1>3. \A t \in Threads : DOMAIN thread_locals[t] = {}
  BY <1>1, LoadLocals
<1>4. InvLocals'
  BY <1>1, <1>3 DEF InvLocals
<1>5. DOMAIN meant = {}
  <2>1. Decls \in Nat /\ Pos \in Nat
    BY WorkFacts, SeenFacts DEF Decls, TableInv, InvWork
  <2>2. ~(Decls < Pos)
    BY <1>2, <2>1
  <2> QED
    BY <2>2, Zenon DEF InvMeant
<1>6. InvMeant'
  BY <1>1, <1>5 DEF InvMeant
<1>7. InvGot'
  <2>1. ASSUME NEW t \in Threads, got[t] # <<>>
        PROVE  \E x \in Seen' : (GotHolds(t, x))'
    <3>1. PICK x \in Seen : GotHolds(t, x)
      BY <2>1 DEF InvGot
    <3>2. locs'[x] = locs[x] /\ x \in Seen'
      BY <1>2
    <3>3. (GotHolds(t, x))'
      BY <1>1, <3>1, <3>2 DEF GotHolds
    <3> QED
      BY <3>2, <3>3
  <2> QED
    BY <1>1, <2>1 DEF InvGot
<1> QED
  BY <1>4, <1>6, <1>7

\* The initial value of a global is written to its memory, that of a thread-local
\* kept for the threads that will use it.
LEMMA InitVars ==
  ASSUME TableInv, VarInv, InOrder(prog), InitObject
  PROVE  VarInv'
<1> USE DEF VarInv
<1> DEFINE x == At("global", It.m, It.i)
           a == locs[x].v
           s == Start(x)
<1>1. /\ status = "load" /\ work # <<>> /\ It.k = "init" /\ x \in Objects(prog)
      /\ Done /\ UNCHANGED <<table, functions, next, locs>>
  BY DEF InitObject
<1>0. EarlyStart(x) = s
  <2>1. prog \in Programs
    BY DEF TableInv, InvWork
  <2>2. \A m, name : Meaning(prog, m, name) = EarlyMeaning(prog, m, name)
    BY <2>1, OrderedMeaning
  <2> HIDE DEF x
  <2> QED
    BY <2>2 DEF EarlyStart, Start, Initial
<1>2. /\ ThreadLocal(prog, x) =>
           /\ thread_local_inits' = With(thread_local_inits, a, s)
           /\ meant' = [v \in DOMAIN meant \cup {<<x, t>> : t \in Threads} |->
                          IF v \in DOMAIN meant THEN meant[v] ELSE s]
           /\ mem' = mem
      /\ ~ThreadLocal(prog, x) =>
           /\ mem' = With(mem, a, s)
           /\ meant' = With(meant, <<x>>, s)
           /\ thread_local_inits' = thread_local_inits
  BY <1>0 DEF InitObject
<1>3. Seen' = Seen /\ Pos' = Pos + 1 /\ Decls' = Decls
  BY <1>1, LateKeeps
<1>4. Seen = Objects(prog) /\ Decls <= Pos /\ Pos \in Nat /\ Decls \in Nat
  BY <1>1, LateItem, SeenFacts, WorkFacts DEF TableInv, InvWork, Decls
<1>5. UNCHANGED <<prog, status, thread_locals, got>> /\ locs' = locs /\ next' = next
  BY <1>1 DEF Done
<1>6. \A t \in Threads : DOMAIN thread_locals[t] = {}
  BY <1>1, LoadLocals
<1>7. InvLocals' /\ InvGot'
  <2>1. InvLocals'
    BY <1>5, <1>6 DEF InvLocals
  <2>2. InvGot'
    BY <1>3, <1>5 DEF InvGot, GotHolds
  <2> QED
    BY <2>1, <2>2
<1>8. \A y : Start(y)' = Start(y)
  BY <1>5 DEF Start, Initial
<1>9. x \in Seen /\ InvLocs
  BY <1>1, <1>4 DEF TableInv
<1> HIDE DEF x, a, s
<1>10. CASE ThreadLocal(prog, x)
  <2>1. /\ DOMAIN meant' = DOMAIN meant \cup {<<x, t>> : t \in Threads}
        /\ \A v \in DOMAIN meant' : meant'[v] = IF v \in DOMAIN meant THEN meant[v] ELSE s
    BY <1>2, <1>10
  <2>2. /\ DOMAIN thread_local_inits' = DOMAIN thread_local_inits \cup {a}
        /\ thread_local_inits'[a] = s
        /\ \A k \in DOMAIN thread_local_inits : k # a => thread_local_inits'[k] = thread_local_inits[k]
    BY <1>2, <1>10 DEF With
  <2>3. mem' = mem
    BY <1>2, <1>10
  <2>4. ASSUME NEW v \in DOMAIN meant'
        PROVE  /\ Decls' < Pos'
               /\ \E y \in Seen' : \/ ~ThreadLocal(prog', y) /\ v = <<y>>
                                   \/ ThreadLocal(prog', y) /\ \E t \in Threads : v = <<y, t>>
    <3>1. Decls' < Pos'
      BY <1>3, <1>4
    <3>2. CASE v \in DOMAIN meant
      BY <1>3, <1>5, <3>1, <3>2 DEF InvMeant
    <3>3. CASE v \in {<<x, t>> : t \in Threads}
      BY <1>3, <1>5, <1>9, <1>10, <3>1, <3>3
    <3> QED
      BY <2>1, <3>2, <3>3
  <2>5. ASSUME NEW y \in Seen', <<y>> \in DOMAIN meant'
        PROVE  (GlobalHolds(y))'
    <3>1. <<y>> \in DOMAIN meant /\ y \in Seen /\ meant'[<<y>>] = meant[<<y>>]
      BY <1>3, <2>1, <2>5
    <3>2. GlobalHolds(y)
      BY <3>1 DEF InvMeant
    <3> QED
      BY <1>5, <2>3, <3>1, <3>2 DEF GlobalHolds
  <2>6. ASSUME NEW y \in Seen', NEW t \in Threads, <<y, t>> \in DOMAIN meant'
        PROVE  (LocalHolds(y, t))'
    <3>1. y \in Seen /\ ThreadLocal(prog, y)
      <4>1. CASE <<y, t>> \in DOMAIN meant
        BY <4>1, VariableForm
      <4>2. CASE <<y, t>> \notin DOMAIN meant
        BY <1>9, <1>10, <2>1, <2>6, <4>2
      <4> QED
        BY <4>1, <4>2
    <3>2. locs'[y].v \notin DOMAIN thread_locals'[t]
      BY <1>5, <1>6
    <3>3. meant'[<<y, t>>] = Start(y)
      <4>1. CASE <<y, t>> \in DOMAIN meant
        <5>1. LocalHolds(y, t)
          BY <3>1, <4>1 DEF InvMeant
        <5>2. meant[<<y, t>>] = Start(y)
          BY <1>6, <5>1 DEF LocalHolds
        <5> QED
          BY <2>1, <2>6, <4>1, <5>2
      <4>2. CASE <<y, t>> \notin DOMAIN meant
        <5>1. y = x
          BY <2>1, <2>6, <4>2
        <5> QED
          BY <2>1, <2>6, <4>2, <5>1 DEF s
      <4> QED
        BY <4>1, <4>2
    <3>4. /\ locs[y].v \in DOMAIN thread_local_inits'
          /\ thread_local_inits'[locs[y].v] = Start(y)
      <4>1. CASE y = x
        BY <2>2, <4>1 DEF a, s
      <4>2. CASE y # x
        <5>1. locs[y].v # a
          BY <1>9, <1>10, <3>1, <4>2, LocFacts DEF a
        <5>2. <<y, t>> \in DOMAIN meant
          BY <2>1, <2>6, <4>2
        <5>3. LocalHolds(y, t)
          BY <3>1, <5>2 DEF InvMeant
        <5> QED
          BY <2>2, <5>1, <5>3 DEF LocalHolds
      <4> QED
        BY <4>1, <4>2
    <3> QED
      BY <1>5, <1>8, <3>2, <3>3, <3>4 DEF LocalHolds
  <2>7. InvMeant'
    BY <2>4, <2>5, <2>6, Zenon DEF InvMeant
  <2> QED
    BY <1>7, <2>7
<1>11. CASE ~ThreadLocal(prog, x)
  <2>1. /\ DOMAIN meant' = DOMAIN meant \cup {<<x>>} /\ meant'[<<x>>] = s
        /\ \A v \in DOMAIN meant : v # <<x>> => meant'[v] = meant[v]
    BY <1>2, <1>11 DEF With
  <2>2. /\ DOMAIN mem' = DOMAIN mem \cup {a} /\ mem'[a] = s
        /\ \A b \in DOMAIN mem : b # a => mem'[b] = mem[b]
    BY <1>2, <1>11 DEF With
  <2>3. thread_local_inits' = thread_local_inits
    BY <1>2, <1>11
  <2>4. ASSUME NEW v \in DOMAIN meant'
        PROVE  /\ Decls' < Pos'
               /\ \E y \in Seen' : \/ ~ThreadLocal(prog', y) /\ v = <<y>>
                                   \/ ThreadLocal(prog', y) /\ \E t \in Threads : v = <<y, t>>
    <3>1. Decls' < Pos'
      BY <1>3, <1>4
    <3>2. CASE v \in DOMAIN meant
      BY <1>3, <1>5, <3>1, <3>2 DEF InvMeant
    <3>3. CASE v = <<x>>
      BY <1>3, <1>5, <1>9, <1>11, <3>1, <3>3
    <3> QED
      BY <2>1, <3>2, <3>3
  <2>5. ASSUME NEW y \in Seen', <<y>> \in DOMAIN meant'
        PROVE  (GlobalHolds(y))'
    <3>1. CASE y = x
      BY <1>5, <2>1, <2>2, <3>1 DEF GlobalHolds, a
    <3>2. CASE y # x
      <4>1. <<y>> # <<x>>
        BY <3>2
      <4>2. <<y>> \in DOMAIN meant /\ y \in Seen /\ meant'[<<y>>] = meant[<<y>>]
        BY <1>3, <2>1, <2>5, <4>1
      <4>3. GlobalHolds(y) /\ ~ThreadLocal(prog, y)
        BY <4>2, VariableForm DEF InvMeant
      <4>4. locs[y].v # a
        BY <1>9, <1>11, <3>2, <4>2, <4>3, LocFacts DEF a
      <4> QED
        BY <1>5, <2>2, <4>2, <4>3, <4>4 DEF GlobalHolds
    <3> QED
      BY <3>1, <3>2
  <2>6. ASSUME NEW y \in Seen', NEW t \in Threads, <<y, t>> \in DOMAIN meant'
        PROVE  (LocalHolds(y, t))'
    <3>1. <<y, t>> # <<x>>
      OBVIOUS
    <3>2. <<y, t>> \in DOMAIN meant /\ y \in Seen /\ meant'[<<y, t>>] = meant[<<y, t>>]
      BY <1>3, <2>1, <2>6, <3>1
    <3>3. LocalHolds(y, t)
      BY <3>2 DEF InvMeant
    <3>4. locs[y].v \notin DOMAIN thread_locals[t]
      BY <1>6
    <3> QED
      BY <1>5, <1>8, <2>3, <3>2, <3>3, <3>4 DEF LocalHolds
  <2>7. InvMeant'
    BY <2>4, <2>5, <2>6, Zenon DEF InvMeant
  <2> QED
    BY <1>7, <2>7
<1> QED
  BY <1>10, <1>11

\* The object a name in a compiled function means.
RefMeaning(a, i) ==
  LET m == functions[a].it.m
  IN Meaning(prog, m, prog[m].funcs[functions[a].it.i].refs[i])

LEMMA RefFacts ==
  ASSUME LinkInv, InOrder(prog), status = "run", NEW a \in DOMAIN functions, NEW i \in DOMAIN functions[a].refs
  PROVE  /\ RefMeaning(a, i) \in Seen /\ functions[a].refs[i] = locs[RefMeaning(a, i)]
         /\ as_const(functions[a].refs[i]) <=> ~ThreadLocal(prog, RefMeaning(a, i))
<1> USE DEF LinkInv
<1> DEFINE f == functions[a]
           m == f.it.m
           name == prog[m].funcs[f.it.i].refs[i]
           M == Meaning(prog, m, name)
<1>1. PICK x \in Seen : /\ locs[x] = Address(a)
                        /\ \/ x.k = "native" /\ f.refs = <<>>
                           \/ x.k = "func" /\ f.it = At("define", x.m, x.i)
  BY Zenon DEF InvFunctions
<1>2. f.refs # <<>>
  BY DEF f
<1>3. x.k = "func" /\ f.it = At("define", x.m, x.i) /\ x \in Objects(prog)
  BY <1>1, <1>2 DEF Seen
<1>4. /\ prog \in Programs /\ Decls + Len(Aliases(prog)) <= Pos /\ Seen = Objects(prog)
  <2>1. /\ prog \in Programs /\ Decls + Len(Aliases(prog)) < Pos /\ Seen = Objects(prog)
    BY RunFacts
  <2>2. Decls \in Nat /\ Len(Aliases(prog)) \in Nat /\ Pos \in Nat
    BY <2>1, WorkFacts, SeenFacts DEF Decls, TableInv
  <2> QED
    BY <2>1, <2>2
<1>5. m \in DOMAIN prog \cup {NoModule}
  BY <1>3, <1>4, ObjectParts, AtFacts
<1>6. functions[a].refs[i] = locs[EarlyMeaning(prog, m, name)]
  BY DEF EarlyNamesDenote
<1> HIDE DEF f, m, name
<1>7. M = EarlyMeaning(prog, m, name) /\ M \in Objects(prog)
  BY <1>4, <1>5, OrderedMeaning, MeaningFacts
<1>8. as_const(locs[M]) <=> ~ThreadLocal(prog, M)
  BY <1>4, <1>7, ConstIsGlobal DEF TableInv
<1> QED
  BY <1>4, <1>6, <1>7, <1>8 DEF RefMeaning, f, m, name, M

\* The state of a running program that the steps on variables share.
RunSame ==
  /\ Seen' = Seen /\ Pos' = Pos /\ Decls' = Decls
  /\ UNCHANGED <<prog, status, locs, thread_local_inits>>

LEMMA RunSameFacts ==
  ASSUME TableInv, Run
  PROVE  RunSame /\ status = "run" /\ \A x : Start(x)' = Start(x)
<1>1. UNCHANGED loaded /\ next' \in Nat /\ next <= next' /\ status = "run"
  BY RunStep
<1>2. UNCHANGED <<prog, status, locs, thread_local_inits>>
  BY <1>1 DEF loaded
<1>3. \A x : Start(x)' = Start(x)
  BY <1>2 DEF Start, Initial
<1> QED
  BY <1>1, <1>2, <1>3, LoadedKeeps DEF RunSame

\* A pointer is computed and nothing else happens.
LEMMA PointVars ==
  ASSUME TableInv, VarInv, RunSame, \A x : Start(x)' = Start(x),
         UNCHANGED <<next, mem, meant, thread_locals>>,
         NEW t \in Threads, NEW x \in Seen, ~ThreadLocal(prog, x),
         got' = [got EXCEPT ![t] = <<locs[x].v, <<x>>>>]
  PROVE  VarInv'
<1> USE DEF VarInv, RunSame
<1>1. InvLocals'
  BY DEF InvLocals
<1>2. \A y : (GlobalHolds(y))' <=> GlobalHolds(y)
  BY DEF GlobalHolds
<1>3. \A y, u : (LocalHolds(y, u))' <=> LocalHolds(y, u)
  BY DEF LocalHolds
<1>4. InvMeant'
  BY <1>2, <1>3 DEF InvMeant
<1>5. DOMAIN got' = Threads
  BY DEF InvGot
<1>6. ASSUME NEW u \in Threads, got'[u] # <<>>
      PROVE  \E y \in Seen' : (GotHolds(u, y))'
  <2>1. CASE u = t
    <3>1. got'[u] = <<locs[x].v, <<x>>>>
      BY <2>1 DEF InvGot
    <3> QED
      BY <3>1 DEF GotHolds
  <2>2. CASE u # t
    <3>1. got'[u] = got[u]
      BY <2>2 DEF InvGot
    <3>2. PICK y \in Seen : GotHolds(u, y)
      BY <1>6, <3>1 DEF InvGot
    <3>3. (GotHolds(u, y))'
      BY <3>1, <3>2 DEF GotHolds
    <3> QED
      BY <3>3
  <2> QED
    BY <2>1, <2>2
<1>7. InvGot'
  BY <1>5, <1>6 DEF InvGot
<1> QED
  BY <1>1, <1>4, <1>7

LEMMA GlobalVars ==
  ASSUME LinkInv, InOrder(prog), VarInv, Run, NEW t \in Threads, NEW a \in DOMAIN functions,
         NEW i \in DOMAIN functions[a].refs, EvaluateGlobal(t, a, i)
  PROVE  VarInv'
<1> DEFINE x == RefMeaning(a, i)
<1>1. RunSame /\ status = "run" /\ (\A y : Start(y)' = Start(y)) /\ TableInv
  BY RunSameFacts DEF LinkInv
<1>2. /\ x \in Seen /\ functions[a].refs[i] = locs[x]
      /\ as_const(functions[a].refs[i]) <=> ~ThreadLocal(prog, x)
  BY <1>1, RefFacts
<1>3. /\ as_const(functions[a].refs[i]) /\ UNCHANGED <<next, mem, meant, thread_locals>>
      /\ got' = [got EXCEPT ![t] = <<functions[a].refs[i].v, Variable(t, x)>>]
  BY Zenon DEF EvaluateGlobal, RefMeaning
<1> HIDE DEF x
<1>4. ~ThreadLocal(prog, x) /\ Variable(t, x) = <<x>>
  BY <1>2, <1>3 DEF Variable
<1>5. got' = [got EXCEPT ![t] = <<locs[x].v, <<x>>>>]
  BY <1>2, <1>3, <1>4
<1> QED
  BY <1>1, <1>2, <1>3, <1>4, <1>5, PointVars

LEMMA DlsymVars ==
  ASSUME LinkInv, InOrder(prog), VarInv, Run, NEW t \in Threads, NEW name, Dlsym(t, name)
  PROVE  VarInv'
<1> DEFINE x == Meaning(prog, NoModule, name)
<1>0. prog \in Programs => x = EarlyMeaning(prog, NoModule, name)
  BY OrderedMeaning
<1>1. RunSame /\ status = "run" /\ (\A y : Start(y)' = Start(y)) /\ TableInv
  BY RunSameFacts DEF LinkInv
<1>2. /\ prog \in Programs /\ Decls + Len(Aliases(prog)) <= Pos /\ Seen = Objects(prog)
  <2>1. /\ prog \in Programs /\ Decls + Len(Aliases(prog)) < Pos /\ Seen = Objects(prog)
    BY <1>1, RunFacts
  <2>2. Decls \in Nat /\ Len(Aliases(prog)) \in Nat /\ Pos \in Nat
    BY <1>1, <2>1, WorkFacts, SeenFacts DEF Decls, TableInv
  <2> QED
    BY <2>1, <2>2
<1>3. /\ x \in Seen /\ lookup(NoModule, name) = locs[x]
      /\ as_const(lookup(NoModule, name)) <=> ~ThreadLocal(prog, x)
  <2>1. NoModule \in DOMAIN prog \cup {NoModule}
    OBVIOUS
  <2> QED
    BY <1>0, <1>1, <1>2, <2>1, MeaningFacts
<1>4. /\ as_const(lookup(NoModule, name)) /\ UNCHANGED <<next, mem, meant, thread_locals>>
      /\ got' = [got EXCEPT ![t] = <<lookup(NoModule, name).v, Variable(t, x)>>]
  BY Zenon DEF Dlsym
<1> HIDE DEF x
<1>5. ~ThreadLocal(prog, x) /\ Variable(t, x) = <<x>>
  BY <1>3, <1>4 DEF Variable
<1>6. got' = [got EXCEPT ![t] = <<locs[x].v, <<x>>>>]
  BY <1>3, <1>4, <1>5
<1> QED
  BY <1>1, <1>3, <1>4, <1>5, <1>6, PointVars

\* The first use of a thread-local by a thread makes it memory of its own, with the
\* initial value; later uses find it.
LEMMA ThreadLocalVars ==
  ASSUME LinkInv, InOrder(prog), VarInv, Run, NEW t \in Threads, NEW a \in DOMAIN functions,
         NEW i \in DOMAIN functions[a].refs, EvaluateThreadLocal(t, a, i)
  PROVE  VarInv'
<1> USE DEF VarInv
<1>1. RunSame /\ status = "run" /\ (\A y : Start(y)' = Start(y)) /\ TableInv /\ InvLocs
  BY RunSameFacts DEF LinkInv, TableInv
<1>2. PICK x \in Seen : /\ x = RefMeaning(a, i) /\ functions[a].refs[i] = locs[x]
                        /\ as_const(functions[a].refs[i]) <=> ~ThreadLocal(prog, x)
  BY <1>1, RefFacts
<1>3. /\ ~as_const(functions[a].refs[i]) /\ meant' = meant
      /\ LET k == functions[a].refs[i].v
         IN /\ IF k \in DOMAIN thread_locals[t] THEN UNCHANGED <<thread_locals, mem, next>>
               ELSE /\ thread_locals' = [thread_locals EXCEPT ![t] = With(@, k, next)]
                    /\ mem' = With(mem, next, thread_local_inits[k])
                    /\ next' = next + 1
            /\ got' = [got EXCEPT ![t] = <<thread_locals'[t][k], Variable(t, x)>>]
  <2>1. x = RefMeaning(a, i)
    BY <1>2
  <2> QED
    BY <2>1, Zenon DEF EvaluateThreadLocal, RefMeaning
<1>4. ThreadLocal(prog, x) /\ Variable(t, x) = <<x, t>>
  BY <1>2, <1>3 DEF Variable
<1> DEFINE key == locs[x].v
           kn == key \in DOMAIN thread_locals[t]
<1>5. /\ kn => UNCHANGED <<thread_locals, mem, next>>
      /\ ~kn => /\ thread_locals' = [thread_locals EXCEPT ![t] = With(thread_locals[t], key, next)]
                /\ mem' = With(mem, next, thread_local_inits[key])
                /\ next' = next + 1
      /\ got' = [got EXCEPT ![t] = <<thread_locals'[t][key], <<x, t>>>>]
  BY <1>2, <1>3, <1>4
<1>6. UNCHANGED <<prog, status, locs, thread_local_inits>> /\ Seen' = Seen /\ Pos' = Pos
      /\ Decls' = Decls
  BY <1>1 DEF RunSame
<1>7. next \in Nat /\ DOMAIN thread_locals = Threads
  BY <1>1 DEF InvLocs, InvLocals
<1> HIDE DEF key
<1>8. CASE kn
  <2>1. InvLocals'
    BY <1>5, <1>6, <1>8 DEF InvLocals
  <2>2. \A y : (GlobalHolds(y))' <=> GlobalHolds(y)
    BY <1>3, <1>5, <1>6, <1>8 DEF GlobalHolds
  <2>3. \A y, u : (LocalHolds(y, u))' <=> LocalHolds(y, u)
    BY <1>1, <1>3, <1>5, <1>6, <1>8 DEF LocalHolds
  <2>4. InvMeant'
    BY <1>3, <1>6, <2>2, <2>3 DEF InvMeant
  <2>5. ASSUME NEW u \in Threads, u # t
        PROVE  thread_locals'[u] = thread_locals[u]
    BY <1>5, <1>8
  <2>6. key \in DOMAIN thread_locals'[t]
    BY <1>5, <1>8
  <2> QED
    <3>1. InvLocals' /\ InvMeant'
      BY <2>1, <2>4
    <3>2. DOMAIN got' = Threads
      BY <1>5 DEF InvGot
    <3>3. ASSUME NEW u \in Threads, got'[u] # <<>>
          PROVE  \E y \in Seen' : (GotHolds(u, y))'
      <4>1. CASE u = t
        <5>1. got'[u] = <<thread_locals'[t][key], <<x, t>>>>
          BY <1>5, <4>1 DEF InvGot
        <5>2. (GotHolds(u, x))'
          BY <1>4, <1>6, <2>6, <4>1, <5>1 DEF GotHolds, key
        <5> QED
          BY <1>2, <1>6, <5>2
      <4>2. CASE u # t
        <5>1. got'[u] = got[u]
          BY <1>5, <4>2 DEF InvGot
        <5>2. PICK y \in Seen : GotHolds(u, y)
          BY <3>3, <5>1 DEF InvGot
        <5>3. (GotHolds(u, y))'
          BY <1>6, <2>5, <4>2, <5>1, <5>2 DEF GotHolds
        <5> QED
          BY <1>6, <5>3
      <4> QED
        BY <4>1, <4>2
    <3> QED
      BY <3>1, <3>2, <3>3 DEF InvGot
<1>9. CASE ~kn
  <2>1. /\ DOMAIN thread_locals' = Threads
        /\ \A u \in Threads : u # t => thread_locals'[u] = thread_locals[u]
        /\ thread_locals'[t] = With(thread_locals[t], key, next)
    BY <1>5, <1>7, <1>9
  <2>2. /\ DOMAIN thread_locals'[t] = DOMAIN thread_locals[t] \cup {key}
        /\ thread_locals'[t][key] = next
        /\ \A k \in DOMAIN thread_locals[t] : k # key /\ thread_locals'[t][k] = thread_locals[t][k]
    BY <1>9, <2>1 DEF With
  <2>3. /\ DOMAIN mem' = DOMAIN mem \cup {next} /\ mem'[next] = thread_local_inits[key]
        /\ \A b \in DOMAIN mem : b # next => mem'[b] = mem[b]
        /\ next' = next + 1
    BY <1>5, <1>9 DEF With
  <2>4. ASSUME NEW u \in Threads, NEW k \in DOMAIN thread_locals[u]
        PROVE  /\ k \in DOMAIN thread_locals'[u] /\ thread_locals'[u][k] = thread_locals[u][k]
               /\ thread_locals[u][k] \in Nat /\ thread_locals[u][k] < next
               /\ u = t => k # key
    <3>1. CASE u = t
      BY <2>2, <3>1 DEF InvLocals
    <3>2. CASE u # t
      BY <2>1, <3>2 DEF InvLocals
    <3> QED
      BY <3>1, <3>2
  <2>5. ASSUME NEW u \in Threads, NEW k \in DOMAIN thread_locals'[u]
        PROVE  \/ k \in DOMAIN thread_locals[u]
               \/ u = t /\ k = key /\ thread_locals'[u][k] = next
    BY <2>1, <2>2
  <2>6. InvLocals'
    <3>1. ASSUME NEW u \in Threads, NEW k \in DOMAIN thread_locals'[u]
          PROVE  /\ thread_locals'[u][k] \in Nat /\ thread_locals'[u][k] < next'
                 /\ \A y \in Seen : locs[y] # Address(thread_locals'[u][k])
      <4>1. CASE k \in DOMAIN thread_locals[u]
        <5>1. \A y \in Seen : locs[y] # Address(thread_locals[u][k])
          BY <4>1 DEF InvLocals
        <5> QED
          BY <1>7, <2>3, <2>4, <4>1, <5>1
      <4>2. CASE thread_locals'[u][k] = next
        <5>1. ASSUME NEW y \in Seen, locs[y] = Address(next)
              PROVE  FALSE
          <6>1. locs[y].v = next /\ locs[y].k = "global"
            BY <5>1 DEF Address
          <6>2. /\ locs[y].v \in Nat
                /\ ~ThreadLocal(prog, y) => locs[y].v < next
                /\ ThreadLocal(prog, y) => locs[y] = Key(locs[y].v)
            BY <1>1, LocFacts
          <6>3. ThreadLocal(prog, y)
            BY <1>7, <6>1, <6>2
          <6>4. locs[y] = Key(next)
            BY <6>1, <6>2, <6>3
          <6> QED
            BY <6>1, <6>4 DEF Key
        <5> QED
          BY <1>7, <2>3, <4>2, <5>1
      <4> QED
        BY <2>5, <4>1, <4>2
    <3>2. ASSUME NEW u \in Threads, NEW k \in DOMAIN thread_locals'[u],
                 NEW w \in Threads, NEW l \in DOMAIN thread_locals'[w],
                 thread_locals'[u][k] = thread_locals'[w][l]
          PROVE  u = w /\ k = l
      <4>1. CASE k \in DOMAIN thread_locals[u] /\ l \in DOMAIN thread_locals[w]
        <5>1. thread_locals[u][k] = thread_locals[w][l]
          BY <2>4, <3>2, <4>1
        <5> QED
          BY <4>1, <5>1 DEF InvLocals
      <4>2. CASE k \notin DOMAIN thread_locals[u]
        <5>1. u = t /\ k = key /\ thread_locals'[w][l] = next
          BY <2>5, <3>2, <4>2
        <5>2. l \notin DOMAIN thread_locals[w]
          BY <1>7, <2>4, <5>1
        <5> QED
          BY <2>5, <5>1, <5>2
      <4>3. CASE l \notin DOMAIN thread_locals[w]
        <5>1. w = t /\ l = key /\ thread_locals'[u][k] = next
          BY <2>5, <3>2, <4>3
        <5>2. k \notin DOMAIN thread_locals[u]
          BY <1>7, <2>4, <5>1
        <5> QED
          BY <2>5, <5>1, <5>2
      <4> QED
        BY <4>1, <4>2, <4>3
    <3>3. status' = "run" /\ locs' = locs /\ Seen' = Seen
      BY <1>1, <1>6
    <3> QED
      BY <2>1, <3>1, <3>2, <3>3 DEF InvLocals
  <2>7. ASSUME NEW y \in Seen', <<y>> \in DOMAIN meant'
        PROVE  (GlobalHolds(y))'
    <3>1. y \in Seen /\ <<y>> \in DOMAIN meant
      BY <1>3, <1>6, <2>7
    <3>2. GlobalHolds(y) /\ ~ThreadLocal(prog, y)
      BY <3>1, VariableForm DEF InvMeant
    <3>3. locs[y].v \in Nat /\ locs[y].v < next
      BY <1>1, <3>1, <3>2, LocFacts
    <3> QED
      BY <1>3, <1>6, <1>7, <2>3, <3>2, <3>3 DEF GlobalHolds
  <2>8. ASSUME NEW y \in Seen', NEW u \in Threads, <<y, u>> \in DOMAIN meant'
        PROVE  (LocalHolds(y, u))'
    <3> DEFINE k == locs[y].v
    <3>1. y \in Seen /\ <<y, u>> \in DOMAIN meant /\ ThreadLocal(prog, y)
      BY <1>3, <1>6, <2>8, VariableForm
    <3>2. LocalHolds(y, u)
      BY <3>1 DEF InvMeant
    <3>3. k \in DOMAIN thread_local_inits /\ thread_local_inits[k] = Start(y)
      BY <3>2 DEF LocalHolds
    <3>4. CASE k \in DOMAIN thread_locals[u]
      <4>1. /\ thread_locals[u][k] \in DOMAIN mem
            /\ mem[thread_locals[u][k]] = meant[<<y, u>>]
        BY <3>2, <3>4 DEF LocalHolds
      <4>2. /\ k \in DOMAIN thread_locals'[u] /\ thread_locals'[u][k] = thread_locals[u][k]
            /\ thread_locals[u][k] # next
        BY <1>7, <2>4, <3>4
      <4>3. mem'[thread_locals[u][k]] = mem[thread_locals[u][k]]
        BY <2>3, <4>1, <4>2
      <4> HIDE DEF k
      <4> QED
        BY <1>1, <1>3, <1>6, <2>3, <3>3, <4>1, <4>2, <4>3 DEF LocalHolds, k
    <3>5. CASE k \notin DOMAIN thread_locals[u]
      <4>1. meant[<<y, u>>] = Start(y)
        BY <3>2, <3>5 DEF LocalHolds
      <4>2. CASE k \in DOMAIN thread_locals'[u]
        <5>1. u = t /\ k = key /\ thread_locals'[u][k] = next
          BY <2>5, <3>5, <4>2
        <5>2. mem'[next] = Start(y) /\ next \in DOMAIN mem'
          BY <2>3, <3>3, <5>1
        <5> HIDE DEF k
        <5> QED
          BY <1>1, <1>3, <1>6, <3>3, <4>1, <4>2, <5>1, <5>2 DEF LocalHolds, k
      <4>3. CASE k \notin DOMAIN thread_locals'[u]
        BY <1>1, <1>3, <1>6, <3>3, <4>1, <4>3 DEF LocalHolds
      <4> QED
        BY <4>2, <4>3
    <3> QED
      BY <3>4, <3>5
  <2>9. InvMeant'
    <3>1. \A v \in DOMAIN meant' :
            /\ Decls' < Pos'
            /\ \E y \in Seen' : \/ ~ThreadLocal(prog', y) /\ v = <<y>>
                                \/ ThreadLocal(prog', y) /\ \E u \in Threads : v = <<y, u>>
      BY <1>3, <1>6 DEF InvMeant
    <3> QED
      BY <2>7, <2>8, <3>1, Zenon DEF InvMeant
  <2>10. DOMAIN got' = Threads
    BY <1>5 DEF InvGot
  <2>11. ASSUME NEW u \in Threads, got'[u] # <<>>
         PROVE  \E y \in Seen' : (GotHolds(u, y))'
    <3>1. CASE u = t
      <4>1. got'[u] = <<thread_locals'[t][key], <<x, t>>>>
        BY <1>5, <3>1 DEF InvGot
      <4>2. key \in DOMAIN thread_locals'[t]
        BY <2>2
      <4>3. (GotHolds(u, x))'
        BY <1>4, <1>6, <3>1, <4>1, <4>2 DEF GotHolds, key
      <4> QED
        BY <1>2, <1>6, <4>3
    <3>2. CASE u # t
      <4>1. got'[u] = got[u] /\ thread_locals'[u] = thread_locals[u]
        BY <1>5, <2>1, <3>2 DEF InvGot
      <4>2. PICK y \in Seen : GotHolds(u, y)
        BY <2>11, <4>1 DEF InvGot
      <4>3. (GotHolds(u, y))'
        BY <1>6, <4>1, <4>2 DEF GotHolds
      <4> QED
        BY <1>6, <4>3
    <3> QED
      BY <3>1, <3>2
  <2>12. InvGot'
    BY <2>10, <2>11 DEF InvGot
  <2> QED
    BY <2>6, <2>9, <2>12
<1> QED
  BY <1>8, <1>9

\* A store through a pointer changes the variable the pointer was computed from and
\* no other.
LEMMA StoreVars ==
  ASSUME LinkInv, VarInv, Run, NEW t \in Threads, NEW w, Store(t, w)
  PROVE  VarInv'
<1> USE DEF VarInv
<1>1. RunSame /\ status = "run" /\ (\A y : Start(y)' = Start(y)) /\ TableInv /\ InvLocs
  BY RunSameFacts DEF LinkInv, TableInv
<1>2. /\ got[t] # <<>> /\ got[t][1] \in DOMAIN mem /\ got[t][2] \in DOMAIN meant
      /\ mem' = [mem EXCEPT ![got[t][1]] = w]
      /\ meant' = [meant EXCEPT ![got[t][2]] = w]
      /\ UNCHANGED <<next, thread_locals, got>>
  BY DEF Store
<1>3. UNCHANGED <<prog, status, locs, thread_local_inits>> /\ Seen' = Seen /\ Pos' = Pos
      /\ Decls' = Decls
  BY <1>1 DEF RunSame
<1>4. PICK x \in Seen : GotHolds(t, x)
  BY <1>2 DEF InvGot
<1>5. PICK addr, v : got[t] = <<addr, v>> /\ addr \in DOMAIN mem /\ v \in DOMAIN meant
  BY <1>2, <1>4 DEF GotHolds
<1>6. /\ DOMAIN mem' = DOMAIN mem /\ mem'[addr] = w /\ \A b \in DOMAIN mem : b # addr => mem'[b] = mem[b]
      /\ DOMAIN meant' = DOMAIN meant /\ meant'[v] = w
      /\ \A u \in DOMAIN meant : u # v => meant'[u] = meant[u]
  <2>1. mem' = [mem EXCEPT ![addr] = w] /\ meant' = [meant EXCEPT ![v] = w]
    BY <1>2, <1>5
  <2> QED
    BY <1>5, <2>1
<1>7. \/ /\ ThreadLocal(prog, x) /\ locs[x].v \in DOMAIN thread_locals[t]
         /\ addr = thread_locals[t][locs[x].v] /\ v = <<x, t>>
      \/ ~ThreadLocal(prog, x) /\ addr = locs[x].v /\ v = <<x>>
  BY <1>4, <1>5 DEF GotHolds
\* A thread's memory for a thread-local is no global's memory.
<1>8. ASSUME NEW y \in Seen, ~ThreadLocal(prog, y), NEW u \in Threads,
             NEW k \in DOMAIN thread_locals[u]
      PROVE  locs[y].v # thread_locals[u][k]
  <2>1. locs[y] = Address(locs[y].v)
    BY <1>1, <1>8, LocFacts
  <2>2. locs[y] # Address(thread_locals[u][k])
    BY DEF InvLocals
  <2> QED
    BY <2>1, <2>2
<1>9. InvLocals' /\ InvGot'
  <2>1. InvLocals'
    BY <1>2, <1>3 DEF InvLocals
  <2>2. InvGot'
    BY <1>2, <1>3 DEF InvGot, GotHolds
  <2> QED
    BY <2>1, <2>2
<1>10. ASSUME NEW y \in Seen', <<y>> \in DOMAIN meant'
       PROVE  (GlobalHolds(y))'
  <2>1. y \in Seen /\ <<y>> \in DOMAIN meant /\ ~ThreadLocal(prog, y) /\ GlobalHolds(y)
    BY <1>3, <1>6, <1>10, VariableForm DEF InvMeant
  <2>2. CASE <<y>> = v
    <3>1. y = x /\ addr = locs[y].v
      BY <1>7, <2>2
    <3> QED
      BY <1>3, <1>5, <1>6, <2>2, <3>1 DEF GlobalHolds
  <2>3. CASE <<y>> # v
    <3>1. locs[y].v # addr
      <4>1. CASE ThreadLocal(prog, x)
        BY <1>7, <1>8, <2>1, <4>1
      <4>2. CASE ~ThreadLocal(prog, x)
        <5>1. y # x /\ addr = locs[x].v
          BY <1>7, <2>3, <4>2
        <5> QED
          BY <1>1, <2>1, <4>2, <5>1, LocFacts
      <4> QED
        BY <4>1, <4>2
    <3>2. meant'[<<y>>] = meant[<<y>>]
      BY <1>6, <2>1, <2>3
    <3> QED
      BY <1>3, <1>6, <2>1, <3>1, <3>2 DEF GlobalHolds
  <2> QED
    BY <2>2, <2>3
<1>11. ASSUME NEW y \in Seen', NEW u \in Threads, <<y, u>> \in DOMAIN meant'
       PROVE  (LocalHolds(y, u))'
  <2> DEFINE k == locs[y].v
             e == <<y, u>>
  <2>1. y \in Seen /\ e \in DOMAIN meant /\ ThreadLocal(prog, y) /\ LocalHolds(y, u)
    BY <1>3, <1>6, <1>11, VariableForm DEF InvMeant
  <2>2. k \in DOMAIN thread_local_inits /\ thread_local_inits[k] = Start(y)
    BY <2>1 DEF LocalHolds
  <2>3. CASE e = v
    <3>1. y = x /\ u = t /\ k \in DOMAIN thread_locals[u] /\ addr = thread_locals[u][k]
      BY <1>7, <2>3
    <3>2. thread_locals[u][k] \in DOMAIN mem' /\ mem'[thread_locals[u][k]] = meant'[e]
      BY <1>5, <1>6, <2>3, <3>1
    <3> HIDE DEF k, e
    <3> QED
      BY <1>1, <1>2, <1>3, <2>2, <3>1, <3>2 DEF LocalHolds, k, e
  <2>4. CASE e # v
    <3>1. meant'[e] = meant[e]
      BY <1>6, <2>1, <2>4
    <3>2. CASE k \in DOMAIN thread_locals[u]
      <4> DEFINE b == thread_locals[u][k]
      <4>1. b \in DOMAIN mem /\ mem[b] = meant[e]
        BY <2>1, <3>2 DEF LocalHolds
      <4>2. b # addr
        <5>1. CASE ThreadLocal(prog, x)
          <6>1. ASSUME b = addr PROVE FALSE
            <7>1. u = t /\ k = locs[x].v
              BY <1>7, <3>2, <5>1, <6>1 DEF InvLocals
            <7>2. y = x
              BY <1>1, <2>1, <5>1, <7>1, LocFacts
            <7> QED
              BY <1>7, <2>4, <5>1, <7>1, <7>2
          <6> QED
            BY <6>1
        <5>2. CASE ~ThreadLocal(prog, x)
          BY <1>7, <1>8, <3>2, <5>2
        <5> QED
          BY <5>1, <5>2
      <4>3. b \in DOMAIN mem' /\ mem'[b] = meant'[e]
        BY <1>6, <3>1, <4>1, <4>2
      <4> HIDE DEF k, e
      <4> QED
        BY <1>1, <1>2, <1>3, <2>2, <3>2, <4>3 DEF LocalHolds, k, e
    <3>3. CASE k \notin DOMAIN thread_locals[u]
      <4>1. meant[e] = Start(y)
        BY <2>1, <3>3 DEF LocalHolds
      <4> HIDE DEF k, e
      <4> QED
        BY <1>1, <1>2, <1>3, <2>2, <3>1, <3>3, <4>1 DEF LocalHolds, k, e
    <3> QED
      BY <3>2, <3>3
  <2> QED
    BY <2>3, <2>4
<1>12. InvMeant'
  <2>1. \A z \in DOMAIN meant' :
          /\ Decls' < Pos'
          /\ \E y \in Seen' : \/ ~ThreadLocal(prog', y) /\ z = <<y>>
                              \/ ThreadLocal(prog', y) /\ \E u \in Threads : z = <<y, u>>
    BY <1>3, <1>6 DEF InvMeant
  <2> QED
    BY <1>10, <1>11, <2>1, Zenon DEF InvMeant
<1> QED
  BY <1>9, <1>12

LEMMA VarsNext ==
  ASSUME LinkInv, InOrder(prog), VarInv, [Next]_vars
  PROVE  VarInv'
<1>0. /\ TableInv /\ prog' = prog /\ Decls' = Decls /\ Decls \in Nat /\ Pos \in Nat
      /\ next \in Nat
  BY TableNext, WorkFacts, SeenFacts DEF LinkInv, TableInv, InvWork, InvLocs, Decls
<1>1. CASE Load /\ Panic
  <2>1. /\ Pos' = Pos /\ Seen' = Seen /\ UNCHANGED <<locs, next>>
        /\ UNCHANGED <<thread_local_inits, mem, meant, thread_locals, got>>
    BY <1>0, <1>1, PanicKeeps DEF Panic
  <2>2. status = "load"
    BY <1>1, Zenon DEF Load, AddNative, DeclareFunc, DeclareGlobal, AddAlias, DefineFunc, InitGlobal,
                       AddMain, Item
  <2> QED
    BY <1>0, <2>1, <2>2, SameVars
<1>2. CASE NativeObject \/ ModuleObject
  BY <1>0, <1>2, DeclareVars
<1>3. CASE PassGlobal
  <2>1. /\ work # <<>> /\ It \notin Objects(prog) /\ It.k # "alias"
        /\ prog' = prog /\ work' = Tail(work) /\ status' = "load" /\ status = "load"
        /\ UNCHANGED <<table, locs, next>>
        /\ UNCHANGED <<thread_local_inits, mem, meant, thread_locals, got>>
    BY <1>3 DEF PassGlobal, Done
  <2>2. Seen' = Seen /\ Pos' = Pos + 1
    BY <1>0, <2>1, PassOver
  <2> QED
    BY <1>0, <2>1, <2>2, SameVars
<1>4. CASE AddAlias /\ ~Panic
  <2>1. /\ Seen' = Seen /\ Pos' = Pos + 1
        /\ UNCHANGED <<status, locs, next, thread_local_inits, mem, meant, thread_locals, got>>
    BY <1>0, <1>4, AliasKeeps
  <2> QED
    BY <1>0, <2>1, SameVars
<1>5. CASE DefineFunc
  <2>1. /\ status = "load" /\ work # <<>> /\ It.k = "define" /\ Done
        /\ UNCHANGED <<table, locs, next, thread_local_inits, mem, meant>>
    BY <1>0, <1>5, DefineStep
  <2>2. Seen' = Seen /\ Pos' = Pos + 1 /\ UNCHANGED <<status, thread_locals, got>>
    BY <1>0, <2>1, LateKeeps DEF Done
  <2> QED
    BY <1>0, <2>1, <2>2, SameVars
<1>6. CASE InitObject
  BY <1>0, <1>6, InitVars
<1>7. CASE AddMain /\ ~Panic
  <2>1. /\ Seen' = Seen /\ Pos' = Pos + 1
        /\ UNCHANGED <<locs, next, thread_local_inits, mem, meant, thread_locals, got>>
    BY <1>0, <1>7, MainKeeps
  <2>2. status = "load"
    BY <1>7, Zenon DEF AddMain, Item
  <2> QED
    BY <1>0, <2>1, <2>2, SameVars
<1>8. CASE Run
  <2>1. CASE \E a \in DOMAIN functions : CallFunc(a)
    <3>1. PICK a \in DOMAIN functions : CallFunc(a)
      BY <2>1
    <3>2. UNCHANGED <<loaded, next, mem, thread_locals, got, meant>>
      BY <3>1, Zenon DEF CallFunc
    <3>3. RunSame
      BY <1>0, <1>8, RunSameFacts
    <3>4. /\ Seen' = Seen /\ Pos' = Pos
          /\ UNCHANGED <<status, locs, next, thread_local_inits, mem, meant, thread_locals, got>>
      BY <3>2, <3>3 DEF RunSame
    <3> QED
      BY <1>0, <3>4, SameVars
  <2>2. ASSUME NEW t \in Threads, NEW a \in DOMAIN functions, NEW i \in DOMAIN functions[a].refs,
               EvaluateThreadLocal(t, a, i) \/ EvaluateGlobal(t, a, i)
        PROVE  VarInv'
    BY <1>8, <2>2, ThreadLocalVars, GlobalVars
  <2>3. ASSUME NEW t \in Threads, NEW name \in Exported, Dlsym(t, name)
        PROVE  VarInv'
    BY <1>8, <2>3, DlsymVars
  <2>4. ASSUME NEW t \in Threads, NEW w \in Words, Store(t, w)
        PROVE  VarInv'
    BY <1>8, <2>4, StoreVars
  <2> QED
    BY <1>8, <2>1, <2>2, <2>3, <2>4, Zenon DEF Run
<1>9. CASE UNCHANGED vars
  <2>1. UNCHANGED <<loaded, next, mem, thread_locals, got, meant>> /\ next' \in Nat /\ next <= next'
    BY <1>0, <1>9 DEF vars
  <2>2. Seen' = Seen /\ Pos' = Pos
    BY <1>0, <2>1, LoadedKeeps
  <2>3. UNCHANGED <<status, locs, next, thread_local_inits, mem, meant, thread_locals, got>>
    BY <2>1 DEF loaded
  <2> QED
    BY <1>0, <2>2, <2>3, SameVars
<1> QED
  BY <1>0, <1>1, <1>2, <1>3, <1>4, <1>5, <1>6, <1>7, <1>8, <1>9, NextCases

\* Every variable of every loaded program whose aliases are in order has memory of its
\* own that holds the value last assigned to it: the memory of compile_modules, the
\* thread-local objects made on first use and the pointers that evaluation and dlsym
\* compute never get into each other's way, whatever the threads do in whatever order.
THEOREM VariablesAreKept == Spec => []VariablesHold
<1> DEFINE Ordered == InOrder(prog) => VarInv
<1>1. Init => Ordered
  <2> SUFFICES ASSUME Init PROVE VarInv
    OBVIOUS
  <2>1. /\ meant = Empty /\ Seen = {}
        /\ thread_locals = [t \in Threads |-> Empty] /\ got = [t \in Threads |-> <<>>]
    BY TableInit DEF Init
  <2>2. DOMAIN meant = {} /\ DOMAIN thread_locals = Threads /\ DOMAIN got = Threads
    BY <2>1 DEF Empty
  <2>3. \A t \in Threads : DOMAIN thread_locals[t] = {} /\ got[t] = <<>>
    BY <2>1 DEF Empty
  <2>4. InvLocals
    BY <2>2, <2>3 DEF InvLocals
  <2>5. InvMeant
    BY <2>1, <2>2 DEF InvMeant
  <2>6. InvGot
    BY <2>2, <2>3 DEF InvGot
  <2> QED
    BY <2>4, <2>5, <2>6 DEF VarInv
<1>2. LinkInv /\ Ordered /\ [Next]_vars => Ordered'
  BY VarsNext, TableNext DEF LinkInv
<1>3. Ordered => VariablesHold
  <2> SUFFICES ASSUME VarInv, NEW v \in DOMAIN meant
               PROVE  LET d == locs[v[1]]
                      IN IF Len(v) = 1 THEN mem[d.v] = meant[v]
                         ELSE IF d.v \in DOMAIN thread_locals[v[2]]
                         THEN mem[thread_locals[v[2]][d.v]] = meant[v]
                         ELSE meant[v] = thread_local_inits[d.v]
    BY DEF VariablesHold
  <2>1. PICK x \in Seen : \/ ~ThreadLocal(prog, x) /\ v = <<x>>
                          \/ ThreadLocal(prog, x) /\ \E t \in Threads : v = <<x, t>>
    BY DEF VarInv, InvMeant
  <2>2. CASE v = <<x>>
    <3>1. GlobalHolds(x)
      BY <2>2 DEF VarInv, InvMeant
    <3>2. Len(v) = 1 /\ v[1] = x
      BY <2>2
    <3> QED
      BY <2>2, <3>1, <3>2 DEF GlobalHolds
  <2>3. CASE \E t \in Threads : v = <<x, t>>
    <3>1. PICK t \in Threads : v = <<x, t>>
      BY <2>3
    <3>2. LocalHolds(x, t)
      BY <3>1 DEF VarInv, InvMeant
    <3>3. Len(v) = 2 /\ v[1] = x /\ v[2] = t
      BY <3>1
    <3> QED
      BY <3>1, <3>2, <3>3 DEF LocalHolds
  <2> QED
    BY <2>1, <2>2, <2>3
<1> HIDE DEF Ordered
<1> QED
  BY <1>1, <1>2, <1>3, LinkInvAlways, PTL DEF Spec

=============================================================================
