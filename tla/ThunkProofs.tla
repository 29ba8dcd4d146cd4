---------------------------- MODULE ThunkProofs ----------------------------
(***************************************************************************)
(* What the free list's operations (util/freelist.rs), the declaring,      *)
(* decoding, assigning and stepping of thunks and the compilation of       *)
(* functions do to references: the lemmas InterpProofs rests on.  A heap   *)
(* is Balanced with the references R outside its cells when every cell has *)
(* the count that R and the cells' own references call for.                *)
(***************************************************************************)
EXTENDS Interp, SequenceTheorems, FiniteSetTheorems, TLAPS

-----------------------------------------------------------------------------
(* Sequences of anything                                                   *)

IsSeq(s) == s \in Seq(ToSet(s))

LEMMA SeqIs ==
  ASSUME NEW S, NEW s \in Seq(S)
  PROVE  IsSeq(s)
<1>1. Len(s) \in Nat /\ s \in [1..Len(s) -> S] /\ DOMAIN s = 1..Len(s)
  BY LenProperties
<1>2. s = [i \in 1..Len(s) |-> s[i]] /\ \A i \in 1..Len(s) : s[i] \in ToSet(s)
  BY <1>1 DEF ToSet
<1> QED
  BY <1>1, <1>2 DEF IsSeq

LEMMA SeqFacts ==
  ASSUME NEW s, IsSeq(s)
  PROVE  /\ Len(s) \in Nat /\ DOMAIN s = 1..Len(s)
         /\ s = [i \in 1..Len(s) |-> s[i]]
         /\ (s = <<>>) <=> (Len(s) = 0)
<1>1. s \in Seq(ToSet(s))
  BY DEF IsSeq
<1>2. Len(s) \in Nat /\ s \in [1..Len(s) -> ToSet(s)] /\ DOMAIN s = 1..Len(s)
  BY <1>1, LenProperties
<1>3. (s = <<>>) <=> (Len(s) = 0)
  BY <1>1, EmptySeq
<1> QED
  BY <1>2, <1>3

\* A function on an initial segment of the positive numbers is a sequence.
LEMMA FunSeq ==
  ASSUME NEW n \in Nat, NEW s, s = [i \in 1..n |-> s[i]]
  PROVE  IsSeq(s) /\ Len(s) = n
<1>1. DOMAIN s = 1..n /\ \A i \in 1..n : s[i] \in ToSet(s)
  BY DEF ToSet
<1>2. s \in [1..n -> ToSet(s)]
  BY <1>1
<1>3. s \in Seq(ToSet(s))
  BY <1>2
<1> QED
  BY <1>1, <1>3, LenProperties DEF IsSeq

\* Two sequences are sequences over one set.
LEMMA SeqBoth ==
  ASSUME NEW s, NEW t, IsSeq(s), IsSeq(t)
  PROVE  /\ s \in Seq(ToSet(s) \cup ToSet(t))
         /\ t \in Seq(ToSet(s) \cup ToSet(t))
BY SeqMonotonic DEF IsSeq

LEMMA EqualSeq ==
  ASSUME NEW s, NEW t, IsSeq(s), IsSeq(t), Len(s) = Len(t), \A i \in 1..Len(s) : s[i] = t[i]
  PROVE  s = t
BY SeqFacts

LEMMA ConcatSeq ==
  ASSUME NEW s, NEW t, IsSeq(s), IsSeq(t)
  PROVE  /\ IsSeq(s \o t) /\ Len(s \o t) = Len(s) + Len(t)
         /\ \A i \in 1..Len(s) : (s \o t)[i] = s[i]
         /\ \A i \in 1..Len(t) : (s \o t)[Len(s) + i] = t[i]
<1> DEFINE S == ToSet(s) \cup ToSet(t)
<1>1. s \in Seq(S) /\ t \in Seq(S)
  BY SeqBoth
<1> HIDE DEF S
<1>2. s \o t \in Seq(S)
  BY <1>1, ConcatProperties
<1>3. IsSeq(s \o t)
  BY <1>2, SeqIs
<1>4. /\ Len(s \o t) = Len(s) + Len(t)
      /\ \A i \in 1 .. Len(s) + Len(t) : (s \o t)[i] = IF i <= Len(s) THEN s[i] ELSE t[i - Len(s)]
  BY <1>1, ConcatProperties
<1>5. Len(s) \in Nat /\ Len(t) \in Nat
  BY SeqFacts
<1>6. ASSUME NEW i \in 1..Len(t)
      PROVE  (s \o t)[Len(s) + i] = t[i]
  <2>1. Len(s) + i \in 1..Len(s) + Len(t) /\ ~(Len(s) + i <= Len(s)) /\ (Len(s) + i) - Len(s) = i
    BY <1>5
  <2> QED
    BY <1>4, <2>1
<1>7. ASSUME NEW i \in 1..Len(s)
      PROVE  (s \o t)[i] = s[i]
  BY <1>4, <1>5
<1> QED
  BY <1>3, <1>4, <1>6, <1>7

LEMMA AppendSeq ==
  ASSUME NEW s, NEW x, IsSeq(s)
  PROVE  /\ IsSeq(Append(s, x)) /\ Len(Append(s, x)) = Len(s) + 1 /\ Append(s, x) # <<>>
         /\ \A i \in 1..Len(s) : Append(s, x)[i] = s[i]
         /\ Append(s, x)[Len(s) + 1] = x
<1> DEFINE S == ToSet(s) \cup {x}
<1>1. s \in Seq(S) /\ x \in S
  BY SeqMonotonic DEF IsSeq
<1> HIDE DEF S
<1>2. Append(s, x) \in Seq(S) /\ Len(Append(s, x)) = Len(s) + 1 /\ Len(s) \in Nat
  BY <1>1
<1>3. IsSeq(Append(s, x))
  BY <1>2, SeqIs
<1>4. \A i \in 1..Len(s) : Append(s, x)[i] = s[i]
  BY <1>1
<1>5. Append(s, x)[Len(s) + 1] = x
  BY <1>1
<1>6. Append(s, x) # <<>>
  BY <1>2, <1>3, SeqFacts
<1> QED
  BY <1>2, <1>3, <1>4, <1>5, <1>6

\* A sequence that is not empty is its front and its last element.
LEMMA FrontSeq ==
  ASSUME NEW s, IsSeq(s), s # <<>>
  PROVE  /\ IsSeq(Front(s)) /\ Len(Front(s)) = Len(s) - 1 /\ Len(s) >= 1
         /\ \A i \in 1..Len(s) - 1 : Front(s)[i] = s[i]
         /\ Last(s) = s[Len(s)]
         /\ Append(Front(s), Last(s)) = s
<1> DEFINE n == Len(s) - 1
           r == Front(s)
<1>1. n \in Nat /\ Len(s) \in Nat /\ n + 1 = Len(s) /\ n \in Int /\ 1 \in Int
  BY SeqFacts
<1>2. \A i \in 1..n : s[i] \in ToSet(s)
  BY <1>1, SeqFacts DEF ToSet
<1>3. /\ SubSeq(s, 1, n) \in Seq(ToSet(s))
      /\ Len(SubSeq(s, 1, n)) = IF 1 <= n THEN n - 1 + 1 ELSE 0
      /\ \A i \in 1..n - 1 + 1 : SubSeq(s, 1, n)[i] = s[1 + i - 1]
  BY <1>1, <1>2, SubSeqProperties
<1>4. IsSeq(r) /\ Len(r) = n /\ \A i \in 1..n : r[i] = s[i]
  <2>1. r = SubSeq(s, 1, n)
    BY DEF Front
  <2>2. IsSeq(r)
    BY <1>3, <2>1, SeqIs
  <2>3. Len(r) = n
    BY <1>1, <1>3, <2>1
  <2>4. \A i \in 1..n : i \in 1..n - 1 + 1 /\ 1 + i - 1 = i
    BY <1>1
  <2> HIDE DEF n, r
  <2> QED
    BY <1>3, <2>1, <2>2, <2>3, <2>4
<1>5. Last(s) = s[Len(s)]
  BY DEF Last
<1> HIDE DEF n, r
<1>6. Append(r, Last(s)) = s
  <2>1. /\ IsSeq(Append(r, Last(s))) /\ Len(Append(r, Last(s))) = n + 1
        /\ \A i \in 1..n : Append(r, Last(s))[i] = r[i]
        /\ Append(r, Last(s))[n + 1] = Last(s)
    BY <1>4, AppendSeq
  <2>2. \A i \in 1..Len(s) : i \in 1..n \/ i = n + 1
    BY <1>1
  <2>3. \A i \in 1..Len(s) : Append(r, Last(s))[i] = s[i]
    BY <1>1, <1>4, <1>5, <2>1, <2>2
  <2> QED
    BY <1>1, <2>1, <2>3, EqualSeq
<1> QED
  BY <1>1, <1>4, <1>5, <1>6 DEF n, r

\* Front and Last undo Append.
LEMMA FrontOfAppend ==
  ASSUME NEW s, NEW x, IsSeq(s)
  PROVE  Front(Append(s, x)) = s /\ Last(Append(s, x)) = x
<1> DEFINE a == Append(s, x)
<1>1. /\ IsSeq(a) /\ Len(a) = Len(s) + 1 /\ a # <<>> /\ Len(s) \in Nat
      /\ \A i \in 1..Len(s) : a[i] = s[i]
      /\ a[Len(s) + 1] = x
  <2>1. Len(s) \in Nat
    BY SeqFacts
  <2> QED
    BY <2>1, AppendSeq
<1> HIDE DEF a
<1>2. /\ IsSeq(Front(a)) /\ Len(Front(a)) = Len(a) - 1 /\ Last(a) = a[Len(a)]
      /\ \A i \in 1..Len(a) - 1 : Front(a)[i] = a[i]
  BY <1>1, FrontSeq
<1>3. Len(a) - 1 = Len(s)
  BY <1>1
<1>4. Front(a) = s
  BY <1>1, <1>2, <1>3, EqualSeq
<1> QED
  BY <1>1, <1>2, <1>4 DEF a

LEMMA OneSeq ==
  ASSUME NEW x
  PROVE  IsSeq(<<x>>) /\ Len(<<x>>) = 1 /\ <<x>>[1] = x /\ <<x>> # <<>>
<1>1. <<x>> \in Seq({x})
  OBVIOUS
<1> QED
  BY <1>1, SeqIs

LEMMA EmptyIsSeq == IsSeq(<<>>) /\ Len(<<>>) = 0
<1>1. <<>> \in Seq({})
  OBVIOUS
<1> QED
  BY <1>1, SeqIs

LEMMA TailSeq ==
  ASSUME NEW s, IsSeq(s), s # <<>>
  PROVE  /\ IsSeq(Tail(s)) /\ Len(Tail(s)) = Len(s) - 1 /\ Head(s) = s[1] /\ Len(s) >= 1
         /\ \A i \in 1..Len(s) - 1 : Tail(s)[i] = s[i + 1]
<1>1. s \in Seq(ToSet(s))
  BY DEF IsSeq
<1>2. /\ Tail(s) \in Seq(ToSet(s)) /\ Len(Tail(s)) = Len(s) - 1
      /\ \A i \in 1..Len(Tail(s)) : Tail(s)[i] = s[i + 1]
  BY <1>1, HeadTailProperties
<1>3. Head(s) = s[1] /\ Len(s) \in Nat /\ Len(s) >= 1
  BY <1>1, SeqFacts
<1> QED
  BY <1>2, <1>3, SeqIs

\* A sequence of length 1.
LEMMA SingleSeq ==
  ASSUME NEW s, IsSeq(s), Len(s) = 1
  PROVE  s = <<s[1]>>
<1>1. IsSeq(<<s[1]>>) /\ Len(<<s[1]>>) = 1 /\ <<s[1]>>[1] = s[1]
  BY OneSeq
<1>2. \A i \in 1..1 : i = 1
  OBVIOUS
<1> QED
  BY <1>1, <1>2, EqualSeq

-----------------------------------------------------------------------------
(* Counting references                                                     *)

\* Where the cell c is referenced in a sequence of references.
Places(s, c) == {k \in DOMAIN s : s[k].cell = c}
Count(s, c) == Cardinality(Places(s, c))

LEMMA PlacesFinite ==
  ASSUME NEW s, NEW c, IsSeq(s)
  PROVE  IsFiniteSet(Places(s, c)) /\ Count(s, c) \in Nat
<1>1. Len(s) \in Nat /\ DOMAIN s = 1..Len(s)
  BY SeqFacts
<1>2. IsFiniteSet(1..Len(s))
  BY <1>1, FS_Interval
<1>3. Places(s, c) \in SUBSET (1..Len(s))
  BY <1>1 DEF Places
<1>4. IsFiniteSet(Places(s, c))
  BY <1>2, <1>3, FS_Subset
<1> QED
  BY <1>4, FS_CardinalityType DEF Count

LEMMA CountEmpty ==
  ASSUME NEW c
  PROVE  Count(<<>>, c) = 0
<1>1. Places(<<>>, c) = {}
  BY EmptyIsSeq, SeqFacts DEF Places
<1> QED
  BY <1>1, FS_EmptySet DEF Count

Once(x, c) == IF x.cell = c THEN 1 ELSE 0

LEMMA CountAppend ==
  ASSUME NEW s, NEW x, NEW c, IsSeq(s)
  PROVE  Count(Append(s, x), c) = Count(s, c) + Once(x, c)
<1> DEFINE n == Len(s)
           a == Append(s, x)
<1>1. n \in Nat /\ DOMAIN s = 1..n
  BY SeqFacts
<1>2. IsSeq(a) /\ Len(a) = n + 1 /\ (\A i \in 1..n : a[i] = s[i]) /\ a[n + 1] = x
  BY AppendSeq
<1> HIDE DEF a, n
<1>3. DOMAIN a = 1..(n + 1)
  BY <1>2, SeqFacts
<1>4. IsFiniteSet(Places(s, c)) /\ Cardinality(Places(s, c)) \in Nat
  BY PlacesFinite DEF Count
<1>5. n + 1 \notin Places(s, c)
  BY <1>1 DEF Places
<1>6. CASE x.cell = c
  <2>1. Places(a, c) = Places(s, c) \cup {n + 1}
    BY <1>1, <1>2, <1>3, <1>6 DEF Places
  <2>2. Cardinality(Places(a, c)) = Cardinality(Places(s, c)) + 1
    BY <2>1, <1>4, <1>5, FS_AddElement
  <2> QED
    BY <2>2, <1>6 DEF Count, Once, a
<1>7. CASE x.cell # c
  <2>1. Places(a, c) = Places(s, c)
    BY <1>1, <1>2, <1>3, <1>7 DEF Places
  <2> QED
    BY <2>1, <1>4, <1>7 DEF Count, Once, a
<1> QED
  BY <1>6, <1>7

LEMMA CountOne ==
  ASSUME NEW x, NEW c
  PROVE  Count(<<x>>, c) = Once(x, c)
<1>1. <<x>> = Append(<<>>, x)
  OBVIOUS
<1>2. Count(Append(<<>>, x), c) = Count(<<>>, c) + Once(x, c)
  BY EmptyIsSeq, CountAppend
<1>3. Once(x, c) \in Nat
  BY DEF Once
<1> QED
  BY <1>1, <1>2, <1>3, CountEmpty

LEMMA CountConcat ==
  ASSUME NEW s, NEW t, NEW c, IsSeq(s), IsSeq(t)
  PROVE  Count(s \o t, c) = Count(s, c) + Count(t, c)
<1> DEFINE n == Len(s)
           m == Len(t)
           a == s \o t
           A == Places(s, c)
           B == Places(t, c)
           C == {n + j : j \in B}
<1>1. n \in Nat /\ DOMAIN s = 1..n /\ m \in Nat /\ DOMAIN t = 1..m
  BY SeqFacts
<1>2. /\ IsSeq(a) /\ Len(a) = n + m
      /\ \A i \in 1..n : a[i] = s[i]
      /\ \A i \in 1..m : a[n + i] = t[i]
  BY ConcatSeq
<1> HIDE DEF a, n, m
<1>3. DOMAIN a = 1..(n + m)
  BY <1>2, SeqFacts
<1>4. IsFiniteSet(A) /\ IsFiniteSet(B) /\ Cardinality(A) \in Nat /\ Cardinality(B) \in Nat
  BY PlacesFinite DEF Count
<1>5. A \subseteq 1..n /\ B \subseteq 1..m
  BY <1>1 DEF Places
<1>6. IsFiniteSet(C) /\ Cardinality(C) = Cardinality(B)
  <2> DEFINE g == [j \in B |-> n + j]
  <2>1. g \in [B -> C] /\ \A j \in B : g[j] = n + j
    OBVIOUS
  <2>2. \A i, j \in B : g[i] = g[j] => i = j
    BY <1>1, <1>5
  <2>3. \A x \in C : \E j \in B : g[j] = x
    OBVIOUS
  <2> HIDE DEF g, B, C
  <2>4. g \in Bijection(B, C)
    BY <2>1, <2>2, <2>3 DEF Bijection, Injection, Surjection, IsInjective
  <2> QED
    BY <1>4, <2>4, FS_Bijection DEF ExistsBijection
<1>7. A \cap C = {}
  BY <1>1, <1>5
<1>8. Places(a, c) = A \cup C
  <2>1. ASSUME NEW i \in Places(a, c)
        PROVE  i \in A \cup C
    <3>1. i \in 1..(n + m) /\ a[i].cell = c
      BY <1>3 DEF Places
    <3>2. CASE i \in 1..n
      BY <1>1, <1>2, <3>1, <3>2 DEF Places
    <3>3. CASE i \notin 1..n
      <4>1. i - n \in 1..m /\ n + (i - n) = i
        BY <1>1, <3>1, <3>3
      <4>2. t[i - n].cell = c
        BY <1>2, <3>1, <4>1
      <4>3. i - n \in B
        BY <1>1, <4>1, <4>2 DEF Places
      <4> HIDE DEF B
      <4> QED
        BY <4>1, <4>3
    <3> QED
      BY <3>2, <3>3
  <2>2. ASSUME NEW i \in A
        PROVE  i \in Places(a, c)
    BY <1>1, <1>2, <1>3 DEF Places
  <2>3. ASSUME NEW j \in B
        PROVE  n + j \in Places(a, c)
    BY <1>1, <1>2, <1>3 DEF Places
  <2> HIDE DEF A, B
  <2> QED
    BY <2>1, <2>2, <2>3
<1> HIDE DEF A, B, C
<1>9. Cardinality(A \cup C) = Cardinality(A) + Cardinality(C) - Cardinality(A \cap C)
  BY <1>4, <1>6, FS_Union
<1>10. Cardinality(A \cap C) = 0
  BY <1>7, FS_EmptySet
<1>11. Cardinality(Places(a, c)) = Cardinality(A) + Cardinality(B)
  BY <1>4, <1>6, <1>8, <1>9, <1>10
<1> QED
  BY <1>11 DEF Count, A, B, a

\* An element is counted.
LEMMA CountIn ==
  ASSUME NEW s, IsSeq(s), NEW i \in 1..Len(s)
  PROVE  Count(s, s[i].cell) >= 1
<1> DEFINE P == Places(s, s[i].cell)
<1>1. i \in P
  BY SeqFacts DEF Places
<1>2. IsFiniteSet(P) /\ Cardinality(P) \in Nat
  BY PlacesFinite DEF Count
<1> HIDE DEF P
<1>3. Cardinality(P) # 0
  BY <1>1, <1>2, FS_EmptySet
<1>4. Count(s, s[i].cell) = Cardinality(P)
  BY DEF Count, P
<1> QED
  BY <1>2, <1>3, <1>4

\* And what is counted is an element.
LEMMA CountedIn ==
  ASSUME NEW s, NEW c, IsSeq(s), Count(s, c) # 0
  PROVE  \E i \in 1..Len(s) : s[i].cell = c
<1>1. Places(s, c) # {}
  BY FS_EmptySet DEF Count
<1> QED
  BY <1>1, SeqFacts DEF Places

\* The first element and the rest.
LEMMA CountTail ==
  ASSUME NEW s, NEW c, IsSeq(s), s # <<>>
  PROVE  Count(s, c) = Once(Head(s), c) + Count(Tail(s), c)
<1>1. /\ IsSeq(Tail(s)) /\ Len(Tail(s)) = Len(s) - 1 /\ Head(s) = s[1] /\ Len(s) >= 1
      /\ (\A i \in 1..Len(s) - 1 : Tail(s)[i] = s[i + 1]) /\ Len(s) \in Nat
  <2>1. Len(s) \in Nat
    BY SeqFacts
  <2> QED
    BY <2>1, TailSeq
<1> DEFINE h == <<s[1]>>
           t == Tail(s)
<1>2. IsSeq(h) /\ Len(h) = 1 /\ h[1] = s[1]
  BY OneSeq
<1>9. IsSeq(h) /\ IsSeq(t)
  BY <1>1, <1>2
<1> HIDE DEF h, t
<1>3. /\ IsSeq(h \o t) /\ Len(h \o t) = Len(h) + Len(t)
      /\ \A i \in 1..Len(h) : (h \o t)[i] = h[i]
      /\ \A i \in 1..Len(t) : (h \o t)[Len(h) + i] = t[i]
  BY <1>9, ConcatSeq
<1>4. ASSUME NEW i \in 1..Len(s)
      PROVE  (h \o t)[i] = s[i]
  <2>1. CASE i = 1
    BY <1>2, <1>3, <2>1
  <2>2. CASE i # 1
    <3>1. i - 1 \in 1..Len(t) /\ i - 1 \in 1..Len(s) - 1 /\ 1 + (i - 1) = i /\ (i - 1) + 1 = i
      BY <1>1, <2>2 DEF t
    <3> QED
      BY <1>1, <1>2, <1>3, <3>1 DEF t
  <2> QED
    BY <2>1, <2>2
<1>5. Len(h \o t) = Len(s)
  BY <1>1, <1>2, <1>3 DEF t
<1>6. h \o t = s
  BY <1>3, <1>4, <1>5, EqualSeq
<1>7. Count(h \o t, c) = Count(h, c) + Count(t, c)
  BY <1>1, <1>2, CountConcat DEF t
<1>8. Count(h, c) = Once(s[1], c)
  BY CountOne DEF h
<1> QED
  BY <1>1, <1>6, <1>7, <1>8 DEF t

-----------------------------------------------------------------------------
(* The loops                                                               *)

\* clone_all clones one reference after the other.
CloneOp(e, h, x) == clone(h, x)
Clones == INSTANCE FoldProofs WITH Op <- CloneOp

LEMMA CloneAllSteps ==
  ASSUME NEW h, NEW xs, Len(xs) \in Nat
  PROVE  \E f : /\ f[0] = h /\ \A i \in 1..Len(xs) : f[i] = clone(f[i - 1], xs[i])
                /\ clone_all(h, xs) = f[Len(xs)]
<1> DEFINE f == CHOOSE g : Clones!IsFold(g, 0, h, xs)
<1>1. Clones!IsFold(f, 0, h, xs)
  BY Clones!FoldSolution
<1>2. clone_all(h, xs) = f[Len(xs)]
  BY DEF clone_all, Fold, Clones!IsFold, CloneOp
<1>3. f[0] = h /\ \A i \in 1..Len(xs) : f[i] = clone(f[i - 1], xs[i])
  <2> HIDE DEF f
  <2>1. f[0] = h /\ \A i \in 1..Len(xs) : f[i] = CloneOp(0, f[i - 1], xs[i])
    BY <1>1, Clones!FoldValues
  <2> QED
    BY <2>1 DEF CloneOp
<1> QED
  BY <1>2, <1>3

\* drop_all drops one reference after the other.
DropOp(e, h, x) == drop(h, x)
Drops == INSTANCE FoldProofs WITH Op <- DropOp

LEMMA DropAllSteps ==
  ASSUME NEW h, NEW xs, Len(xs) \in Nat
  PROVE  \E f : /\ f[0] = h /\ \A i \in 1..Len(xs) : f[i] = drop(f[i - 1], xs[i])
                /\ drop_all(h, xs) = f[Len(xs)]
<1> DEFINE f == CHOOSE g : Drops!IsFold(g, 0, h, xs)
<1>1. Drops!IsFold(f, 0, h, xs)
  BY Drops!FoldSolution
<1>2. drop_all(h, xs) = f[Len(xs)]
  BY DEF drop_all, Fold, Drops!IsFold, DropOp
<1>3. f[0] = h /\ \A i \in 1..Len(xs) : f[i] = drop(f[i - 1], xs[i])
  <2> HIDE DEF f
  <2>1. f[0] = h /\ \A i \in 1..Len(xs) : f[i] = DropOp(0, f[i - 1], xs[i])
    BY <1>1, Drops!FoldValues
  <2> QED
    BY <2>1 DEF DropOp
<1> QED
  BY <1>2, <1>3

\* Keep looks at one element after the other.
KeepOp(S, kept, x) == IF x \in S THEN Append(kept, x) ELSE kept
Keeps == INSTANCE FoldProofs WITH Op <- KeepOp

LEMMA KeepSteps ==
  ASSUME NEW s, NEW S, Len(s) \in Nat
  PROVE  \E f : /\ f[0] = <<>> /\ \A i \in 1..Len(s) : f[i] = IF s[i] \in S THEN Append(f[i - 1], s[i]) ELSE f[i - 1]
                /\ Keep(s, S) = f[Len(s)]
<1> DEFINE f == CHOOSE g : Keeps!IsFold(g, S, <<>>, s)
<1>1. Keeps!IsFold(f, S, <<>>, s)
  BY Keeps!FoldSolution
<1>2. Keep(s, S) = f[Len(s)]
  BY DEF Keep, Fold, Keeps!IsFold, KeepOp
<1>3. f[0] = <<>> /\ \A i \in 1..Len(s) : f[i] = IF s[i] \in S THEN Append(f[i - 1], s[i]) ELSE f[i - 1]
  <2> HIDE DEF f
  <2>1. f[0] = <<>> /\ \A i \in 1..Len(s) : f[i] = KeepOp(S, f[i - 1], s[i])
    BY <1>1, Keeps!FoldValues
  <2> QED
    BY <2>1 DEF KeepOp
<1> QED
  BY <1>2, <1>3

\* The references in cells, cell after cell.
CellOp(e, acc, c) == acc \o Holds(c.value)
CellRefs(cells) == Fold(LAMBDA acc, c : acc \o Holds(c.value), <<>>, cells)
CellFold == INSTANCE FoldProofs WITH Op <- CellOp

LEMMA CellSteps ==
  ASSUME NEW cells, Len(cells) \in Nat
  PROVE  \E f : /\ f[0] = <<>> /\ \A i \in 1..Len(cells) : f[i] = f[i - 1] \o Holds(cells[i].value)
                /\ CellRefs(cells) = f[Len(cells)]
<1> DEFINE f == CHOOSE g : CellFold!IsFold(g, 0, <<>>, cells)
<1>1. CellFold!IsFold(f, 0, <<>>, cells)
  BY CellFold!FoldSolution
<1>2. CellRefs(cells) = f[Len(cells)]
  BY DEF CellRefs, Fold, CellFold!IsFold, CellOp
<1>3. f[0] = <<>> /\ \A i \in 1..Len(cells) : f[i] = f[i - 1] \o Holds(cells[i].value)
  <2> HIDE DEF f
  <2>1. f[0] = <<>> /\ \A i \in 1..Len(cells) : f[i] = CellOp(0, f[i - 1], cells[i])
    BY <1>1, CellFold!FoldValues
  <2> QED
    BY <2>1 DEF CellOp
<1> QED
  BY <1>2, <1>3

\* The references in the locals of a frame, local after local.
TempOp(temps, acc, i) == acc \o Old(temps, i)
Temps(temps, nums) == Fold(LAMBDA acc, i : acc \o Old(temps, i), <<>>, nums)
TempFold == INSTANCE FoldProofs WITH Op <- TempOp

LEMMA TempSteps ==
  ASSUME NEW temps, NEW nums, Len(nums) \in Nat
  PROVE  \E f : /\ f[0] = <<>> /\ \A i \in 1..Len(nums) : f[i] = f[i - 1] \o Old(temps, nums[i])
                /\ Temps(temps, nums) = f[Len(nums)]
<1> DEFINE f == CHOOSE g : TempFold!IsFold(g, temps, <<>>, nums)
<1>1. TempFold!IsFold(f, temps, <<>>, nums)
  BY TempFold!FoldSolution
<1>2. Temps(temps, nums) = f[Len(nums)]
  BY DEF Temps, Fold, TempFold!IsFold, TempOp
<1>3. f[0] = <<>> /\ \A i \in 1..Len(nums) : f[i] = f[i - 1] \o Old(temps, nums[i])
  <2> HIDE DEF f
  <2>1. f[0] = <<>> /\ \A i \in 1..Len(nums) : f[i] = TempOp(temps, f[i - 1], nums[i])
    BY <1>1, TempFold!FoldValues
  <2> QED
    BY <2>1 DEF TempOp
<1> QED
  BY <1>2, <1>3

-----------------------------------------------------------------------------
(* Sums                                                                    *)

\* Induction up to n, for a property given as a set.
LEMMA UpTo ==
  ASSUME NEW n \in Nat, NEW T, 0 \in T, \A i \in 1..n : i - 1 \in T => i \in T
  PROVE  \A i \in 0..n : i \in T
<1> DEFINE U == T \cup {i \in Nat : i > n}
<1>1. 0 \in U
  OBVIOUS
<1>2. ASSUME NEW i \in Nat, i \in U
      PROVE  i + 1 \in U
  <2>1. CASE i + 1 > n
    BY <2>1
  <2>2. CASE ~(i + 1 > n)
    <3>1. i \in T /\ i + 1 \in 1..n /\ (i + 1) - 1 = i
      BY <1>2, <2>2
    <3> QED
      BY <3>1
  <2> QED
    BY <2>1, <2>2
<1>3. Nat \subseteq U
  <2> HIDE DEF U
  <2> QED
    BY <1>1, <1>2, Clones!SetInduction
<1> QED
  BY <1>3

\* f[i] is the sum of the first i terms of a.
IsSum(f, a, n) == f[0] = 0 /\ \A i \in 1..n : f[i] = f[i - 1] + a[i]
SameBut(a, b, n, k) == \A i \in 1..n : i # k => a[i] = b[i]
IsNats(a, n) == \A i \in 1..n : a[i] \in Nat

\* Two sums that differ in one term.
LEMMA SumChange ==
  ASSUME NEW n \in Nat, NEW f, NEW g, NEW a, NEW b, NEW k \in 1..n,
         IsNats(a, n), IsNats(b, n), IsSum(f, a, n), IsSum(g, b, n),
         SameBut(a, b, n, k)
  PROVE  f[n] \in Int /\ g[n] = (f[n] - a[k]) + b[k]
<1> DEFINE T == {i \in 0..n : /\ f[i] \in Int
                              /\ g[i] = IF i < k THEN f[i] ELSE (f[i] - a[k]) + b[k]}
<1>1. 0 \in T
  BY DEF IsSum
<1>2. ASSUME NEW i \in 1..n, i - 1 \in T
      PROVE  i \in T
  <2>1. f[i - 1] \in Int /\ f[i] = f[i - 1] + a[i] /\ g[i] = g[i - 1] + b[i]
    BY <1>2 DEF IsSum
  <2>2. a[i] \in Int /\ b[i] \in Int /\ a[k] \in Int /\ b[k] \in Int
    BY DEF IsNats
  <2>3. CASE i < k
    BY <1>2, <2>1, <2>2, <2>3 DEF SameBut
  <2>4. CASE i = k
    BY <1>2, <2>1, <2>2, <2>4
  <2>5. CASE i > k
    BY <1>2, <2>1, <2>2, <2>5 DEF SameBut
  <2> QED
    BY <2>3, <2>4, <2>5
<1>3. n \in T
  <2> HIDE DEF T
  <2>1. \A i \in 0..n : i \in T
    BY <1>1, <1>2, UpTo
  <2> QED
    BY <2>1
<1> QED
  BY <1>3

\* Two sums of the same terms.
LEMMA SumSame ==
  ASSUME NEW n \in Nat, NEW f, NEW g, NEW a,
         IsSum(f, a, n), IsSum(g, a, n)
  PROVE  f[n] = g[n]
<1> DEFINE T == {i \in 0..n : f[i] = g[i]}
<1>1. 0 \in T
  BY DEF IsSum
<1>2. ASSUME NEW i \in 1..n, i - 1 \in T
      PROVE  i \in T
  BY <1>2 DEF IsSum
<1>3. n \in T
  <2> HIDE DEF T
  <2>1. \A i \in 0..n : i \in T
    BY <1>1, <1>2, UpTo
  <2> QED
    BY <2>1
<1> QED
  BY <1>3

\* A term of a sum of naturals is not greater than the sum.
LEMMA SumTerm ==
  ASSUME NEW n \in Nat, NEW f, NEW a, NEW k \in 1..n,
         IsNats(a, n), IsSum(f, a, n)
  PROVE  f[n] \in Nat /\ a[k] <= f[n]
<1> DEFINE T == {i \in 0..n : f[i] \in Nat /\ (i >= k => a[k] <= f[i])}
<1>1. 0 \in T
  BY DEF IsSum
<1>2. ASSUME NEW i \in 1..n, i - 1 \in T
      PROVE  i \in T
  <2>1. f[i - 1] \in Nat /\ f[i] = f[i - 1] + a[i] /\ a[i] \in Nat /\ a[k] \in Nat
    BY <1>2 DEF IsSum, IsNats
  <2>2. CASE i = k
    BY <2>1, <2>2
  <2>3. CASE i # k
    BY <1>2, <2>1, <2>3
  <2> QED
    BY <2>2, <2>3
<1>3. n \in T
  <2> HIDE DEF T
  <2>1. \A i \in 0..n : i \in T
    BY <1>1, <1>2, UpTo
  <2> QED
    BY <2>1
<1> QED
  BY <1>3

-----------------------------------------------------------------------------
(* References, and the cells that hold them                                *)

Pos == Nat \ {0}

IsRefs(s) == IsSeq(s) /\ \A i \in 1..Len(s) : s[i].cell \in Nat

LEMMA RefsEmpty == IsRefs(<<>>)
BY EmptyIsSeq DEF IsRefs

LEMMA RefsOne ==
  ASSUME NEW x, x.cell \in Nat
  PROVE  IsRefs(<<x>>)
<1>1. IsSeq(<<x>>) /\ Len(<<x>>) = 1 /\ <<x>>[1] = x
  BY OneSeq
<1>2. \A i \in 1..1 : i = 1
  OBVIOUS
<1> QED
  BY <1>1, <1>2 DEF IsRefs

LEMMA RefsConcat ==
  ASSUME NEW s, NEW t, IsRefs(s), IsRefs(t)
  PROVE  IsRefs(s \o t)
<1> DEFINE a == s \o t
<1>1. IsSeq(s) /\ IsSeq(t) /\ Len(s) \in Nat /\ Len(t) \in Nat
  BY SeqFacts DEF IsRefs
<1>2. /\ IsSeq(a) /\ Len(a) = Len(s) + Len(t)
      /\ \A i \in 1..Len(s) : a[i] = s[i]
      /\ \A i \in 1..Len(t) : a[Len(s) + i] = t[i]
  BY <1>1, ConcatSeq
<1> HIDE DEF a
<1>3. ASSUME NEW i \in 1..Len(a)
      PROVE  a[i].cell \in Nat
  <2>1. CASE i \in 1..Len(s)
    BY <1>2, <2>1 DEF IsRefs
  <2>2. CASE i \notin 1..Len(s)
    <3>1. i - Len(s) \in 1..Len(t) /\ Len(s) + (i - Len(s)) = i
      BY <1>1, <1>2, <2>2
    <3>2. a[i] = t[i - Len(s)]
      BY <1>2, <3>1
    <3> QED
      BY <3>1, <3>2 DEF IsRefs
  <2> QED
    BY <2>1, <2>2
<1>4. IsRefs(a)
  BY <1>2, <1>3 DEF IsRefs
<1> QED
  BY <1>4 DEF a

LEMMA RefsAppend ==
  ASSUME NEW s, NEW x, IsRefs(s), x.cell \in Nat
  PROVE  IsRefs(Append(s, x))
<1> DEFINE a == Append(s, x)
<1>1. IsSeq(s) /\ Len(s) \in Nat
  BY SeqFacts DEF IsRefs
<1>2. /\ IsSeq(a) /\ Len(a) = Len(s) + 1
      /\ (\A i \in 1..Len(s) : a[i] = s[i]) /\ a[Len(s) + 1] = x
  BY <1>1, AppendSeq
<1> HIDE DEF a
<1>3. \A i \in 1..Len(a) : i \in 1..Len(s) \/ i = Len(s) + 1
  BY <1>1, <1>2
<1>4. IsRefs(a)
  BY <1>2, <1>3 DEF IsRefs
<1> QED
  BY <1>4 DEF a

LEMMA CountNat ==
  ASSUME NEW s, NEW c, IsRefs(s)
  PROVE  Count(s, c) \in Nat
BY PlacesFinite DEF IsRefs

LEMMA CountSum ==
  ASSUME NEW s, NEW t, NEW c, IsRefs(s), IsRefs(t)
  PROVE  Count(s \o t, c) = Count(s, c) + Count(t, c)
BY CountConcat DEF IsRefs

LEMMA OnceNat ==
  ASSUME NEW x, NEW c
  PROVE  Once(x, c) \in {0, 1}
BY DEF Once

ThunkFields == {"op", "f", "deps", "addr", "caps", "fresh", "ready", "val"}

IsThunk(v) ==
  DOMAIN v = ThunkFields /\ IsRefs(v.deps) /\ IsRefs(v.addr) /\ IsRefs(v.caps)

LEMMA HoldsRefs ==
  ASSUME NEW v, NEW c, IsThunk(v)
  PROVE  /\ IsRefs(Holds(v)) /\ Count(Holds(v), c) \in Nat
         /\ Count(Holds(v), c) = (Count(v.deps, c) + Count(v.addr, c)) + Count(v.caps, c)
<1> DEFINE d == v.deps
           e == v.addr
           p == v.caps
<1>1. IsRefs(d) /\ IsRefs(e) /\ IsRefs(p) /\ Holds(v) = (d \o e) \o p
  BY DEF IsThunk, Holds
<1> HIDE DEF d, e, p
<1>2. IsRefs(d \o e) /\ Count(d \o e, c) = Count(d, c) + Count(e, c)
  BY <1>1, RefsConcat, CountSum
<1>3. IsRefs((d \o e) \o p) /\ Count((d \o e) \o p, c) = Count(d \o e, c) + Count(p, c)
  BY <1>1, <1>2, RefsConcat, CountSum
<1>4. Count((d \o e) \o p, c) \in Nat
  BY <1>3, CountNat
<1> QED
  BY <1>1, <1>2, <1>3, <1>4 DEF d, e, p

IsCell(cell) == DOMAIN cell = {"refcount", "value"} /\ cell.refcount \in Nat /\ IsThunk(cell.value)
IsCells(cells) == IsSeq(cells) /\ \A k \in 1..Len(cells) : IsCell(cells[k])

CellTerms(cells, c) == [i \in 1..Len(cells) |-> Count(Holds(cells[i].value), c)]

\* The references in cells to the cell c are a sum over the cells.
LEMMA CellSum ==
  ASSUME NEW cells, NEW c, IsCells(cells)
  PROVE  /\ IsRefs(CellRefs(cells))
         /\ IsNats(CellTerms(cells, c), Len(cells))
         /\ \E f : IsSum(f, CellTerms(cells, c), Len(cells)) /\ Count(CellRefs(cells), c) = f[Len(cells)]
<1> DEFINE n == Len(cells)
<1>1. n \in Nat /\ \A i \in 1..n : IsRefs(Holds(cells[i].value))
  BY SeqFacts, HoldsRefs DEF IsCells, IsCell
<1>2. PICK r : /\ r[0] = <<>> /\ \A i \in 1..n : r[i] = r[i - 1] \o Holds(cells[i].value)
               /\ CellRefs(cells) = r[n]
  BY <1>1, CellSteps
<1> DEFINE T == {i \in 0..n : IsRefs(r[i])}
<1> HIDE DEF n
<1>3. 0 \in T
  BY <1>1, <1>2, RefsEmpty
<1>4. ASSUME NEW i \in 1..n, i - 1 \in T
      PROVE  i \in T
  <2>1. IsRefs(r[i - 1]) /\ r[i] = r[i - 1] \o Holds(cells[i].value)
    BY <1>2, <1>4
  <2>2. IsRefs(r[i])
    BY <1>1, <2>1, RefsConcat
  <2> QED
    BY <1>1, <2>2
<1>5. \A i \in 0..n : IsRefs(r[i])
  <2>1. \A i \in 0..n : i \in T
    <3> HIDE DEF T
    <3> QED
      BY <1>1, <1>3, <1>4, UpTo
  <2> QED
    BY <2>1
<1> DEFINE f == [i \in 0..n |-> Count(r[i], c)]
<1>6. f[0] = 0
  BY <1>1, <1>2, CountEmpty
<1>7. ASSUME NEW i \in 1..n
      PROVE  f[i] = f[i - 1] + Count(Holds(cells[i].value), c)
  <2>1. i \in 0..n /\ i - 1 \in 0..n
    BY <1>1
  <2>2. r[i] = r[i - 1] \o Holds(cells[i].value)
    BY <1>2
  <2>3. Count(r[i - 1] \o Holds(cells[i].value), c) = Count(r[i - 1], c) + Count(Holds(cells[i].value), c)
    BY <1>1, <1>5, <2>1, CountSum
  <2> QED
    BY <2>1, <2>2, <2>3
<1>8. n \in 0..n /\ f[n] = Count(CellRefs(cells), c)
  BY <1>1, <1>2
<1>9. IsRefs(CellRefs(cells))
  BY <1>2, <1>5, <1>8
<1>10. IsSum(f, CellTerms(cells, c), n)
  BY <1>6, <1>7 DEF IsSum, CellTerms, n
<1>11. IsNats(CellTerms(cells, c), n)
  BY <1>1, CountNat DEF IsNats, CellTerms, n
<1> HIDE DEF f
<1> QED
  BY <1>8, <1>9, <1>10, <1>11 DEF n

\* Cells with the same values hold the same references.
LEMMA CellsSame ==
  ASSUME NEW cells, NEW new, NEW c, IsCells(cells), IsCells(new), Len(new) = Len(cells),
         \A i \in 1..Len(cells) : new[i].value = cells[i].value
  PROVE  Count(CellRefs(new), c) = Count(CellRefs(cells), c)
<1> DEFINE n == Len(cells)
<1>1. n \in Nat
  BY SeqFacts DEF IsCells
<1>2. CellTerms(new, c) = CellTerms(cells, c)
  BY DEF CellTerms
<1>3. PICK f : IsSum(f, CellTerms(cells, c), n) /\ Count(CellRefs(cells), c) = f[n]
  BY CellSum
<1>4. PICK g : IsSum(g, CellTerms(new, c), n) /\ Count(CellRefs(new), c) = g[n]
  BY CellSum
<1>5. f[n] = g[n]
  BY <1>1, <1>2, <1>3, <1>4, SumSame
<1> QED
  BY <1>3, <1>4, <1>5

\* One cell's value changes.
LEMMA CellsChange ==
  ASSUME NEW cells, NEW new, NEW c, NEW k \in 1..Len(cells), IsCells(cells), IsCells(new),
         Len(new) = Len(cells),
         \A i \in 1..Len(cells) : i # k => new[i].value = cells[i].value
  PROVE  Count(CellRefs(new), c)
           = (Count(CellRefs(cells), c) - Count(Holds(cells[k].value), c)) + Count(Holds(new[k].value), c)
<1> DEFINE n == Len(cells)
           a == CellTerms(cells, c)
           b == CellTerms(new, c)
<1>1. n \in Nat
  BY SeqFacts DEF IsCells
<1>2. k \in 1..n /\ SameBut(a, b, n, k)
  BY DEF CellTerms, SameBut
<1>3. a[k] = Count(Holds(cells[k].value), c) /\ b[k] = Count(Holds(new[k].value), c)
  BY DEF CellTerms
<1> HIDE DEF a, b
<1>4. PICK f : IsSum(f, a, n) /\ Count(CellRefs(cells), c) = f[n]
  BY CellSum DEF a
<1>5. PICK g : IsSum(g, b, n) /\ Count(CellRefs(new), c) = g[n]
  BY CellSum DEF b
<1>6. IsNats(a, n) /\ IsNats(b, n)
  BY CellSum DEF a, b
<1> HIDE DEF n
<1>7. g[n] = (f[n] - a[k]) + b[k]
  BY <1>1, <1>2, <1>4, <1>5, <1>6, SumChange
<1> QED
  BY <1>3, <1>4, <1>5, <1>7

\* A cell's references are among those of all cells.
LEMMA CellsPart ==
  ASSUME NEW cells, NEW c, NEW k \in 1..Len(cells), IsCells(cells)
  PROVE  /\ Count(Holds(cells[k].value), c) <= Count(CellRefs(cells), c)
         /\ Count(Holds(cells[k].value), c) \in Nat
<1> DEFINE n == Len(cells)
           a == CellTerms(cells, c)
<1>1. n \in Nat /\ k \in 1..n
  BY SeqFacts DEF IsCells
<1>2. IsNats(a, n) /\ \E f : IsSum(f, a, n) /\ Count(CellRefs(cells), c) = f[n]
  BY CellSum
<1>3. a[k] = Count(Holds(cells[k].value), c) /\ a[k] \in Nat
  BY <1>2 DEF CellTerms, IsNats
<1> HIDE DEF a, n
<1>4. PICK f : IsSum(f, a, n) /\ Count(CellRefs(cells), c) = f[n]
  BY <1>2
<1>5. a[k] <= f[n]
  BY <1>1, <1>2, <1>4, SumTerm
<1> QED
  BY <1>3, <1>4, <1>5

\* A cell is appended.
LEMMA CellsAppend ==
  ASSUME NEW cells, NEW cell, NEW c, IsCells(cells), IsCell(cell)
  PROVE  /\ IsCells(Append(cells, cell))
         /\ Count(CellRefs(Append(cells, cell)), c)
              = Count(CellRefs(cells), c) + Count(Holds(cell.value), c)
<1> DEFINE n == Len(cells)
           new == Append(cells, cell)
           a == CellTerms(cells, c)
           b == CellTerms(new, c)
<1>1. n \in Nat
  BY SeqFacts DEF IsCells
<1>2. /\ IsSeq(new) /\ Len(new) = n + 1
      /\ (\A i \in 1..n : new[i] = cells[i]) /\ new[n + 1] = cell
  BY AppendSeq DEF IsCells
<1> HIDE DEF new
<1>3. IsCells(new)
  <2>1. \A i \in 1..Len(new) : i \in 1..n \/ i = n + 1
    BY <1>1, <1>2
  <2> QED
    BY <1>2, <2>1 DEF IsCells
<1>4. PICK f : IsSum(f, a, n) /\ Count(CellRefs(cells), c) = f[n]
  BY CellSum
<1>5. PICK g : IsSum(g, b, Len(new)) /\ Count(CellRefs(new), c) = g[Len(new)]
  BY <1>3, CellSum
<1>6. /\ \A i \in 1..n : b[i] = a[i]
      /\ b[n + 1] = Count(Holds(cell.value), c)
  BY <1>1, <1>2 DEF CellTerms
<1> HIDE DEF a, b, n
<1>7. IsSum(g, a, n)
  <2>1. \A i \in 1..n : i \in 1..n + 1
    BY <1>1
  <2> QED
    BY <1>2, <1>5, <1>6, <2>1 DEF IsSum
<1>8. f[n] = g[n]
  BY <1>1, <1>4, <1>7, SumSame
<1>9. n + 1 \in 1..n + 1 /\ (n + 1) - 1 = n
  BY <1>1
<1>10. g[n + 1] = g[n] + Count(Holds(cell.value), c)
  BY <1>2, <1>5, <1>6, <1>9 DEF IsSum
<1> QED
  BY <1>2, <1>3, <1>4, <1>5, <1>8, <1>10 DEF new

-----------------------------------------------------------------------------
(* The heap: clone and drop                                                *)

IsFree(h) ==
  /\ IsSeq(h.free)
  /\ \A i \in 1..Len(h.free) : h.free[i] \in 1..Len(h.cells) /\ h.cells[h.free[i]].refcount = 0
  /\ \A i, j \in 1..Len(h.free) : h.free[i] = h.free[j] => i = j

IsHeap(h) == DOMAIN h = {"cells", "free"} /\ IsCells(h.cells) /\ IsFree(h)

\* How many references to c there should be.
Freed(h, c) == \E i \in 1..Len(h.free) : h.free[i] = c
Owed(h, c) == IF c \in 1..Len(h.cells) /\ ~Freed(h, c) THEN h.cells[c].refcount + 1 ELSE 0

SameValues(h, g) ==
  /\ Len(g.cells) = Len(h.cells)
  /\ \A k \in 1..Len(h.cells) : g.cells[k].value = h.cells[k].value

LEMMA OwedNat ==
  ASSUME NEW h, NEW c, IsHeap(h)
  PROVE  Owed(h, c) \in Nat
BY DEF Owed, IsHeap, IsCells, IsCell

LEMMA HeapLen ==
  ASSUME NEW h, IsHeap(h)
  PROVE  Len(h.cells) \in Nat /\ DOMAIN h.cells = 1..Len(h.cells) /\ IsSeq(h.cells)
         /\ Len(h.free) \in Nat /\ IsSeq(h.free)
BY SeqFacts DEF IsHeap, IsCells, IsFree

\* What an update of the count of one cell does.
LEMMA SetCount ==
  ASSUME NEW h, NEW k \in 1..Len(h.cells), NEW n \in Nat, IsHeap(h), ~Freed(h, k)
  PROVE  LET g == [h EXCEPT !.cells[k].refcount = n]
         IN /\ IsHeap(g) /\ SameValues(h, g) /\ g.free = h.free
            /\ g.cells[k].refcount = n
            /\ \A j \in 1..Len(h.cells) : j # k => g.cells[j] = h.cells[j]
<1> DEFINE g == [h EXCEPT !.cells[k].refcount = n]
           N == Len(h.cells)
<1>1. /\ N \in Nat /\ DOMAIN h.cells = 1..N /\ IsSeq(h.cells) /\ DOMAIN h = {"cells", "free"}
      /\ \A j \in 1..N : IsCell(h.cells[j])
  BY HeapLen DEF IsHeap, IsCells
<1> HIDE DEF N
<1>2. k \in 1..N
  BY DEF N
<1>3. /\ DOMAIN g = {"cells", "free"} /\ g.free = h.free
      /\ g.cells = [h.cells EXCEPT ![k] = [h.cells[k] EXCEPT !.refcount = n]]
  BY <1>1
<1> HIDE DEF g
<1>4. /\ DOMAIN g.cells = 1..N
      /\ g.cells[k] = [h.cells[k] EXCEPT !.refcount = n]
      /\ \A j \in 1..N : j # k => g.cells[j] = h.cells[j]
      /\ g.cells = [j \in 1..N |-> g.cells[j]]
  BY <1>1, <1>2, <1>3
<1>5. IsSeq(g.cells) /\ Len(g.cells) = N
  BY <1>1, <1>4, FunSeq
<1>6. /\ DOMAIN h.cells[k] = {"refcount", "value"} /\ IsThunk(h.cells[k].value)
  BY <1>1, <1>2 DEF IsCell
<1>7. /\ DOMAIN g.cells[k] = {"refcount", "value"} /\ g.cells[k].refcount = n
      /\ g.cells[k].value = h.cells[k].value
  BY <1>4, <1>6
<1>8. IsCell(g.cells[k])
  BY <1>6, <1>7 DEF IsCell
<1>9. IsCells(g.cells)
  BY <1>1, <1>4, <1>5, <1>8 DEF IsCells
<1>10. IsFree(g)
  <2>1. IsFree(h) /\ \A i \in 1..Len(h.free) : h.free[i] # k
    BY DEF IsHeap, Freed
  <2>2. \A i \in 1..Len(h.free) : h.free[i] \in 1..N /\ h.cells[h.free[i]].refcount = 0
    BY <2>1 DEF IsFree, N
  <2>3. \A i \in 1..Len(h.free) : g.cells[h.free[i]].refcount = 0
    BY <1>4, <2>1, <2>2
  <2> QED
    BY <1>3, <1>5, <2>1, <2>2, <2>3 DEF IsFree
<1>11. IsHeap(g)
  BY <1>3, <1>9, <1>10 DEF IsHeap
<1>12. SameValues(h, g)
  BY <1>4, <1>5, <1>7 DEF SameValues, N
<1> QED
  BY <1>3, <1>4, <1>7, <1>11, <1>12 DEF g, N

\* clone adds a reference to a cell that has one.
LEMMA CloneHeap ==
  ASSUME NEW h, NEW x, x.cell \in Nat, IsHeap(h), x.cell # 0 => Owed(h, x.cell) >= 1
  PROVE  /\ IsHeap(clone(h, x)) /\ SameValues(h, clone(h, x))
         /\ \A c \in Pos : Owed(clone(h, x), c) = Owed(h, c) + Once(x, c)
<1> DEFINE k == x.cell
<1>1. CASE k = 0
  <2>1. clone(h, x) = h
    BY <1>1 DEF clone
  <2>2. \A c \in Pos : Once(x, c) = 0
    BY <1>1 DEF Once, Pos
  <2>3. \A c \in Pos : Owed(h, c) \in Nat
    BY OwedNat
  <2> QED
    BY <2>1, <2>2, <2>3 DEF SameValues
<1>2. CASE k # 0
  <2> DEFINE g == clone(h, x)
             n == h.cells[k].refcount + 1
  <2>1. k \in 1..Len(h.cells) /\ ~Freed(h, k)
    BY <1>2 DEF Owed
  <2>2. h.cells[k].refcount \in Nat /\ n \in Nat
    BY <2>1 DEF IsHeap, IsCells, IsCell
  <2>3. g = [h EXCEPT !.cells[k].refcount = n]
    BY <1>2 DEF clone
  <2> HIDE DEF g, n, k
  <2>4. /\ IsHeap(g) /\ SameValues(h, g) /\ g.free = h.free /\ g.cells[k].refcount = n
        /\ \A j \in 1..Len(h.cells) : j # k => g.cells[j] = h.cells[j]
    <3> DEFINE e == [h EXCEPT !.cells[k].refcount = n]
    <3>1. /\ IsHeap(e) /\ SameValues(h, e) /\ e.free = h.free /\ e.cells[k].refcount = n
          /\ \A j \in 1..Len(h.cells) : j # k => e.cells[j] = h.cells[j]
      BY <2>1, <2>2, SetCount
    <3>2. g = e
      BY <2>3
    <3> HIDE DEF e
    <3> QED
      BY ONLY <3>1, <3>2
  <2>5. Len(g.cells) = Len(h.cells)
    BY <2>4 DEF SameValues
  <2>6. ASSUME NEW c \in Pos
        PROVE  Owed(g, c) = Owed(h, c) + Once(x, c)
    <3>1. Freed(g, c) <=> Freed(h, c)
      BY <2>4 DEF Freed
    <3>2. CASE c = k
      <4>1. Owed(g, c) = n + 1 /\ Owed(h, c) = n
        BY <2>1, <2>4, <2>5, <3>1, <3>2 DEF Owed, n
      <4>2. Once(x, c) = 1
        BY <3>2 DEF Once, k
      <4> QED
        BY <4>1, <4>2
    <3>3. CASE c # k
      <4>1. Owed(g, c) = Owed(h, c)
        BY <2>4, <2>5, <3>1, <3>3 DEF Owed
      <4>2. Once(x, c) = 0 /\ Owed(h, c) \in Nat
        BY <3>3, OwedNat DEF Once, k
      <4> QED
        BY <4>1, <4>2
    <3> QED
      BY <3>2, <3>3
  <2> QED
    BY <2>4, <2>6 DEF g
<1> QED
  BY <1>1, <1>2

\* drop takes a reference away from a cell that has one.
LEMMA DropHeap ==
  ASSUME NEW h, NEW x, x.cell \in Nat, IsHeap(h), x.cell # 0 => Owed(h, x.cell) >= 1
  PROVE  /\ IsHeap(drop(h, x)) /\ SameValues(h, drop(h, x))
         /\ \A c \in Pos : Owed(drop(h, x), c) = Owed(h, c) - Once(x, c)
<1> DEFINE k == x.cell
           g == drop(h, x)
<1>1. CASE k = 0
  <2>1. g = h
    BY <1>1 DEF drop
  <2>2. \A c \in Pos : Once(x, c) = 0
    BY <1>1 DEF Once, Pos
  <2>3. \A c \in Pos : Owed(h, c) \in Nat
    BY OwedNat
  <2> HIDE DEF g
  <2>4. \A c \in Pos : Owed(g, c) = Owed(h, c) - Once(x, c)
    BY <2>1, <2>2, <2>3
  <2>5. IsHeap(g) /\ SameValues(h, g)
    BY <2>1 DEF SameValues
  <2> QED
    BY <2>4, <2>5 DEF g
<1>2. CASE k # 0 /\ h.cells[k].refcount > 0
  <2> DEFINE n == h.cells[k].refcount - 1
  <2>1. k \in 1..Len(h.cells) /\ ~Freed(h, k)
    BY <1>2 DEF Owed
  <2>2. h.cells[k].refcount \in Nat
    BY <2>1 DEF IsHeap, IsCells, IsCell
  <2>7. n \in Nat
    BY <1>2, <2>2
  <2>3. g = [h EXCEPT !.cells[k].refcount = n]
    BY <1>2 DEF drop
  <2> HIDE DEF g, n, k
  <2>4. /\ IsHeap(g) /\ SameValues(h, g) /\ g.free = h.free /\ g.cells[k].refcount = n
        /\ \A j \in 1..Len(h.cells) : j # k => g.cells[j] = h.cells[j]
    <3> DEFINE e == [h EXCEPT !.cells[k].refcount = n]
    <3>1. /\ IsHeap(e) /\ SameValues(h, e) /\ e.free = h.free /\ e.cells[k].refcount = n
          /\ \A j \in 1..Len(h.cells) : j # k => e.cells[j] = h.cells[j]
      BY <2>1, <2>7, SetCount
    <3>2. g = e
      BY <2>3
    <3> HIDE DEF e
    <3> QED
      BY ONLY <3>1, <3>2
  <2>5. Len(g.cells) = Len(h.cells)
    BY <2>4 DEF SameValues
  <2>6. ASSUME NEW c \in Pos
        PROVE  Owed(g, c) = Owed(h, c) - Once(x, c)
    <3>1. Freed(g, c) <=> Freed(h, c)
      BY <2>4 DEF Freed
    <3>2. CASE c = k
      <4>1. Owed(g, c) = n + 1 /\ Owed(h, c) = h.cells[k].refcount + 1
        BY <2>1, <2>4, <2>5, <3>1, <3>2 DEF Owed
      <4>2. Once(x, c) = 1
        BY <3>2 DEF Once, k
      <4> QED
        BY <2>2, <4>1, <4>2 DEF n
    <3>3. CASE c # k
      <4>1. Owed(g, c) = Owed(h, c)
        BY <2>4, <2>5, <3>1, <3>3 DEF Owed
      <4>2. Once(x, c) = 0 /\ Owed(h, c) \in Nat
        BY <3>3, OwedNat DEF Once, k
      <4> QED
        BY <4>1, <4>2
    <3> QED
      BY <3>2, <3>3
  <2> QED
    BY <2>4, <2>6 DEF g
<1>3. CASE k # 0 /\ ~(h.cells[k].refcount > 0)
  <2> DEFINE m == Len(h.free)
  <2>1. k \in 1..Len(h.cells) /\ ~Freed(h, k)
    BY <1>3 DEF Owed
  <2>2. h.cells[k].refcount = 0
    BY <1>3, <2>1 DEF IsHeap, IsCells, IsCell
  <2>3. DOMAIN h = {"cells", "free"} /\ IsCells(h.cells) /\ IsFree(h) /\ m \in Nat
    BY HeapLen DEF IsHeap
  <2>4. g = [h EXCEPT !.free = Append(h.free, k)]
    BY <1>3 DEF drop
  <2>5. DOMAIN g = {"cells", "free"} /\ g.cells = h.cells /\ g.free = Append(h.free, k)
    BY <2>3, <2>4
  <2> HIDE DEF g, k
  <2>6. /\ IsSeq(g.free) /\ Len(g.free) = m + 1
        /\ (\A i \in 1..m : g.free[i] = h.free[i]) /\ g.free[m + 1] = k
    BY <2>3, <2>5, AppendSeq DEF IsFree
  <2>7. \A i \in 1..m + 1 : i \in 1..m \/ i = m + 1
    BY <2>3
  <2>8. IsFree(g)
    <3>1. \A i \in 1..m + 1 : g.free[i] \in 1..Len(g.cells) /\ g.cells[g.free[i]].refcount = 0
      BY <2>1, <2>2, <2>3, <2>5, <2>6, <2>7 DEF IsFree
    <3>2. ASSUME NEW i \in 1..m + 1, NEW j \in 1..m + 1, g.free[i] = g.free[j]
          PROVE  i = j
      BY <2>1, <2>3, <2>6, <2>7, <3>2 DEF IsFree, Freed
    <3> QED
      BY <2>6, <3>1, <3>2 DEF IsFree
  <2>9. IsHeap(g) /\ SameValues(h, g)
    BY <2>3, <2>5, <2>8 DEF IsHeap, SameValues
  <2>10. ASSUME NEW c \in Pos
         PROVE  Owed(g, c) = Owed(h, c) - Once(x, c)
    <3>1. Freed(g, c) <=> (Freed(h, c) \/ c = k)
      <4>1. m + 1 \in 1..m + 1 /\ \A i \in 1..m : i \in 1..m + 1
        BY <2>3
      <4> QED
        BY <2>6, <2>7, <4>1 DEF Freed
    <3>2. CASE c = k
      <4>1. Owed(g, c) = 0 /\ Owed(h, c) = 1
        BY <2>1, <2>2, <2>5, <3>1, <3>2 DEF Owed
      <4>2. Once(x, c) = 1
        BY <3>2 DEF Once, k
      <4> QED
        BY <4>1, <4>2
    <3>3. CASE c # k
      <4>1. Owed(g, c) = Owed(h, c)
        BY <2>5, <3>1, <3>3 DEF Owed
      <4>2. Once(x, c) = 0 /\ Owed(h, c) \in Nat
        BY <3>3, OwedNat DEF Once, k
      <4> QED
        BY <4>1, <4>2
    <3> QED
      BY <3>2, <3>3
  <2> QED
    BY <2>9, <2>10 DEF g
<1> QED
  BY <1>1, <1>2, <1>3

-----------------------------------------------------------------------------
(* The heap: clone_all, drop_all and alloc                                 *)

Prefix(xs, i) == [k \in 1..i |-> xs[k]]

LEMMA PrefixStep ==
  ASSUME NEW xs, IsRefs(xs)
  PROVE  /\ Prefix(xs, 0) = <<>> /\ Prefix(xs, Len(xs)) = xs
         /\ \A i \in 0..Len(xs) : IsRefs(Prefix(xs, i))
         /\ \A i \in 1..Len(xs) : Prefix(xs, i) = Append(Prefix(xs, i - 1), xs[i])
<1> DEFINE n == Len(xs)
<1>1. n \in Nat /\ IsSeq(xs) /\ xs = [i \in 1..n |-> xs[i]]
  BY SeqFacts DEF IsRefs
<1>2. Prefix(xs, n) = xs
  BY <1>1 DEF Prefix
<1>3. ASSUME NEW i \in 0..n
      PROVE  IsRefs(Prefix(xs, i)) /\ Len(Prefix(xs, i)) = i
  <2>1. i \in Nat /\ Prefix(xs, i) = [k \in 1..i |-> Prefix(xs, i)[k]]
    BY <1>1 DEF Prefix
  <2>2. IsSeq(Prefix(xs, i)) /\ Len(Prefix(xs, i)) = i
    BY <2>1, FunSeq
  <2>3. \A k \in 1..i : Prefix(xs, i)[k].cell \in Nat
    <3>1. \A k \in 1..i : k \in 1..n /\ Prefix(xs, i)[k] = xs[k]
      BY <1>1 DEF Prefix
    <3> QED
      BY <3>1 DEF IsRefs
  <2> QED
    BY <2>2, <2>3 DEF IsRefs
<1>4. Prefix(xs, 0) = <<>>
  <2>1. 0 \in 0..n
    BY <1>1
  <2>2. IsSeq(Prefix(xs, 0)) /\ Len(Prefix(xs, 0)) = 0
    BY <1>3, <2>1 DEF IsRefs
  <2> QED
    BY <2>2, SeqFacts
<1>5. ASSUME NEW i \in 1..n
      PROVE  Prefix(xs, i) = Append(Prefix(xs, i - 1), xs[i])
  <2> DEFINE p == Prefix(xs, i - 1)
             q == Prefix(xs, i)
             a == Append(p, xs[i])
  <2>1. i \in 0..n /\ i - 1 \in 0..n /\ i \in Nat /\ i - 1 \in Nat
    BY <1>1
  <2>2. IsSeq(p) /\ Len(p) = i - 1 /\ IsSeq(q) /\ Len(q) = i
    BY <1>3, <2>1 DEF IsRefs
  <2>3. (\A k \in 1..i : q[k] = xs[k]) /\ (\A k \in 1..i - 1 : p[k] = xs[k])
    BY DEF Prefix
  <2> HIDE DEF p, q
  <2>4. IsSeq(a) /\ Len(a) = Len(p) + 1 /\ (\A k \in 1..Len(p) : a[k] = p[k]) /\ a[Len(p) + 1] = xs[i]
    BY <2>2, AppendSeq
  <2> HIDE DEF a
  <2>5. \A k \in 1..i : k \in 1..i - 1 \/ k = (i - 1) + 1
    BY <2>1
  <2>6. \A k \in 1..i : a[k] = q[k]
    BY <2>2, <2>3, <2>4, <2>5
  <2>7. Len(a) = i
    BY <2>1, <2>2, <2>4
  <2>8. a = q
    BY <2>2, <2>4, <2>6, <2>7, EqualSeq
  <2> QED
    BY <2>8 DEF a, p, q
<1> QED
  BY <1>2, <1>3, <1>4, <1>5

\* The references to c among the first ones of a sequence.
LEMMA PrefixCount ==
  ASSUME NEW xs, NEW c, IsRefs(xs)
  PROVE  /\ Count(Prefix(xs, 0), c) = 0 /\ Count(Prefix(xs, Len(xs)), c) = Count(xs, c)
         /\ \A i \in 0..Len(xs) : Count(Prefix(xs, i), c) \in Nat /\ Count(Prefix(xs, i), c) <= Count(xs, c)
         /\ \A i \in 1..Len(xs) : Count(Prefix(xs, i), c) = Count(Prefix(xs, i - 1), c) + Once(xs[i], c)
<1> DEFINE n == Len(xs)
           N(i) == Count(Prefix(xs, i), c)
<1>1. n \in Nat
  BY SeqFacts DEF IsRefs
<1>2. N(0) = 0 /\ N(n) = Count(xs, c)
  BY PrefixStep, CountEmpty
<1>3. ASSUME NEW i \in 0..n
      PROVE  N(i) \in Nat
  BY PrefixStep, CountNat
<1>4. ASSUME NEW i \in 1..n
      PROVE  N(i) = N(i - 1) + Once(xs[i], c)
  <2>1. i - 1 \in 0..n
    BY <1>1
  <2>2. IsSeq(Prefix(xs, i - 1)) /\ Prefix(xs, i) = Append(Prefix(xs, i - 1), xs[i])
    BY <2>1, PrefixStep DEF IsRefs
  <2> QED
    BY <2>2, CountAppend
<1> HIDE DEF N, n
<1> DEFINE T == {j \in 0..n : \A i \in 0..j : N(i) <= N(j)}
<1>5. 0 \in T
  <2>1. \A i \in 0..0 : i = 0
    OBVIOUS
  <2> QED
    BY <1>1, <1>2, <2>1
<1>6. ASSUME NEW j \in 1..n, j - 1 \in T
      PROVE  j \in T
  <2>1. N(j) \in Nat /\ N(j - 1) \in Nat /\ N(j - 1) <= N(j) /\ j \in 0..n
    <3>1. j \in 0..n /\ j - 1 \in 0..n
      BY <1>1
    <3> QED
      BY <1>3, <1>4, <3>1, OnceNat
  <2>2. ASSUME NEW i \in 0..j
        PROVE  N(i) <= N(j)
    <3>1. CASE i = j
      BY <2>1, <3>1
    <3>2. CASE i # j
      <4>1. i \in 0..(j - 1) /\ i \in 0..n
        BY <1>1, <3>2
      <4>2. N(i) <= N(j - 1) /\ N(i) \in Nat
        BY <1>3, <1>6, <4>1
      <4> QED
        BY <2>1, <4>2
    <3> QED
      BY <3>1, <3>2
  <2> QED
    BY <2>1, <2>2
<1>7. n \in T
  <2> HIDE DEF T
  <2>1. \A i \in 0..n : i \in T
    BY <1>1, <1>5, <1>6, UpTo
  <2> QED
    BY <1>1, <2>1
<1>8. \A i \in 0..n : N(i) \in Nat /\ N(i) <= N(n)
  BY <1>3, <1>7
<1> QED
  BY <1>2, <1>4, <1>8 DEF N, n

\* Every referenced cell has a reference.
Live(h, xs) == \A c \in Pos : Count(xs, c) >= 1 => Owed(h, c) >= 1

LEMMA SameValuesTrans ==
  ASSUME NEW h, NEW g, NEW k, SameValues(h, g), SameValues(g, k)
  PROVE  SameValues(h, k)
BY DEF SameValues

LEMMA CloneAllHeap ==
  ASSUME NEW h, NEW xs, IsHeap(h), IsRefs(xs), Live(h, xs)
  PROVE  /\ IsHeap(clone_all(h, xs)) /\ SameValues(h, clone_all(h, xs))
         /\ \A c \in Pos : Owed(clone_all(h, xs), c) = Owed(h, c) + Count(xs, c)
<1> DEFINE n == Len(xs)
<1>1. n \in Nat /\ IsSeq(xs)
  BY SeqFacts DEF IsRefs
<1>2. PICK f : /\ f[0] = h /\ \A i \in 1..n : f[i] = clone(f[i - 1], xs[i])
               /\ clone_all(h, xs) = f[n]
  BY <1>1, CloneAllSteps
<1> DEFINE P(i) == /\ IsHeap(f[i]) /\ SameValues(h, f[i])
                   /\ \A c \in Pos : Owed(f[i], c) = Owed(h, c) + Count(Prefix(xs, i), c)
           T == {i \in 0..n : P(i)}
<1>3. 0 \in T
  <2>1. \A c \in Pos : Owed(h, c) \in Nat /\ Count(Prefix(xs, 0), c) = 0
    BY OwedNat, PrefixCount
  <2>2. SameValues(h, h)
    BY DEF SameValues
  <2> QED
    BY <1>1, <1>2, <2>1, <2>2
<1>4. ASSUME NEW i \in 1..n, i - 1 \in T
      PROVE  i \in T
  <2> DEFINE g == f[i - 1]
             x == xs[i]
  <2>1. f[i] = clone(g, x) /\ IsHeap(g) /\ SameValues(h, g)
    BY <1>2, <1>4
  <2>2. x.cell \in Nat
    BY DEF IsRefs
  <2>3. \A c \in Pos : Owed(g, c) = Owed(h, c) + Count(Prefix(xs, i - 1), c)
    BY <1>4
  <2>4. i - 1 \in 0..n /\ i \in 0..n
    BY <1>1
  <2>5. \A c \in Pos : /\ Owed(h, c) \in Nat /\ Count(Prefix(xs, i - 1), c) \in Nat
                       /\ Count(Prefix(xs, i), c) = Count(Prefix(xs, i - 1), c) + Once(x, c)
                       /\ Once(x, c) \in {0, 1}
    BY <2>4, OwedNat, PrefixCount, OnceNat
  <2>6. x.cell # 0 => Owed(g, x.cell) >= 1
    <3>1. Count(xs, x.cell) >= 1
      BY <1>1, CountIn
    <3> HIDE DEF g, x
    <3>2. ASSUME x.cell # 0
          PROVE  Owed(g, x.cell) >= 1
      <4>1. x.cell \in Pos
        BY <2>2, <3>2 DEF Pos
      <4>2. Owed(h, x.cell) >= 1
        BY <3>1, <4>1 DEF Live, x
      <4> QED
        BY <2>3, <2>5, <4>1, <4>2
    <3> QED
      BY <3>2
  <2> HIDE DEF g, x, n
  <2>7. /\ IsHeap(clone(g, x)) /\ SameValues(g, clone(g, x))
        /\ \A c \in Pos : Owed(clone(g, x), c) = Owed(g, c) + Once(x, c)
    BY <2>1, <2>2, <2>6, CloneHeap
  <2>8. SameValues(h, f[i])
    BY <2>1, <2>7, SameValuesTrans
  <2>9. ASSUME NEW c \in Pos
        PROVE  Owed(f[i], c) = Owed(h, c) + Count(Prefix(xs, i), c)
    BY <2>1, <2>3, <2>5, <2>7
  <2> QED
    BY <2>1, <2>4, <2>7, <2>8, <2>9
<1>5. n \in T
  <2> HIDE DEF T, n
  <2>1. \A i \in 0..n : i \in T
    BY <1>1, <1>3, <1>4, UpTo
  <2> QED
    BY <1>1, <2>1
<1>6. \A c \in Pos : Count(Prefix(xs, n), c) = Count(xs, c)
  BY PrefixCount
<1> QED
  BY <1>2, <1>5, <1>6

\* There are enough references to drop.
Covers(h, xs) == \A c \in Pos : Count(xs, c) <= Owed(h, c)

LEMMA DropAllHeap ==
  ASSUME NEW h, NEW xs, IsHeap(h), IsRefs(xs), Covers(h, xs)
  PROVE  /\ IsHeap(drop_all(h, xs)) /\ SameValues(h, drop_all(h, xs))
         /\ \A c \in Pos : Owed(drop_all(h, xs), c) = Owed(h, c) - Count(xs, c)
<1> DEFINE n == Len(xs)
<1>1. n \in Nat /\ IsSeq(xs)
  BY SeqFacts DEF IsRefs
<1>2. PICK f : /\ f[0] = h /\ \A i \in 1..n : f[i] = drop(f[i - 1], xs[i])
               /\ drop_all(h, xs) = f[n]
  BY <1>1, DropAllSteps
<1> DEFINE P(i) == /\ IsHeap(f[i]) /\ SameValues(h, f[i])
                   /\ \A c \in Pos : Owed(f[i], c) = Owed(h, c) - Count(Prefix(xs, i), c)
           T == {i \in 0..n : P(i)}
<1>3. 0 \in T
  <2>1. \A c \in Pos : Owed(h, c) \in Nat /\ Count(Prefix(xs, 0), c) = 0
    BY OwedNat, PrefixCount
  <2>2. SameValues(h, h)
    BY DEF SameValues
  <2> QED
    BY <1>1, <1>2, <2>1, <2>2
<1>4. ASSUME NEW i \in 1..n, i - 1 \in T
      PROVE  i \in T
  <2> DEFINE g == f[i - 1]
             x == xs[i]
  <2>1. f[i] = drop(g, x) /\ IsHeap(g) /\ SameValues(h, g)
    BY <1>2, <1>4
  <2>2. x.cell \in Nat
    BY DEF IsRefs
  <2>3. \A c \in Pos : Owed(g, c) = Owed(h, c) - Count(Prefix(xs, i - 1), c)
    BY <1>4
  <2>4. i - 1 \in 0..n /\ i \in 0..n
    BY <1>1
  <2>5. \A c \in Pos : /\ Owed(h, c) \in Nat /\ Count(Prefix(xs, i - 1), c) \in Nat
                       /\ Count(Prefix(xs, i), c) = Count(Prefix(xs, i - 1), c) + Once(x, c)
                       /\ Count(Prefix(xs, i), c) <= Count(xs, c) /\ Count(xs, c) \in Nat
                       /\ Once(x, c) \in {0, 1}
    BY <2>4, OwedNat, PrefixCount, OnceNat, CountNat
  <2>6. x.cell # 0 => Owed(g, x.cell) >= 1
    <3>1. Once(x, x.cell) = 1
      BY DEF Once
    <3> HIDE DEF g, x
    <3>2. ASSUME x.cell # 0
          PROVE  Owed(g, x.cell) >= 1
      <4>1. x.cell \in Pos
        BY <2>2, <3>2 DEF Pos
      <4>2. Count(xs, x.cell) <= Owed(h, x.cell)
        BY <4>1 DEF Covers
      <4> QED
        BY <2>3, <2>5, <3>1, <4>1, <4>2
    <3> QED
      BY <3>2
  <2> HIDE DEF g, x, n
  <2>7. /\ IsHeap(drop(g, x)) /\ SameValues(g, drop(g, x))
        /\ \A c \in Pos : Owed(drop(g, x), c) = Owed(g, c) - Once(x, c)
    BY <2>1, <2>2, <2>6, DropHeap
  <2>8. SameValues(h, f[i])
    BY <2>1, <2>7, SameValuesTrans
  <2>9. ASSUME NEW c \in Pos
        PROVE  Owed(f[i], c) = Owed(h, c) - Count(Prefix(xs, i), c)
    BY <2>1, <2>3, <2>5, <2>7
  <2> QED
    BY <2>1, <2>4, <2>7, <2>8, <2>9
<1>5. n \in T
  <2> HIDE DEF T, n
  <2>1. \A i \in 0..n : i \in T
    BY <1>1, <1>3, <1>4, UpTo
  <2> QED
    BY <1>1, <2>1
<1>6. \A c \in Pos : Count(Prefix(xs, n), c) = Count(xs, c)
  BY PrefixCount
<1> QED
  BY <1>2, <1>5, <1>6

-----------------------------------------------------------------------------
(* A heap is balanced by the references R outside it when every cell has   *)
(* as many references as its count says.                                   *)

CellCount(h, c) == Count(CellRefs(h.cells), c)

Balanced(h, R) ==
  IsHeap(h) /\ IsRefs(R) /\ \A c \in Pos : Owed(h, c) = CellCount(h, c) + Count(R, c)

LEMMA CellCountNat ==
  ASSUME NEW h, NEW c, IsHeap(h)
  PROVE  CellCount(h, c) \in Nat
BY CellSum, CountNat DEF CellCount, IsHeap

LEMMA CellCountSame ==
  ASSUME NEW h, NEW g, NEW c, IsHeap(h), IsHeap(g), SameValues(h, g)
  PROVE  CellCount(g, c) = CellCount(h, c)
BY CellsSame DEF CellCount, IsHeap, SameValues

\* The same references in another order.
SameCount(R, Q) == \A c \in Pos : Count(R, c) = Count(Q, c)

LEMMA Rebalance ==
  ASSUME NEW h, NEW R, NEW Q, Balanced(h, R), IsRefs(Q), SameCount(R, Q)
  PROVE  Balanced(h, Q)
BY DEF Balanced, SameCount

Within(xs, R) == \A c \in Pos : Count(xs, c) >= 1 => Count(R, c) >= 1

LEMMA BalancedCloneAll ==
  ASSUME NEW h, NEW R, NEW xs, Balanced(h, R), IsRefs(xs), Within(xs, R)
  PROVE  Balanced(clone_all(h, xs), R \o xs)
<1> DEFINE g == clone_all(h, xs)
<1>1. IsHeap(h) /\ IsRefs(R) /\ \A c \in Pos : Owed(h, c) = CellCount(h, c) + Count(R, c)
  BY DEF Balanced
<1>2. \A c \in Pos : CellCount(h, c) \in Nat /\ Count(R, c) \in Nat /\ Count(xs, c) \in Nat
  BY <1>1, CellCountNat, CountNat
<1>3. Live(h, xs)
  BY <1>1, <1>2 DEF Live, Within
<1>4. IsHeap(g) /\ SameValues(h, g) /\ \A c \in Pos : Owed(g, c) = Owed(h, c) + Count(xs, c)
  BY <1>1, <1>3, CloneAllHeap
<1> HIDE DEF g
<1>5. \A c \in Pos : CellCount(g, c) = CellCount(h, c)
  BY <1>1, <1>4, CellCountSame
<1>6. IsRefs(R \o xs) /\ \A c \in Pos : Count(R \o xs, c) = Count(R, c) + Count(xs, c)
  BY <1>1, RefsConcat, CountSum
<1>7. ASSUME NEW c \in Pos
      PROVE  Owed(g, c) = CellCount(g, c) + Count(R \o xs, c)
  BY <1>1, <1>2, <1>4, <1>5, <1>6
<1> QED
  BY <1>4, <1>6, <1>7 DEF Balanced, g

LEMMA BalancedClone ==
  ASSUME NEW h, NEW R, NEW x, Balanced(h, R), x.cell \in Nat, x.cell # 0 => Count(R, x.cell) >= 1
  PROVE  Balanced(clone(h, x), R \o <<x>>)
<1> DEFINE g == clone(h, x)
<1>1. IsHeap(h) /\ IsRefs(R) /\ \A c \in Pos : Owed(h, c) = CellCount(h, c) + Count(R, c)
  BY DEF Balanced
<1>2. \A c \in Pos : CellCount(h, c) \in Nat /\ Count(R, c) \in Nat /\ Once(x, c) \in Nat
  BY <1>1, CellCountNat, CountNat, OnceNat
<1>3. x.cell # 0 => Owed(h, x.cell) >= 1
  <2>1. x.cell # 0 => x.cell \in Pos
    BY DEF Pos
  <2> QED
    BY <1>1, <1>2, <2>1
<1>4. IsHeap(g) /\ SameValues(h, g) /\ \A c \in Pos : Owed(g, c) = Owed(h, c) + Once(x, c)
  BY <1>1, <1>3, CloneHeap
<1> HIDE DEF g
<1>5. \A c \in Pos : CellCount(g, c) = CellCount(h, c)
  BY <1>1, <1>4, CellCountSame
<1>6. IsRefs(R \o <<x>>) /\ \A c \in Pos : Count(R \o <<x>>, c) = Count(R, c) + Once(x, c)
  <2> DEFINE o == <<x>>
  <2>1. IsRefs(o) /\ \A c \in Pos : Count(o, c) = Once(x, c)
    BY RefsOne, CountOne
  <2> HIDE DEF o
  <2>2. IsRefs(R \o o) /\ \A c \in Pos : Count(R \o o, c) = Count(R, c) + Count(o, c)
    BY <1>1, <2>1, RefsConcat, CountSum
  <2>3. \A c \in Pos : Count(R \o o, c) = Count(R, c) + Once(x, c)
    BY <2>1, <2>2
  <2> QED
    BY <2>2, <2>3 DEF o
<1>7. ASSUME NEW c \in Pos
      PROVE  Owed(g, c) = CellCount(g, c) + Count(R \o <<x>>, c)
  BY <1>1, <1>2, <1>4, <1>5, <1>6
<1> QED
  BY <1>4, <1>6, <1>7 DEF Balanced, g

LEMMA BalancedDropAll ==
  ASSUME NEW h, NEW R, NEW xs, IsRefs(R), IsRefs(xs), Balanced(h, R \o xs)
  PROVE  Balanced(drop_all(h, xs), R)
<1> DEFINE g == drop_all(h, xs)
<1>1. IsHeap(h) /\ \A c \in Pos : Owed(h, c) = CellCount(h, c) + Count(R \o xs, c)
  BY DEF Balanced
<1>2. \A c \in Pos : CellCount(h, c) \in Nat /\ Count(R, c) \in Nat /\ Count(xs, c) \in Nat
  BY <1>1, CellCountNat, CountNat
<1>3. \A c \in Pos : Count(R \o xs, c) = Count(R, c) + Count(xs, c)
  BY CountSum
<1>4. Covers(h, xs)
  BY <1>1, <1>2, <1>3 DEF Covers
<1>5. IsHeap(g) /\ SameValues(h, g) /\ \A c \in Pos : Owed(g, c) = Owed(h, c) - Count(xs, c)
  BY <1>1, <1>4, DropAllHeap
<1> HIDE DEF g
<1>6. \A c \in Pos : CellCount(g, c) = CellCount(h, c)
  BY <1>1, <1>5, CellCountSame
<1>7. ASSUME NEW c \in Pos
      PROVE  Owed(g, c) = CellCount(g, c) + Count(R, c)
  BY <1>1, <1>2, <1>3, <1>5, <1>6
<1> QED
  BY <1>5, <1>7 DEF Balanced, g

LEMMA BalancedDrop ==
  ASSUME NEW h, NEW R, NEW x, IsRefs(R), x.cell \in Nat, Balanced(h, R \o <<x>>)
  PROVE  Balanced(drop(h, x), R)
<1> DEFINE g == drop(h, x)
           o == <<x>>
<1>8. IsRefs(o) /\ \A c \in Pos : Count(o, c) = Once(x, c) /\ Once(x, c) \in Nat
  BY RefsOne, CountOne, OnceNat
<1>1. IsHeap(h) /\ \A c \in Pos : Owed(h, c) = CellCount(h, c) + Count(R \o o, c)
  BY DEF Balanced
<1> HIDE DEF o
<1>2. \A c \in Pos : CellCount(h, c) \in Nat /\ Count(R, c) \in Nat /\ Count(o, c) \in Nat
  BY <1>1, <1>8, CellCountNat, CountNat
<1>3. \A c \in Pos : Count(R \o o, c) = Count(R, c) + Once(x, c)
  BY <1>8, CountSum
<1>4. x.cell # 0 => Owed(h, x.cell) >= 1
  <2>1. x.cell # 0 => x.cell \in Pos
    BY DEF Pos
  <2>2. Once(x, x.cell) = 1
    BY DEF Once
  <2> QED
    BY <1>1, <1>2, <1>3, <2>1, <2>2
<1>5. IsHeap(g) /\ SameValues(h, g) /\ \A c \in Pos : Owed(g, c) = Owed(h, c) - Once(x, c)
  BY <1>1, <1>4, DropHeap
<1> HIDE DEF g
<1>6. \A c \in Pos : CellCount(g, c) = CellCount(h, c)
  BY <1>1, <1>5, CellCountSame
<1>7. ASSUME NEW c \in Pos
      PROVE  Owed(g, c) = CellCount(g, c) + Count(R, c)
  BY <1>1, <1>2, <1>3, <1>5, <1>6, <1>8
<1> QED
  BY <1>5, <1>7 DEF Balanced, g

\* What overwriting a cell's value does.
Put(h, k, v) == [h EXCEPT !.cells[k].value = v]

LEMMA SetValue ==
  ASSUME NEW h, NEW k \in 1..Len(h.cells), NEW v, IsHeap(h), IsThunk(v)
  PROVE  LET g == Put(h, k, v)
         IN /\ IsHeap(g) /\ Len(g.cells) = Len(h.cells) /\ g.cells[k].value = v
            /\ \A c \in Pos :
                 /\ Owed(g, c) = Owed(h, c)
                 /\ CellCount(g, c) = (CellCount(h, c) - Count(Holds(h.cells[k].value), c)) + Count(Holds(v), c)
<1> DEFINE g == Put(h, k, v)
           N == Len(h.cells)
<1>1. /\ N \in Nat /\ DOMAIN h.cells = 1..N /\ IsSeq(h.cells) /\ DOMAIN h = {"cells", "free"}
      /\ \A j \in 1..N : IsCell(h.cells[j])
  BY HeapLen DEF IsHeap, IsCells
<1> HIDE DEF N
<1>2. k \in 1..N
  BY DEF N
<1>3. /\ DOMAIN g = {"cells", "free"} /\ g.free = h.free
      /\ g.cells = [h.cells EXCEPT ![k] = [h.cells[k] EXCEPT !.value = v]]
  BY <1>1 DEF Put
<1> HIDE DEF g
<1>4. /\ DOMAIN g.cells = 1..N
      /\ g.cells[k] = [h.cells[k] EXCEPT !.value = v]
      /\ \A j \in 1..N : j # k => g.cells[j] = h.cells[j]
      /\ g.cells = [j \in 1..N |-> g.cells[j]]
  BY <1>1, <1>2, <1>3
<1>5. IsSeq(g.cells) /\ Len(g.cells) = N
  BY <1>1, <1>4, FunSeq
<1>6. DOMAIN h.cells[k] = {"refcount", "value"} /\ h.cells[k].refcount \in Nat
  BY <1>1, <1>2 DEF IsCell
<1>7. /\ DOMAIN g.cells[k] = {"refcount", "value"} /\ g.cells[k].refcount = h.cells[k].refcount
      /\ g.cells[k].value = v
  BY <1>4, <1>6
<1>8. IsCell(g.cells[k])
  BY <1>6, <1>7 DEF IsCell
<1>9. IsCells(g.cells) /\ \A j \in 1..N : g.cells[j].refcount = h.cells[j].refcount
  BY <1>1, <1>4, <1>5, <1>7, <1>8 DEF IsCells
<1>10. IsFree(g)
  <2>1. IsFree(h)
    BY DEF IsHeap
  <2>2. \A i \in 1..Len(h.free) : h.free[i] \in 1..N /\ h.cells[h.free[i]].refcount = 0
    BY <2>1 DEF IsFree, N
  <2>3. \A i \in 1..Len(h.free) : g.cells[h.free[i]].refcount = 0
    BY <1>9, <2>2
  <2> QED
    BY <1>3, <1>5, <2>1, <2>2, <2>3 DEF IsFree
<1>11. IsHeap(g)
  BY <1>3, <1>9, <1>10 DEF IsHeap
<1>12. ASSUME NEW c \in Pos
       PROVE  Owed(g, c) = Owed(h, c)
  BY <1>3, <1>5, <1>9 DEF Owed, Freed, N
<1>13. ASSUME NEW c \in Pos
       PROVE  CellCount(g, c) = (CellCount(h, c) - Count(Holds(h.cells[k].value), c)) + Count(Holds(v), c)
  <2>1. IsCells(h.cells) /\ \A j \in 1..N : j # k => g.cells[j].value = h.cells[j].value
    BY <1>4 DEF IsHeap
  <2> QED
    BY <1>5, <1>7, <1>9, <2>1, CellsChange DEF CellCount, N
<1> QED
  BY <1>5, <1>7, <1>11, <1>12, <1>13 DEF g, N

\* alloc gives out a cell that nothing references; it is the first reference to it.
LEMMA BalancedAlloc ==
  ASSUME NEW h, NEW R, NEW v, IsRefs(R), IsThunk(v), Balanced(h, R \o Holds(v))
  PROVE  LET a == alloc(h, v)
         IN /\ Balanced(a.heap, R \o <<Ref(a.cell)>>) /\ a.cell \in Pos /\ Count(R, a.cell) = 0
<1> DEFINE H == Holds(v)
           k == alloc(h, v).cell
           g == alloc(h, v).heap
           n == Len(h.cells)
           o == <<Ref(k)>>
<1>1. IsHeap(h) /\ \A c \in Pos : Owed(h, c) = CellCount(h, c) + Count(R \o H, c)
  BY DEF Balanced
<1>2. IsRefs(H)
  BY HoldsRefs
<1>3. \A c \in Pos : /\ Count(R \o H, c) = Count(R, c) + Count(H, c)
                     /\ Count(R, c) \in Nat /\ Count(H, c) \in Nat /\ CellCount(h, c) \in Nat
  BY <1>1, <1>2, CountSum, CountNat, CellCountNat
<1>4. n \in Nat /\ IsCells(h.cells) /\ IsFree(h) /\ DOMAIN h = {"cells", "free"}
      /\ Len(h.free) \in Nat /\ IsSeq(h.free)
  BY <1>1, HeapLen DEF IsHeap
<1> SUFFICES /\ k \in Pos /\ Owed(h, k) = 0 /\ IsHeap(g)
             /\ \A c \in Pos : Owed(g, c) - CellCount(g, c)
                                 = (Owed(h, c) - (CellCount(h, c) + Count(H, c))) + Once(Ref(k), c)
  <2> HIDE DEF k, g, n, H
  <2>1. Ref(k).cell = k
    BY DEF Ref
  <2>2. IsRefs(o) /\ \A c \in Pos : Count(o, c) = Once(Ref(k), c) /\ Once(Ref(k), c) \in Nat
    <3>1. k \in Nat
      BY DEF Pos
    <3> QED
      BY <2>1, <3>1, RefsOne, CountOne, OnceNat
  <2> HIDE DEF o
  <2>3. IsRefs(R \o o) /\ \A c \in Pos : Count(R \o o, c) = Count(R, c) + Count(o, c)
    BY <2>2, RefsConcat, CountSum
  <2>4. ASSUME NEW c \in Pos
        PROVE  Owed(g, c) = CellCount(g, c) + Count(R \o o, c)
    <3>1. Owed(g, c) \in Nat /\ CellCount(g, c) \in Nat /\ Owed(h, c) \in Nat
      BY <1>1, OwedNat, CellCountNat
    <3> QED
      BY <1>1, <1>3, <2>2, <2>3, <3>1
  <2>5. Count(R, k) = 0
    BY <1>1, <1>3
  <2>6. Balanced(g, R \o o)
    BY <2>3, <2>4 DEF Balanced
  <2> QED
    BY <2>5, <2>6 DEF g, k, o
<1>5. CASE h.free = <<>>
  <2> DEFINE new == [refcount |-> 0, value |-> v]
  <2>1. /\ alloc(h, v) = [heap |-> [h EXCEPT !.cells = Append(h.cells, new)], cell |-> n + 1]
    BY <1>5 DEF alloc
  <2>2. k = n + 1 /\ g = [h EXCEPT !.cells = Append(h.cells, new)]
    BY <2>1
  <2> HIDE DEF k, g
  <2>3. DOMAIN g = {"cells", "free"} /\ g.free = <<>> /\ g.cells = Append(h.cells, new)
    BY <1>4, <1>5, <2>2
  <2>4. IsCell(new) /\ new.refcount = 0 /\ new.value = v
    BY DEF IsCell
  <2> HIDE DEF new
  <2>5. /\ IsCells(g.cells)
        /\ \A c \in Pos : CellCount(g, c) = CellCount(h, c) + Count(H, c)
    BY <1>4, <2>3, <2>4, CellsAppend DEF CellCount
  <2>6. /\ Len(g.cells) = n + 1 /\ (\A i \in 1..n : g.cells[i] = h.cells[i])
        /\ g.cells[n + 1] = new
    BY <1>4, <2>3, AppendSeq DEF IsCells
  <2>7. Len(g.free) = 0 /\ IsSeq(g.free) /\ Len(h.free) = 0
    BY <1>5, <2>3, EmptyIsSeq
  <2>8. IsHeap(g) /\ ~(\E c : Freed(g, c)) /\ ~(\E c : Freed(h, c))
    BY <2>3, <2>5, <2>7 DEF IsHeap, IsFree, Freed
  <2>9. k \in Pos /\ Owed(h, k) = 0
    BY <1>4, <2>2 DEF Owed, Pos
  <2>10. ASSUME NEW c \in Pos
         PROVE  Owed(g, c) = Owed(h, c) + Once(Ref(k), c)
    <3>1. CASE c = n + 1
      <4>1. Owed(g, c) = 1
        BY <1>4, <2>4, <2>6, <2>8, <3>1 DEF Owed
      <4>2. Once(Ref(k), c) = 1
        BY <2>2, <3>1 DEF Once, Ref
      <4> QED
        BY <2>2, <2>9, <3>1, <4>1, <4>2
    <3>2. CASE c # n + 1
      <4>1. c \in 1..n + 1 <=> c \in 1..n
        BY <1>4, <3>2
      <4>2. Owed(g, c) = Owed(h, c)
        BY <2>6, <2>8, <4>1 DEF Owed
      <4>3. Once(Ref(k), c) = 0 /\ Owed(h, c) \in Nat
        BY <1>1, <2>2, <3>2, OwedNat DEF Once, Ref
      <4> QED
        BY <4>2, <4>3
    <3> QED
      BY <3>1, <3>2
  <2>11. ASSUME NEW c \in Pos
         PROVE  Owed(g, c) - CellCount(g, c)
                  = (Owed(h, c) - (CellCount(h, c) + Count(H, c))) + Once(Ref(k), c)
    <3>1. Owed(h, c) \in Nat /\ Once(Ref(k), c) \in {0, 1}
      BY <1>1, OwedNat, OnceNat
    <3> HIDE DEF H
    <3> QED
      BY <1>3, <2>5, <2>10, <3>1
  <2> QED
    BY <2>8, <2>9, <2>11
<1>6. CASE h.free # <<>>
  <2> DEFINE l == Last(h.free)
             old == h.cells[l].value
             p == [h EXCEPT !.free = Front(h.free)]
             d == drop_all(p, Holds(old))
             m == Len(h.free)
  <2>1. alloc(h, v) = [heap |-> [d EXCEPT !.cells[l].value = v], cell |-> l]
    BY <1>6 DEF alloc
  <2>2. k = l /\ g = [d EXCEPT !.cells[l].value = v]
    BY <2>1
  <2> HIDE DEF k, g, d
  <2>3. DOMAIN p = {"cells", "free"} /\ p.cells = h.cells /\ p.free = Front(h.free)
    BY <1>4
  <2> HIDE DEF p, l
  <2>4. /\ IsSeq(p.free) /\ Len(p.free) = m - 1 /\ m >= 1 /\ l = h.free[m]
        /\ \A i \in 1..m - 1 : p.free[i] = h.free[i]
    BY <1>4, <1>6, <2>3, FrontSeq DEF l
  <2>5. l \in 1..n /\ h.cells[l].refcount = 0
    BY <1>4, <2>4 DEF IsFree
  <2>6. \A i \in 1..m - 1 : i \in 1..m /\ i # m
    BY <1>4
  <2>7. IsFree(p)
    <3>1. \A i \in 1..m - 1 : p.free[i] \in 1..Len(p.cells) /\ p.cells[p.free[i]].refcount = 0
      BY <1>4, <2>3, <2>4, <2>6 DEF IsFree
    <3>2. \A i, j \in 1..m - 1 : p.free[i] = p.free[j] => i = j
      BY <1>4, <2>4, <2>6 DEF IsFree
    <3> QED
      BY <2>4, <3>1, <3>2 DEF IsFree
  <2>8. IsHeap(p)
    BY <1>4, <2>3, <2>7 DEF IsHeap
  <2>9. ASSUME NEW c
        PROVE  Freed(h, c) <=> (Freed(p, c) \/ c = l)
    <3>1. \A i \in 1..m : i \in 1..m - 1 \/ i = m
      BY <1>4
    <3>2. m \in 1..m
      BY <1>4, <2>4
    <3> QED
      BY <2>4, <2>6, <3>1, <3>2 DEF Freed
  <2>10. ~Freed(p, l)
    <3>1. m \in 1..m /\ \A i, j \in 1..m : h.free[i] = h.free[j] => i = j
      BY <1>4, <2>4 DEF IsFree
    <3>2. \A i \in 1..m - 1 : p.free[i] # l
      BY <2>4, <2>6, <3>1
    <3> QED
      BY <2>4, <3>2 DEF Freed
  <2>11. l \in Pos /\ Owed(h, l) = 0
    BY <1>4, <2>5, <2>9 DEF Owed, Pos
  <2>12. ASSUME NEW c \in Pos
         PROVE  Owed(p, c) = Owed(h, c) + Once(Ref(l), c)
    <3>1. CASE c = l
      <4>1. Owed(p, c) = 1
        BY <2>3, <2>5, <2>10, <3>1 DEF Owed
      <4>2. Once(Ref(l), c) = 1
        BY <3>1 DEF Once, Ref
      <4> QED
        BY <2>11, <3>1, <4>1, <4>2
    <3>2. CASE c # l
      <4>1. Owed(p, c) = Owed(h, c)
        BY <2>3, <2>9, <3>2 DEF Owed
      <4>2. Once(Ref(l), c) = 0 /\ Owed(h, c) \in Nat
        BY <1>1, <3>2, OwedNat DEF Once, Ref
      <4> QED
        BY <4>1, <4>2
    <3> QED
      BY <3>1, <3>2
  <2>13. \A c \in Pos : CellCount(p, c) = CellCount(h, c)
    BY <2>3 DEF CellCount
  <2>14. IsThunk(old) /\ IsRefs(Holds(old))
    <3>1. IsThunk(old)
      BY <1>4, <2>5 DEF IsCells, IsCell
    <3> QED
      BY <3>1, HoldsRefs
  <2>15. \A c \in Pos : Count(Holds(old), c) \in Nat /\ Count(Holds(old), c) <= CellCount(h, c)
    BY <1>4, <2>5, CellsPart DEF CellCount
  <2> HIDE DEF old
  <2>16. Covers(p, Holds(old))
    <3>1. ASSUME NEW c \in Pos
          PROVE  Count(Holds(old), c) <= Owed(p, c)
      <4>1. Once(Ref(l), c) \in {0, 1}
        BY OnceNat
      <4> HIDE DEF H
      <4> QED
        BY <1>1, <1>3, <2>12, <2>15, <4>1
    <3> QED
      BY <3>1 DEF Covers
  <2>17. /\ IsHeap(d) /\ SameValues(p, d)
         /\ \A c \in Pos : Owed(d, c) = Owed(p, c) - Count(Holds(old), c)
    BY <2>8, <2>14, <2>16, DropAllHeap DEF d
  <2>18. \A c \in Pos : CellCount(d, c) = CellCount(h, c)
    BY <2>8, <2>13, <2>17, CellCountSame
  <2>19. l \in 1..Len(d.cells) /\ d.cells[l].value = old
    BY <2>3, <2>5, <2>17 DEF SameValues, old
  <2>20. /\ IsHeap(g)
         /\ \A c \in Pos : /\ Owed(g, c) = Owed(d, c)
                           /\ CellCount(g, c) = (CellCount(d, c) - Count(Holds(old), c)) + Count(Holds(v), c)
    <3> DEFINE e == Put(d, l, v)
    <3>1. /\ IsHeap(e)
          /\ \A c \in Pos : /\ Owed(e, c) = Owed(d, c)
                            /\ CellCount(e, c) = (CellCount(d, c) - Count(Holds(d.cells[l].value), c))
                                                    + Count(Holds(v), c)
      BY <2>17, <2>19, SetValue
    <3> HIDE DEF e
    <3>2. g = e
      BY <2>2 DEF e, Put
    <3> QED
      BY <2>19, <3>1, <3>2
  <2>21. ASSUME NEW c \in Pos
         PROVE  Owed(g, c) - CellCount(g, c)
                  = (Owed(h, c) - (CellCount(h, c) + Count(H, c))) + Once(Ref(k), c)
    <3>1. Owed(h, c) \in Nat /\ Once(Ref(k), c) \in {0, 1}
      BY <1>1, OwedNat, OnceNat
    <3>2. CellCount(g, c) = (CellCount(h, c) - Count(Holds(old), c)) + Count(H, c)
      BY <2>18, <2>20
    <3>3. Owed(g, c) = (Owed(h, c) + Once(Ref(k), c)) - Count(Holds(old), c)
      BY <2>2, <2>12, <2>17, <2>20
    <3> HIDE DEF H
    <3> QED
      BY <1>3, <2>15, <3>1, <3>2, <3>3
  <2> QED
    BY <2>2, <2>11, <2>20, <2>21
<1> QED
  BY <1>5, <1>6

\* Thunk::step drops what the closure captured, which the cell no longer holds.
LEMMA BalancedStep ==
  ASSUME NEW p, NEW R, NEW c \in 1..Len(p.heap.cells), Balanced(p.heap, R),
         {"heap", "mem"} \subseteq DOMAIN p
  PROVE  /\ Balanced(step(p, c).heap, R) /\ DOMAIN step(p, c) = DOMAIN p
         /\ Len(step(p, c).heap.cells) = Len(p.heap.cells)
<1> DEFINE h == p.heap
           thunk == h.cells[c].value
           r == Run1(thunk, [d \in DOMAIN thunk.deps |-> ValIn(h, thunk.deps[d])], p.mem)
           done == [thunk EXCEPT !.ready = TRUE, !.val = r.val, !.caps = <<>>]
           g == Put(h, c, done)
           e == drop_all(g, thunk.caps)
           q == step(p, c)
<1>1. q = p \/ q = [p EXCEPT !.heap = e, !.mem = r.mem]
  BY DEF step, Put
<1> HIDE DEF r
<1>2. IsHeap(h) /\ IsRefs(R) /\ \A x \in Pos : Owed(h, x) = CellCount(h, x) + Count(R, x)
  BY DEF Balanced
<1>3. IsThunk(thunk)
  BY <1>2 DEF IsHeap, IsCells, IsCell
<1>4. /\ DOMAIN done = ThunkFields
      /\ done.deps = thunk.deps /\ done.addr = thunk.addr /\ done.caps = <<>>
  BY <1>3 DEF IsThunk, ThunkFields
<1>5. IsThunk(done)
  BY <1>3, <1>4, RefsEmpty DEF IsThunk
<1>6. \A x \in Pos : /\ Count(Holds(thunk), x) = Count(Holds(done), x) + Count(thunk.caps, x)
                     /\ Count(Holds(done), x) \in Nat /\ Count(thunk.caps, x) \in Nat
  <2>1. ASSUME NEW x \in Pos
        PROVE  Count(Holds(thunk), x) = Count(Holds(done), x) + Count(thunk.caps, x)
    <3>1. /\ Count(Holds(thunk), x) = (Count(thunk.deps, x) + Count(thunk.addr, x)) + Count(thunk.caps, x)
          /\ Count(Holds(done), x) = (Count(done.deps, x) + Count(done.addr, x)) + Count(done.caps, x)
      BY <1>3, <1>5, HoldsRefs
    <3>2. Count(done.caps, x) = 0
      BY <1>4, CountEmpty
    <3>3. Count(thunk.deps, x) \in Nat /\ Count(thunk.addr, x) \in Nat /\ Count(thunk.caps, x) \in Nat
      BY <1>3, CountNat DEF IsThunk
    <3> HIDE DEF done, thunk
    <3> QED
      BY <1>4, <3>1, <3>2, <3>3
  <2>2. \A x \in Pos : Count(Holds(done), x) \in Nat
    BY <1>5, HoldsRefs
  <2>3. \A x \in Pos : Count(thunk.caps, x) \in Nat
    BY <1>3, CountNat DEF IsThunk
  <2> QED
    BY <2>1, <2>2, <2>3
<1> HIDE DEF done
<1>7. /\ IsHeap(g) /\ Len(g.cells) = Len(h.cells)
      /\ \A x \in Pos : /\ Owed(g, x) = Owed(h, x)
                        /\ CellCount(g, x) = (CellCount(h, x) - Count(Holds(thunk), x)) + Count(Holds(done), x)
  BY <1>2, <1>5, SetValue
<1> HIDE DEF g
<1>8. IsRefs(thunk.caps)
  BY <1>3 DEF IsThunk
<1> HIDE DEF thunk, h, q
<1>9. Balanced(g, R \o thunk.caps)
  <2>1. IsRefs(R \o thunk.caps) /\ \A x \in Pos : Count(R \o thunk.caps, x) = Count(R, x) + Count(thunk.caps, x)
    BY <1>2, <1>8, RefsConcat, CountSum
  <2>2. \A x \in Pos : CellCount(h, x) \in Nat /\ Count(R, x) \in Nat
    BY <1>2, CellCountNat, CountNat
  <2>3. ASSUME NEW x \in Pos
        PROVE  Owed(g, x) = CellCount(g, x) + Count(R \o thunk.caps, x)
    BY <1>2, <1>6, <1>7, <2>1, <2>2
  <2> QED
    BY <1>7, <2>1, <2>3 DEF Balanced
<1>10. Balanced(e, R)
  BY <1>2, <1>8, <1>9, BalancedDropAll
<1>11. Len(e.cells) = Len(h.cells)
  <2>1. Covers(g, thunk.caps)
    <3>1. \A x \in Pos : Owed(g, x) = CellCount(g, x) + (Count(R, x) + Count(thunk.caps, x))
      BY <1>2, <1>8, <1>9, CountSum DEF Balanced
    <3>2. \A x \in Pos : CellCount(g, x) \in Nat /\ Count(R, x) \in Nat
      BY <1>2, <1>7, CellCountNat, CountNat
    <3> QED
      BY <1>6, <3>1, <3>2 DEF Covers
  <2>2. SameValues(g, e)
    BY <1>7, <1>8, <2>1, DropAllHeap
  <2> QED
    BY <1>7, <2>2 DEF SameValues
<1> HIDE DEF e
<1>12. CASE q = p
  BY <1>12 DEF q, h
<1>13. CASE q = [p EXCEPT !.heap = e, !.mem = r.mem]
  <2>1. q.heap = e /\ DOMAIN q = DOMAIN p
    BY <1>13
  <2> QED
    BY <1>10, <1>11, <2>1 DEF q, h
<1> QED
  BY <1>1, <1>12, <1>13

-----------------------------------------------------------------------------
(* The pipeline: distinct cells                                            *)

Distinct(s) == \A i, j \in 1..Len(s) : s[i] = s[j] => i = j

\* The elements of r are elements of s that are in S.
From(r, s, S) == \A j \in 1..Len(r) : \E k \in 1..Len(s) : r[j] = s[k] /\ s[k] \in S

LEMMA KeepFacts ==
  ASSUME NEW s, NEW S, IsSeq(s)
  PROVE  IsSeq(Keep(s, S)) /\ From(Keep(s, S), s, S) /\ (Distinct(s) => Distinct(Keep(s, S)))
<1> DEFINE n == Len(s)
<1>1. n \in Nat
  BY SeqFacts
<1>2. PICK f : /\ f[0] = <<>>
               /\ \A i \in 1..n : f[i] = IF s[i] \in S THEN Append(f[i - 1], s[i]) ELSE f[i - 1]
               /\ Keep(s, S) = f[n]
  BY <1>1, KeepSteps
<1> HIDE DEF n
<1> DEFINE P(r, i) == /\ IsSeq(r) /\ Len(r) \in Nat
                      /\ \A j \in 1..Len(r) : \E k \in 1..i : r[j] = s[k] /\ s[k] \in S
                      /\ Distinct(s) => Distinct(r)
           T == {i \in 0..n : P(f[i], i)}
<1>3. 0 \in T
  BY <1>1, <1>2, EmptyIsSeq DEF Distinct
<1>4. ASSUME NEW i \in 1..n, i - 1 \in T
      PROVE  i \in T
  <2> DEFINE r == f[i - 1]
             q == f[i]
             m == Len(r)
  <2>1. P(r, i - 1)
    BY <1>4
  <2>2. i \in 0..n /\ \A k \in 1..i - 1 : k \in 1..i /\ k # i
    BY <1>1
  <2>3. CASE s[i] \notin S
    <3>1. q = r
      BY <1>2, <2>3
    <3> HIDE DEF q, r
    <3>2. P(q, i)
      BY <2>1, <2>2, <3>1
    <3> QED
      BY <2>2, <3>2 DEF q
  <2>4. CASE s[i] \in S
    <3>1. q = Append(r, s[i])
      BY <1>2, <2>4
    <3> HIDE DEF q, r
    <3>2. /\ IsSeq(q) /\ Len(q) = m + 1 /\ m \in Nat
          /\ (\A j \in 1..m : q[j] = r[j]) /\ q[m + 1] = s[i]
      BY <2>1, <3>1, AppendSeq
    <3>3. \A j \in 1..m + 1 : j \in 1..m \/ j = m + 1
      BY <3>2
    <3>4. \A j \in 1..Len(q) : \E k \in 1..i : q[j] = s[k] /\ s[k] \in S
      <4>1. i \in 1..i
        BY <1>1
      <4> QED
        BY <2>1, <2>2, <2>4, <3>2, <3>3, <4>1
    <3>5. ASSUME Distinct(s), NEW a \in 1..Len(q), NEW b \in 1..Len(q), q[a] = q[b]
          PROVE  a = b
      <4>1. Distinct(r)
        BY <2>1, <3>5
      <4>2. \A j \in 1..m : r[j] # s[i]
        <5>1. \A k \in 1..i - 1 : k \in 1..n /\ k # i
          BY <1>1
        <5>2. \A k \in 1..i - 1 : s[k] # s[i]
          BY <3>5, <5>1 DEF Distinct, n
        <5> QED
          BY <2>1, <5>2
      <4> QED
        BY <3>2, <3>3, <3>5, <4>1, <4>2 DEF Distinct
    <3>7. Distinct(s) => Distinct(q)
      BY <3>5 DEF Distinct
    <3>8. Len(q) \in Nat
      BY <3>2, SeqFacts
    <3>6. P(q, i)
      BY <3>2, <3>4, <3>7, <3>8
    <3> QED
      BY <2>2, <3>6 DEF q
  <2> QED
    BY <2>3, <2>4
<1>5. n \in T
  <2> HIDE DEF T
  <2>1. \A i \in 0..n : i \in T
    BY <1>1, <1>3, <1>4, UpTo
  <2> QED
    BY <1>1, <2>1
<1> QED
  BY <1>2, <1>5 DEF From, n

RefSeq(s) == [k \in DOMAIN s |-> Ref(s[k])]

IsPos(s) == IsSeq(s) /\ \A i \in 1..Len(s) : s[i] \in Pos
IsThunks(s) == IsPos(s) /\ Distinct(s)

LEMMA RefSeqRefs ==
  ASSUME NEW s, IsPos(s)
  PROVE  /\ IsRefs(RefSeq(s)) /\ Len(RefSeq(s)) = Len(s)
         /\ \A i \in 1..Len(s) : RefSeq(s)[i] = Ref(s[i]) /\ RefSeq(s)[i].cell = s[i]
<1>1. Len(s) \in Nat /\ DOMAIN s = 1..Len(s)
  BY SeqFacts DEF IsPos
<1>2. \A i \in 1..Len(s) : RefSeq(s)[i] = Ref(s[i]) /\ Ref(s[i]).cell = s[i]
  BY <1>1 DEF RefSeq, Ref
<1>3. RefSeq(s) = [i \in 1..Len(s) |-> RefSeq(s)[i]]
  BY <1>1 DEF RefSeq
<1>4. IsSeq(RefSeq(s)) /\ Len(RefSeq(s)) = Len(s)
  BY <1>1, <1>3, FunSeq
<1>5. \A i \in 1..Len(s) : RefSeq(s)[i].cell \in Nat
  BY <1>2 DEF IsPos, Pos
<1> QED
  BY <1>2, <1>4, <1>5 DEF IsRefs

LEMMA RefSeqAppend ==
  ASSUME NEW s, NEW k \in Pos, IsPos(s)
  PROVE  /\ IsPos(Append(s, k))
         /\ \A c \in Pos : Count(RefSeq(Append(s, k)), c) = Count(RefSeq(s), c) + Once(Ref(k), c)
<1> DEFINE n == Len(s)
           t == Append(s, k)
           r == Append(RefSeq(s), Ref(k))
<1>1. n \in Nat /\ IsSeq(s)
  BY SeqFacts DEF IsPos
<1>2. IsSeq(t) /\ Len(t) = n + 1 /\ (\A i \in 1..n : t[i] = s[i]) /\ t[n + 1] = k
  BY <1>1, AppendSeq
<1> HIDE DEF t, n
<1>3. \A i \in 1..n + 1 : i \in 1..n \/ i = n + 1
  BY <1>1
<1>4. IsPos(t)
  BY <1>2, <1>3 DEF IsPos, n
<1>5. /\ IsRefs(RefSeq(s)) /\ Len(RefSeq(s)) = n
      /\ \A i \in 1..n : RefSeq(s)[i] = Ref(s[i])
  BY RefSeqRefs DEF n
<1>6. /\ IsRefs(RefSeq(t)) /\ Len(RefSeq(t)) = n + 1
      /\ \A i \in 1..n + 1 : RefSeq(t)[i] = Ref(t[i])
  BY <1>2, <1>4, RefSeqRefs
<1>7. /\ IsSeq(r) /\ Len(r) = n + 1
      /\ (\A i \in 1..n : r[i] = Ref(s[i])) /\ r[n + 1] = Ref(k)
  <2> DEFINE q == RefSeq(s)
  <2>1. IsSeq(q) /\ Len(q) = n
    BY <1>5 DEF IsRefs
  <2> HIDE DEF q
  <2>2. /\ IsSeq(Append(q, Ref(k))) /\ Len(Append(q, Ref(k))) = Len(q) + 1
        /\ (\A i \in 1..Len(q) : Append(q, Ref(k))[i] = q[i]) /\ Append(q, Ref(k))[Len(q) + 1] = Ref(k)
    BY <2>1, AppendSeq
  <2>3. \A i \in 1..n : q[i] = Ref(s[i])
    BY <1>5 DEF q
  <2> QED
    BY <2>1, <2>2, <2>3 DEF q
<1> HIDE DEF r
<1>8. RefSeq(t) = r
  <2>1. \A i \in 1..n + 1 : RefSeq(t)[i] = r[i]
    BY <1>2, <1>3, <1>6, <1>7
  <2> QED
    BY <1>6, <1>7, <2>1, EqualSeq DEF IsRefs
<1>9. \A c \in Pos : Count(r, c) = Count(RefSeq(s), c) + Once(Ref(k), c)
  BY <1>5, CountAppend DEF r, IsRefs
<1> QED
  BY <1>4, <1>8, <1>9 DEF t

\* What is kept of s is a pipeline; S and U divide the elements of s.
LEMMA KeepThunks ==
  ASSUME NEW s, NEW S, IsThunks(s)
  PROVE  IsThunks(Keep(s, S)) /\ From(Keep(s, S), s, S)
<1>1. IsSeq(Keep(s, S)) /\ From(Keep(s, S), s, S) /\ Distinct(Keep(s, S))
  BY KeepFacts DEF IsThunks, IsPos
<1>2. \A j \in 1..Len(Keep(s, S)) : Keep(s, S)[j] \in Pos
  BY <1>1 DEF From, IsThunks, IsPos
<1> QED
  BY <1>1, <1>2 DEF IsThunks, IsPos

Divide(s, S, U) == \A i \in 1..Len(s) : s[i] \in S <=> s[i] \notin U

LEMMA KeepSplit ==
  ASSUME NEW s, NEW S, NEW U, IsThunks(s), Divide(s, S, U)
  PROVE  \A c \in Pos : Count(RefSeq(Keep(s, S)), c) + Count(RefSeq(Keep(s, U)), c) = Count(RefSeq(s), c)
<1> DEFINE n == Len(s)
<1>1. n \in Nat /\ IsSeq(s) /\ IsPos(s)
  BY SeqFacts DEF IsThunks, IsPos
<1>2. PICK f : /\ f[0] = <<>>
               /\ \A i \in 1..n : f[i] = IF s[i] \in S THEN Append(f[i - 1], s[i]) ELSE f[i - 1]
               /\ Keep(s, S) = f[n]
  BY <1>1, KeepSteps
<1>3. PICK g : /\ g[0] = <<>>
               /\ \A i \in 1..n : g[i] = IF s[i] \in U THEN Append(g[i - 1], s[i]) ELSE g[i - 1]
               /\ Keep(s, U) = g[n]
  BY <1>1, KeepSteps
<1>4. \A i \in 1..n : s[i] \in Pos /\ (s[i] \in S <=> s[i] \notin U)
  BY <1>1 DEF IsPos, Divide
<1>5. IsRefs(RefSeq(s)) /\ Len(RefSeq(s)) = n /\ \A i \in 1..n : RefSeq(s)[i] = Ref(s[i])
  BY <1>1, RefSeqRefs
<1> HIDE DEF n
<1> DEFINE N(i, c) == Count(Prefix(RefSeq(s), i), c)
           T == {i \in 0..n : /\ IsPos(f[i]) /\ IsPos(g[i])
                              /\ \A c \in Pos : Count(RefSeq(f[i]), c) + Count(RefSeq(g[i]), c) = N(i, c)}
<1>6. \A c \in Pos : /\ N(0, c) = 0 /\ N(n, c) = Count(RefSeq(s), c)
                     /\ \A i \in 1..n : N(i, c) = N(i - 1, c) + Once(Ref(s[i]), c)
  BY <1>5, PrefixCount
<1> HIDE DEF N
<1>7. 0 \in T
  <2>1. IsPos(<<>>)
    BY EmptyIsSeq DEF IsPos
  <2>2. RefSeq(<<>>) = <<>>
    <3>1. IsRefs(RefSeq(<<>>)) /\ Len(RefSeq(<<>>)) = 0
      BY <2>1, RefSeqRefs, EmptyIsSeq
    <3> QED
      BY <3>1, SeqFacts DEF IsRefs
  <2>3. \A c \in Pos : Count(RefSeq(<<>>), c) = 0
    BY <2>2, CountEmpty
  <2> QED
    BY <1>1, <1>2, <1>3, <1>6, <2>1, <2>3
<1>8. ASSUME NEW i \in 1..n, i - 1 \in T
      PROVE  i \in T
  <2> DEFINE a == f[i - 1]
             b == g[i - 1]
             x == s[i]
  <2>1. /\ IsPos(a) /\ IsPos(b) /\ x \in Pos
        /\ \A c \in Pos : Count(RefSeq(a), c) + Count(RefSeq(b), c) = N(i - 1, c)
    BY <1>4, <1>8
  <2>2. \A c \in Pos : N(i, c) = N(i - 1, c) + Once(Ref(x), c)
    BY <1>6
  <2>3. \A c \in Pos : Count(RefSeq(a), c) \in Nat /\ Count(RefSeq(b), c) \in Nat /\ Once(Ref(x), c) \in {0, 1}
    BY <2>1, RefSeqRefs, CountNat, OnceNat
  <2>7. i \in 0..n
    BY <1>1
  <2>4. CASE x \in S
    <3>1. f[i] = Append(a, x) /\ g[i] = b
      BY <1>2, <1>3, <1>4, <2>4
    <3> HIDE DEF a, b, x
    <3>2. IsPos(f[i]) /\ \A c \in Pos : Count(RefSeq(f[i]), c) = Count(RefSeq(a), c) + Once(Ref(x), c)
      BY <2>1, <3>1, RefSeqAppend
    <3>3. \A c \in Pos : Count(RefSeq(f[i]), c) + Count(RefSeq(g[i]), c) = N(i, c)
      BY <2>1, <2>2, <2>3, <3>1, <3>2
    <3> QED
      BY <2>1, <2>7, <3>1, <3>2, <3>3
  <2>5. CASE x \notin S
    <3>1. f[i] = a /\ g[i] = Append(b, x)
      BY <1>2, <1>3, <1>4, <2>5
    <3> HIDE DEF a, b, x
    <3>2. IsPos(g[i]) /\ \A c \in Pos : Count(RefSeq(g[i]), c) = Count(RefSeq(b), c) + Once(Ref(x), c)
      BY <2>1, <3>1, RefSeqAppend
    <3>3. \A c \in Pos : Count(RefSeq(f[i]), c) + Count(RefSeq(g[i]), c) = N(i, c)
      BY <2>1, <2>2, <2>3, <3>1, <3>2
    <3> QED
      BY <2>1, <2>7, <3>1, <3>2, <3>3
  <2> QED
    BY <2>4, <2>5
<1>9. n \in T
  <2> HIDE DEF T
  <2>1. \A i \in 0..n : i \in T
    BY <1>1, <1>7, <1>8, UpTo
  <2> QED
    BY <1>1, <2>1
<1> QED
  BY <1>2, <1>3, <1>6, <1>9

-----------------------------------------------------------------------------
(* Declaring thunks                                                        *)

\* The references there are while a frame decodes: those of the pipeline,
\* those decoded so far and the others, R.
Held(R, th, refs) == (R \o RefSeq(th)) \o refs

LEMMA HeldCount ==
  ASSUME NEW R, NEW th, NEW refs, IsRefs(R), IsPos(th), IsRefs(refs)
  PROVE  /\ IsRefs(Held(R, th, refs))
         /\ \A c \in Pos :
              /\ Count(Held(R, th, refs), c) = (Count(R, c) + Count(RefSeq(th), c)) + Count(refs, c)
              /\ Count(R, c) \in Nat /\ Count(RefSeq(th), c) \in Nat /\ Count(refs, c) \in Nat
<1> DEFINE t == RefSeq(th)
<1>1. IsRefs(t)
  BY RefSeqRefs
<1> HIDE DEF t
<1>2. IsRefs(R \o t) /\ \A c \in Pos : Count(R \o t, c) = Count(R, c) + Count(t, c)
  BY <1>1, RefsConcat, CountSum
<1>3. IsRefs((R \o t) \o refs) /\ \A c \in Pos : Count((R \o t) \o refs, c) = Count(R \o t, c) + Count(refs, c)
  BY <1>2, RefsConcat, CountSum
<1>4. \A c \in Pos : Count(R, c) \in Nat /\ Count(t, c) \in Nat /\ Count(refs, c) \in Nat
  BY <1>1, CountNat
<1> QED
  BY <1>2, <1>3, <1>4 DEF Held, t

IsState(s) == DOMAIN s = {"heap", "thunks", "refs"} /\ IsThunks(s.thunks) /\ IsRefs(s.refs)
Decoded(s, R) == IsState(s) /\ IsRefs(R) /\ Balanced(s.heap, Held(R, s.thunks, s.refs))

\* thunk_impl gives the new thunk the references it holds.
LEMMA Declares ==
  ASSUME NEW s, NEW R, NEW t, IsState(s), IsRefs(R), IsThunk(t),
         Balanced(s.heap, Held(R, s.thunks, s.refs) \o Holds(t))
  PROVE  /\ Decoded(declare(s, t), R)
         /\ \E k \in Pos : declare(s, t).refs = Append(s.refs, Ref(k))
<1> DEFINE a == alloc(s.heap, t)
           k == a.cell
           g == clone(a.heap, Ref(k))
           X == Held(R, s.thunks, s.refs)
           o == <<Ref(k)>>
           th == Append(s.thunks, k)
           rs == Append(s.refs, Ref(k))
           d == declare(s, t)
<1>1. d = [heap |-> g, thunks |-> th, refs |-> rs]
  BY DEF declare
<1>2. IsPos(s.thunks) /\ Distinct(s.thunks) /\ IsRefs(s.refs)
  BY DEF IsState, IsThunks
<1>3. /\ IsRefs(X)
      /\ \A c \in Pos : /\ Count(X, c) = (Count(R, c) + Count(RefSeq(s.thunks), c)) + Count(s.refs, c)
                        /\ Count(R, c) \in Nat /\ Count(RefSeq(s.thunks), c) \in Nat
                        /\ Count(s.refs, c) \in Nat
  BY <1>2, HeldCount
<1>4. Balanced(a.heap, X \o o) /\ k \in Pos /\ Count(X, k) = 0
  BY <1>3, BalancedAlloc
<1> HIDE DEF a, k, X
<1>5. Ref(k).cell = k /\ k \in Nat
  BY <1>4 DEF Ref, Pos
<1>6. IsRefs(o) /\ \A c \in Pos : Count(o, c) = Once(Ref(k), c) /\ Once(Ref(k), c) \in Nat
  BY <1>5, RefsOne, CountOne, OnceNat
<1>7. Once(Ref(k), k) = 1
  BY <1>5 DEF Once
<1> HIDE DEF o
<1>8. IsRefs(X \o o) /\ \A c \in Pos : Count(X \o o, c) = Count(X, c) + Once(Ref(k), c)
  BY <1>3, <1>6, RefsConcat, CountSum
<1>9. Balanced(g, (X \o o) \o o)
  <2> DEFINE Y == X \o o
  <2>1. Balanced(a.heap, Y) /\ Count(Y, k) >= 1
    BY <1>3, <1>4, <1>7, <1>8
  <2> HIDE DEF Y
  <2>2. Balanced(clone(a.heap, Ref(k)), Y \o <<Ref(k)>>)
    BY <1>5, <2>1, BalancedClone
  <2> QED
    BY <2>2 DEF Y, o
<1>10. /\ IsRefs((X \o o) \o o)
       /\ \A c \in Pos : Count((X \o o) \o o, c) = (Count(X, c) + Once(Ref(k), c)) + Once(Ref(k), c)
  <2> DEFINE Y == X \o o
  <2>1. IsRefs(Y) /\ \A c \in Pos : Count(Y, c) = Count(X, c) + Once(Ref(k), c)
    BY <1>8
  <2> HIDE DEF Y
  <2>2. IsRefs(Y \o o) /\ \A c \in Pos : Count(Y \o o, c) = Count(Y, c) + Count(o, c)
    BY <1>6, <2>1, RefsConcat, CountSum
  <2> QED
    BY <1>6, <2>1, <2>2 DEF Y
<1>11. IsPos(th) /\ \A c \in Pos : Count(RefSeq(th), c) = Count(RefSeq(s.thunks), c) + Once(Ref(k), c)
  BY <1>2, <1>4, RefSeqAppend
<1>12. IsRefs(rs) /\ \A c \in Pos : Count(rs, c) = Count(s.refs, c) + Once(Ref(k), c)
  BY <1>2, <1>5, RefsAppend, CountAppend DEF IsRefs
<1>13. Distinct(th)
  <2> DEFINE n == Len(s.thunks)
  <2>1. /\ IsSeq(s.thunks) /\ n \in Nat
    BY <1>2, SeqFacts DEF IsPos
  <2>2. Len(th) = n + 1 /\ (\A i \in 1..n : th[i] = s.thunks[i]) /\ th[n + 1] = k
    BY <2>1, AppendSeq
  <2>3. ASSUME NEW i \in 1..n
        PROVE  s.thunks[i] # k
    <3>1. IsRefs(RefSeq(s.thunks)) /\ Len(RefSeq(s.thunks)) = n /\ RefSeq(s.thunks)[i].cell = s.thunks[i]
      BY <1>2, RefSeqRefs
    <3>2. Count(RefSeq(s.thunks), s.thunks[i]) >= 1
      BY <3>1, CountIn DEF IsRefs
    <3>3. Count(RefSeq(s.thunks), k) = 0
      BY <1>3, <1>4
    <3> QED
      BY <3>2, <3>3
  <2>4. \A i \in 1..n + 1 : i \in 1..n \/ i = n + 1
    BY <2>1
  <2> HIDE DEF th, n
  <2>5. \A i, j \in 1..n : s.thunks[i] = s.thunks[j] => i = j
    BY <1>2 DEF Distinct, n
  <2> QED
    BY <2>2, <2>3, <2>4, <2>5 DEF Distinct
<1> HIDE DEF th, rs, g
<1>14. /\ IsRefs(Held(R, th, rs))
       /\ \A c \in Pos : Count(Held(R, th, rs), c) = (Count(R, c) + Count(RefSeq(th), c)) + Count(rs, c)
  BY <1>11, <1>12, HeldCount
<1>15. SameCount((X \o o) \o o, Held(R, th, rs))
  <2>1. ASSUME NEW c \in Pos
        PROVE  Count((X \o o) \o o, c) = Count(Held(R, th, rs), c)
    BY <1>3, <1>6, <1>10, <1>11, <1>12, <1>14
  <2> QED
    BY <2>1 DEF SameCount
<1>16. Balanced(g, Held(R, th, rs))
  BY <1>9, <1>14, <1>15, Rebalance
<1> HIDE DEF d
<1>17. DOMAIN d = {"heap", "thunks", "refs"} /\ d.heap = g /\ d.thunks = th /\ d.refs = rs
  BY <1>1
<1>18. Decoded(d, R)
  BY <1>11, <1>12, <1>13, <1>16, <1>17 DEF Decoded, IsState, IsThunks
<1> QED
  BY <1>4, <1>17, <1>18 DEF d, rs

LEMMA ThunkIs ==
  ASSUME NEW op, NEW f, NEW deps, NEW addr, NEW caps, NEW fresh,
         IsRefs(deps), IsRefs(addr), IsRefs(caps)
  PROVE  LET t == Thunk(op, f, deps, addr, caps, fresh)
         IN /\ IsThunk(t) /\ Holds(t) = (deps \o addr) \o caps
BY DEF Thunk, IsThunk, ThunkFields, Holds

\* A constant holds nothing.
LEMMA Constants ==
  ASSUME NEW s, NEW R, NEW v, Decoded(s, R)
  PROVE  /\ Decoded(constant(s, v), R)
         /\ \E k \in Pos : constant(s, v).refs = Append(s.refs, Ref(k))
<1> DEFINE t == Thunk("constant", "constant", <<>>, <<>>, <<>>, v)
           X == Held(R, s.thunks, s.refs)
<1>1. IsThunk(t) /\ Holds(t) = (<<>> \o <<>>) \o <<>>
  BY RefsEmpty, ThunkIs
<1>2. Holds(t) = <<>>
  BY <1>1
<1>3. IsState(s) /\ IsRefs(R) /\ Balanced(s.heap, X)
  BY DEF Decoded
<1> HIDE DEF X, t
<1>4. Balanced(s.heap, X \o Holds(t))
  <2>1. IsRefs(X)
    BY <1>3 DEF Balanced
  <2>2. IsRefs(X \o <<>>) /\ \A c \in Pos : Count(X \o <<>>, c) = Count(X, c) + Count(<<>>, c)
    BY <2>1, RefsEmpty, RefsConcat, CountSum
  <2>3. SameCount(X, X \o <<>>)
    <3>1. \A c \in Pos : Count(X, c) \in Nat /\ Count(<<>>, c) = 0
      BY <2>1, CountNat, CountEmpty
    <3> QED
      BY <2>2, <3>1 DEF SameCount
  <2>4. Balanced(s.heap, X \o <<>>)
    BY <1>3, <2>2, <2>3, Rebalance
  <2> QED
    BY <1>2, <2>4
<1>5. constant(s, v) = declare(s, t)
  BY DEF constant, t
<1> QED
  BY <1>1, <1>3, <1>4, <1>5, Declares DEF X

\* decode_operands decodes one operand after the other.
DecodeOp(fr, s, o) == decode_operand(s, fr, o)
DecodeFold == INSTANCE FoldProofs WITH Op <- DecodeOp

LEMMA DecodeSteps ==
  ASSUME NEW s, NEW fr, NEW operands, Len(operands) \in Nat
  PROVE  \E f : /\ f[0] = s /\ \A i \in 1..Len(operands) : f[i] = decode_operand(f[i - 1], fr, operands[i])
                /\ decode_operands(s, fr, operands) = f[Len(operands)]
<1> DEFINE f == CHOOSE g : DecodeFold!IsFold(g, fr, s, operands)
<1>1. DecodeFold!IsFold(f, fr, s, operands)
  BY DecodeFold!FoldSolution
<1>2. decode_operands(s, fr, operands) = f[Len(operands)]
  BY DEF decode_operands, Fold, DecodeFold!IsFold, DecodeOp
<1>3. f[0] = s /\ \A i \in 1..Len(operands) : f[i] = decode_operand(f[i - 1], fr, operands[i])
  <2> HIDE DEF f
  <2>1. f[0] = s /\ \A i \in 1..Len(operands) : f[i] = DecodeOp(fr, f[i - 1], operands[i])
    BY <1>1, DecodeFold!FoldValues
  <2> QED
    BY <2>1 DEF DecodeOp
<1> QED
  BY <1>2, <1>3

\* Constants are declared one after the other.
ConstantOp(e, s, v) == constant(s, v)
DeclareConstants(s, vs) == Fold(constant, s, vs)
ConstantFold == INSTANCE FoldProofs WITH Op <- ConstantOp

LEMMA ConstantSteps ==
  ASSUME NEW s, NEW vs, Len(vs) \in Nat
  PROVE  \E f : /\ f[0] = s /\ \A i \in 1..Len(vs) : f[i] = constant(f[i - 1], vs[i])
                /\ DeclareConstants(s, vs) = f[Len(vs)]
<1> DEFINE f == CHOOSE g : ConstantFold!IsFold(g, 0, s, vs)
<1>1. ConstantFold!IsFold(f, 0, s, vs)
  BY ConstantFold!FoldSolution
<1>2. DeclareConstants(s, vs) = f[Len(vs)]
  BY DEF DeclareConstants, Fold, ConstantFold!IsFold, ConstantOp
<1>3. f[0] = s /\ \A i \in 1..Len(vs) : f[i] = constant(f[i - 1], vs[i])
  <2> HIDE DEF f
  <2>1. f[0] = s /\ \A i \in 1..Len(vs) : f[i] = ConstantOp(0, f[i - 1], vs[i])
    BY <1>1, ConstantFold!FoldValues
  <2> QED
    BY <2>1 DEF ConstantOp
<1> QED
  BY <1>2, <1>3

IsOperand(o) == o.k \in {"const", "expr", "local"}

\* The references of the locals are among R.
HasTemps(temps, R) ==
  \A i \in DOMAIN temps : temps[i].cell \in Nat /\ (temps[i].cell # 0 => Count(R, temps[i].cell) >= 1)

\* d is s with one reference more.
Adds(d, s, h, x) ==
  /\ DOMAIN d = {"heap", "thunks", "refs"} /\ d.heap = h /\ d.thunks = s.thunks
  /\ d.refs = Append(s.refs, x)

LEMMA AddsRef ==
  ASSUME NEW s, NEW R, NEW d, NEW h, NEW x, Decoded(s, R), Adds(d, s, h, x), x.cell \in Nat,
         Balanced(h, Held(R, s.thunks, s.refs) \o <<x>>)
  PROVE  Decoded(d, R)
<1> DEFINE X == Held(R, s.thunks, s.refs)
           rs == Append(s.refs, x)
           o1 == <<x>>
<1>1. IsState(s) /\ IsRefs(R)
  BY DEF Decoded
<1>2. IsThunks(s.thunks) /\ IsPos(s.thunks) /\ IsRefs(s.refs)
  BY <1>1 DEF IsState, IsThunks
<1>3. IsRefs(rs) /\ \A c \in Pos : Count(rs, c) = Count(s.refs, c) + Once(x, c)
  BY <1>2, RefsAppend, CountAppend DEF IsRefs
<1>4. IsRefs(o1) /\ \A c \in Pos : Count(o1, c) = Once(x, c) /\ Once(x, c) \in Nat
  BY RefsOne, CountOne, OnceNat
<1> HIDE DEF rs, o1
<1>5. /\ IsRefs(X)
      /\ \A c \in Pos : /\ Count(X, c) = (Count(R, c) + Count(RefSeq(s.thunks), c)) + Count(s.refs, c)
                        /\ Count(R, c) \in Nat /\ Count(RefSeq(s.thunks), c) \in Nat
                        /\ Count(s.refs, c) \in Nat
  BY <1>1, <1>2, HeldCount
<1> HIDE DEF X
<1>6. \A c \in Pos : Count(X \o o1, c) = Count(X, c) + Count(o1, c)
  BY <1>4, <1>5, CountSum
<1>7. /\ IsRefs(Held(R, s.thunks, rs))
      /\ \A c \in Pos : Count(Held(R, s.thunks, rs), c)
                          = (Count(R, c) + Count(RefSeq(s.thunks), c)) + Count(rs, c)
  BY <1>1, <1>2, <1>3, HeldCount
<1>8. SameCount(X \o o1, Held(R, s.thunks, rs))
  <2>1. ASSUME NEW c \in Pos
        PROVE  Count(X \o o1, c) = Count(Held(R, s.thunks, rs), c)
    BY <1>3, <1>4, <1>5, <1>6, <1>7
  <2> QED
    BY <2>1 DEF SameCount
<1>9. Balanced(h, X \o o1)
  BY DEF o1, X
<1>10. Balanced(h, Held(R, s.thunks, rs))
  BY <1>7, <1>8, <1>9, Rebalance
<1> QED
  BY <1>1, <1>2, <1>3, <1>10 DEF Decoded, IsState, Adds, rs

LEMMA DecodesOne ==
  ASSUME NEW s, NEW R, NEW fr, NEW o, Decoded(s, R), HasTemps(fr.temps, R), IsOperand(o),
         HasLocal(fr, o)
  PROVE  /\ Decoded(decode_operand(s, fr, o), R)
         /\ \E x : x.cell \in Nat /\ decode_operand(s, fr, o).refs = Append(s.refs, x)
<1> DEFINE d == decode_operand(s, fr, o)
           X == Held(R, s.thunks, s.refs)
<1>1. IsState(s) /\ IsRefs(R) /\ Balanced(s.heap, X)
  BY DEF Decoded
<1>2. DOMAIN s = {"heap", "thunks", "refs"} /\ IsPos(s.thunks) /\ IsRefs(s.refs)
  BY <1>1 DEF IsState, IsThunks
<1>4. CASE o.k = "const"
  <2> DEFINE x == ConstantRef(o.v)
  <2>1. d = [s EXCEPT !.refs = Append(s.refs, x)]
    BY <1>4 DEF decode_operand
  <2>2. Adds(d, s, s.heap, x)
    BY <1>2, <2>1 DEF Adds
  <2>3. x.cell = 0
    BY DEF ConstantRef
  <2> HIDE DEF x
  <2>4. Balanced(s.heap, X \o <<x>>)
    <3> DEFINE o1 == <<x>>
    <3>1. IsRefs(o1) /\ \A c \in Pos : Count(o1, c) = 0
      <4>1. \A c \in Pos : Once(x, c) = 0
        BY <2>3 DEF Once, Pos
      <4> QED
        BY <2>3, <4>1, RefsOne, CountOne
    <3> HIDE DEF o1, X
    <3>2. IsRefs(X)
      BY <1>1 DEF Balanced
    <3>3. IsRefs(X \o o1) /\ \A c \in Pos : Count(X \o o1, c) = Count(X, c) + Count(o1, c) /\ Count(X, c) \in Nat
      BY <3>1, <3>2, RefsConcat, CountSum, CountNat
    <3>4. SameCount(X, X \o o1)
      BY <3>1, <3>3 DEF SameCount
    <3>5. Balanced(s.heap, X \o o1)
      BY <1>1, <3>3, <3>4, Rebalance
    <3> QED
      BY <3>5 DEF o1
  <2> HIDE DEF d, X
  <2>5. Decoded(d, R) /\ d.refs = Append(s.refs, x) /\ x.cell \in Nat
    BY <2>2, <2>3, <2>4, AddsRef DEF Adds, X
  <2> QED
    BY <2>5 DEF d
<1>5. CASE o.k = "expr"
  <2>1. d = constant(s, o.v)
    BY <1>5 DEF decode_operand
  <2>2. Decoded(d, R) /\ \E k \in Pos : d.refs = Append(s.refs, Ref(k))
    BY <2>1, Constants
  <2>3. \A k \in Pos : Ref(k).cell \in Nat
    BY DEF Ref, Pos
  <2> QED
    BY <2>2, <2>3
<1>6. CASE o.k = "local"
  <2> DEFINE x == fr.temps[o.i]
             h == clone(s.heap, x)
  <2>1. Adds(d, s, h, x)
    <3>1. d = [s EXCEPT !.heap = clone(@, fr.temps[o.i]), !.refs = Append(@, fr.temps[o.i])]
      BY <1>6 DEF decode_operand
    <3> QED
      BY <1>2, <3>1 DEF Adds
  <2>2. x.cell \in Nat /\ (x.cell # 0 => Count(R, x.cell) >= 1)
    BY <1>6 DEF HasLocal, HasTemps
  <2> HIDE DEF x, d
  <2>3. x.cell # 0 => Count(X, x.cell) >= 1
    <3>1. \A c \in Pos : /\ Count(X, c) = (Count(R, c) + Count(RefSeq(s.thunks), c)) + Count(s.refs, c)
                         /\ Count(R, c) \in Nat /\ Count(RefSeq(s.thunks), c) \in Nat
                         /\ Count(s.refs, c) \in Nat
      BY <1>1, <1>2, HeldCount
    <3>2. x.cell # 0 => x.cell \in Pos
      BY <2>2 DEF Pos
    <3> HIDE DEF X
    <3> QED
      BY <2>2, <3>1, <3>2
  <2> HIDE DEF X
  <2>4. Balanced(h, X \o <<x>>)
    BY <1>1, <2>2, <2>3, BalancedClone
  <2>5. Decoded(d, R) /\ d.refs = Append(s.refs, x)
    BY <2>1, <2>2, <2>4, AddsRef DEF Adds, X
  <2> QED
    BY <2>2, <2>5 DEF d
<1> QED
  BY <1>4, <1>5, <1>6 DEF IsOperand

IsOperands(fr, operands) ==
  IsSeq(operands) /\ \A i \in 1..Len(operands) : IsOperand(operands[i]) /\ HasLocal(fr, operands[i])

\* Every operand gives one reference.
LocalsIn(fr, R) == HasTemps(fr.temps, R)
Extends(d, s, new) == Len(d.refs) = Len(s.refs) + Len(new)

LEMMA Decodes ==
  ASSUME NEW s, NEW R, NEW fr, NEW operands, Decoded(s, R), LocalsIn(fr, R), IsOperands(fr, operands)
  PROVE  /\ Decoded(decode_operands(s, fr, operands), R)
         /\ Extends(decode_operands(s, fr, operands), s, operands)
<1> DEFINE n == Len(operands)
<1>1. n \in Nat
  BY SeqFacts DEF IsOperands
<1>2. PICK f : /\ f[0] = s /\ \A i \in 1..n : f[i] = decode_operand(f[i - 1], fr, operands[i])
               /\ decode_operands(s, fr, operands) = f[n]
  BY <1>1, DecodeSteps
<1>3. \A i \in 1..n : IsOperand(operands[i]) /\ HasLocal(fr, operands[i])
  BY DEF IsOperands
<1> HIDE DEF n
<1> DEFINE T == {i \in 0..n : Decoded(f[i], R) /\ Len(f[i].refs) = Len(s.refs) + i}
<1>7. IsSeq(s.refs) /\ Len(s.refs) \in Nat
  BY SeqFacts DEF Decoded, IsState, IsRefs
<1>4. 0 \in T
  BY <1>1, <1>2, <1>7
<1>5. ASSUME NEW i \in 1..n, i - 1 \in T
      PROVE  i \in T
  <2> DEFINE p == f[i - 1]
             q == f[i]
             o == operands[i]
  <2>1. Decoded(p, R) /\ Len(p.refs) = Len(s.refs) + (i - 1) /\ q = decode_operand(p, fr, o)
    BY <1>2, <1>5
  <2>2. IsOperand(o) /\ HasLocal(fr, o) /\ i \in 0..n
    BY <1>1, <1>3
  <2> HIDE DEF p, q, o
  <2>3. Decoded(q, R) /\ \E x : x.cell \in Nat /\ q.refs = Append(p.refs, x)
    BY <2>1, <2>2, DecodesOne DEF LocalsIn
  <2>4. IsSeq(p.refs)
    BY <2>1 DEF Decoded, IsState, IsRefs
  <2>5. Len(q.refs) = Len(p.refs) + 1
    BY <2>3, <2>4, AppendSeq
  <2>6. Len(q.refs) = Len(s.refs) + i
    BY <1>7, <2>1, <2>2, <2>5
  <2> QED
    BY <2>2, <2>3, <2>6 DEF q
<1>6. n \in T
  <2> HIDE DEF T
  <2>1. \A i \in 0..n : i \in T
    BY <1>1, <1>4, <1>5, UpTo
  <2> QED
    BY <1>1, <2>1
<1> QED
  BY <1>2, <1>6 DEF n, Extends

LEMMA DeclaresConstants ==
  ASSUME NEW s, NEW R, NEW vs, Decoded(s, R), IsSeq(vs)
  PROVE  /\ Decoded(DeclareConstants(s, vs), R)
         /\ Extends(DeclareConstants(s, vs), s, vs)
<1> DEFINE n == Len(vs)
<1>1. n \in Nat
  BY SeqFacts
<1>2. PICK f : /\ f[0] = s /\ \A i \in 1..n : f[i] = constant(f[i - 1], vs[i])
               /\ DeclareConstants(s, vs) = f[n]
  BY <1>1, ConstantSteps
<1> HIDE DEF n
<1> DEFINE T == {i \in 0..n : Decoded(f[i], R) /\ Len(f[i].refs) = Len(s.refs) + i}
<1>7. IsSeq(s.refs) /\ Len(s.refs) \in Nat
  BY SeqFacts DEF Decoded, IsState, IsRefs
<1>4. 0 \in T
  BY <1>1, <1>2, <1>7
<1>5. ASSUME NEW i \in 1..n, i - 1 \in T
      PROVE  i \in T
  <2> DEFINE p == f[i - 1]
             q == f[i]
  <2>1. Decoded(p, R) /\ Len(p.refs) = Len(s.refs) + (i - 1) /\ q = constant(p, vs[i])
    BY <1>2, <1>5
  <2>2. i \in 0..n
    BY <1>1
  <2> HIDE DEF p, q
  <2>3. Decoded(q, R) /\ \E k \in Pos : q.refs = Append(p.refs, Ref(k))
    BY <2>1, Constants
  <2>4. IsSeq(p.refs)
    BY <2>1 DEF Decoded, IsState, IsRefs
  <2>5. Len(q.refs) = Len(p.refs) + 1
    BY <2>3, <2>4, AppendSeq
  <2>6. Len(q.refs) = Len(s.refs) + i
    BY <1>7, <2>1, <2>2, <2>5
  <2> QED
    BY <2>2, <2>3, <2>6 DEF q
<1>6. n \in T
  <2> HIDE DEF T
  <2>1. \A i \in 0..n : i \in T
    BY <1>1, <1>4, <1>5, UpTo
  <2> QED
    BY <1>1, <2>1
<1> QED
  BY <1>2, <1>6 DEF n, Extends

-----------------------------------------------------------------------------
(* The locals of a frame: n numbers from 0                                 *)

Nums(n) == [i \in 1..n |-> i - 1]
Locals(temps, n) == Temps(temps, Nums(n))

IsTemps(temps, n) == DOMAIN temps \subseteq 0..(n - 1) /\ \A i \in DOMAIN temps : temps[i].cell \in Nat

OldCount(temps, i, c) == IF i \in DOMAIN temps THEN Once(temps[i], c) ELSE 0
TempTerms(temps, n, c) == [i \in 1..n |-> OldCount(temps, i - 1, c)]

LEMMA OldRefs ==
  ASSUME NEW temps, NEW n, NEW i, IsTemps(temps, n)
  PROVE  IsRefs(Old(temps, i)) /\ \A c \in Pos : Count(Old(temps, i), c) = OldCount(temps, i, c)
<1>1. CASE i \in DOMAIN temps
  <2>1. Old(temps, i) = <<temps[i]>> /\ temps[i].cell \in Nat
    BY <1>1 DEF Old, IsTemps
  <2>2. \A c \in Pos : OldCount(temps, i, c) = Once(temps[i], c)
    BY <1>1 DEF OldCount
  <2> QED
    BY <2>1, <2>2, RefsOne, CountOne
<1>2. CASE i \notin DOMAIN temps
  <2>1. Old(temps, i) = <<>>
    BY <1>2 DEF Old
  <2>2. \A c \in Pos : OldCount(temps, i, c) = 0
    BY <1>2 DEF OldCount
  <2> QED
    BY <2>1, <2>2, RefsEmpty, CountEmpty
<1> QED
  BY <1>1, <1>2

\* The references in the locals are a sum over the numbers.
LEMMA TempSum ==
  ASSUME NEW temps, NEW n \in Nat, NEW c \in Pos, IsTemps(temps, n)
  PROVE  /\ IsRefs(Locals(temps, n)) /\ IsNats(TempTerms(temps, n, c), n)
         /\ \E f : IsSum(f, TempTerms(temps, n, c), n) /\ Count(Locals(temps, n), c) = f[n]
<1> DEFINE nums == Nums(n)
<1>1. Len(nums) = n /\ \A i \in 1..n : nums[i] = i - 1
  <2>1. nums = [i \in 1..n |-> nums[i]] /\ \A i \in 1..n : nums[i] = i - 1
    BY DEF Nums
  <2> QED
    BY <2>1, FunSeq
<1>2. PICK r : /\ r[0] = <<>> /\ \A i \in 1..Len(nums) : r[i] = r[i - 1] \o Old(temps, nums[i])
               /\ Temps(temps, nums) = r[Len(nums)]
  <2> HIDE DEF nums
  <2> QED
    BY <1>1, TempSteps
<1> HIDE DEF nums
<1>3. /\ r[0] = <<>> /\ Locals(temps, n) = r[n]
      /\ \A i \in 1..n : r[i] = r[i - 1] \o Old(temps, i - 1)
  BY <1>1, <1>2 DEF Locals, nums
<1>4. \A i \in 1..n : IsRefs(Old(temps, i - 1)) /\ Count(Old(temps, i - 1), c) = OldCount(temps, i - 1, c)
  BY OldRefs
<1> DEFINE T == {i \in 0..n : IsRefs(r[i])}
<1>5. 0 \in T
  BY <1>3, RefsEmpty
<1>6. ASSUME NEW i \in 1..n, i - 1 \in T
      PROVE  i \in T
  <2>1. IsRefs(r[i - 1]) /\ r[i] = r[i - 1] \o Old(temps, i - 1)
    BY <1>3, <1>6
  <2>2. IsRefs(r[i])
    BY <1>4, <2>1, RefsConcat
  <2> QED
    BY <2>2
<1>7. \A i \in 0..n : IsRefs(r[i])
  <2>1. \A i \in 0..n : i \in T
    <3> HIDE DEF T
    <3> QED
      BY <1>5, <1>6, UpTo
  <2> QED
    BY <2>1
<1> DEFINE f == [i \in 0..n |-> Count(r[i], c)]
<1>8. f[0] = 0
  BY <1>3, CountEmpty
<1>9. ASSUME NEW i \in 1..n
      PROVE  f[i] = f[i - 1] + OldCount(temps, i - 1, c)
  <2>1. i \in 0..n /\ i - 1 \in 0..n
    OBVIOUS
  <2>2. r[i] = r[i - 1] \o Old(temps, i - 1)
    BY <1>3
  <2>3. Count(r[i - 1] \o Old(temps, i - 1), c) = Count(r[i - 1], c) + Count(Old(temps, i - 1), c)
    BY <1>4, <1>7, <2>1, CountSum
  <2>4. Count(Old(temps, i - 1), c) = OldCount(temps, i - 1, c)
    BY <1>4
  <2> QED
    BY <2>1, <2>2, <2>3, <2>4
<1>10. n \in 0..n /\ f[n] = Count(Locals(temps, n), c)
  BY <1>3
<1>11. IsSum(f, TempTerms(temps, n, c), n)
  BY <1>8, <1>9 DEF IsSum, TempTerms
<1>12. IsNats(TempTerms(temps, n, c), n)
  BY OnceNat DEF IsNats, TempTerms, OldCount
<1>13. IsRefs(Locals(temps, n))
  BY <1>3, <1>7, <1>10
<1> HIDE DEF f
<1> QED
  BY <1>10, <1>11, <1>12, <1>13

\* The references of the locals, whatever c.
LEMMA LocalsRefs ==
  ASSUME NEW temps, NEW n \in Nat, IsTemps(temps, n)
  PROVE  /\ IsRefs(Locals(temps, n)) /\ \A c \in Pos : Count(Locals(temps, n), c) \in Nat
<1>1. 1 \in Pos
  BY DEF Pos
<1> QED
  BY <1>1, TempSum, CountNat

LEMMA TempsPart ==
  ASSUME NEW temps, NEW n \in Nat, IsTemps(temps, n), NEW i \in DOMAIN temps, temps[i].cell # 0
  PROVE  Count(Locals(temps, n), temps[i].cell) >= 1
<1> DEFINE c == temps[i].cell
           a == TempTerms(temps, n, c)
<1>1. c \in Pos /\ i \in 0..(n - 1)
  BY DEF IsTemps, Pos
<1>2. i + 1 \in 1..n /\ (i + 1) - 1 = i
  BY <1>1
<1>3. a[i + 1] = 1
  BY <1>2 DEF TempTerms, OldCount, Once
<1> HIDE DEF c, a
<1>4. PICK f : IsSum(f, a, n) /\ Count(Locals(temps, n), c) = f[n]
  BY <1>1, TempSum DEF a
<1>5. IsNats(a, n)
  BY <1>1, TempSum DEF a
<1>6. f[n] \in Nat /\ a[i + 1] <= f[n]
  BY <1>2, <1>4, <1>5, SumTerm
<1> QED
  BY <1>3, <1>4, <1>6 DEF c

\* A frame that has no locals yet.
LEMMA TempsEmpty ==
  ASSUME NEW temps, NEW n \in Nat, DOMAIN temps = {}
  PROVE  IsTemps(temps, n) /\ \A c \in Pos : Count(Locals(temps, n), c) = 0
<1>1. IsTemps(temps, n)
  BY DEF IsTemps
<1>2. ASSUME NEW c \in Pos
      PROVE  Count(Locals(temps, n), c) = 0
  <2> DEFINE a == TempTerms(temps, n, c)
             z == [i \in 0..n |-> 0]
  <2>1. PICK f : IsSum(f, a, n) /\ Count(Locals(temps, n), c) = f[n]
    BY <1>1, TempSum
  <2>2. \A i \in 1..n : a[i] = 0
    BY DEF TempTerms, OldCount
  <2> HIDE DEF a
  <2>3. IsSum(z, a, n) /\ z[n] = 0
    BY <2>2 DEF IsSum
  <2> HIDE DEF z
  <2> QED
    BY <2>1, <2>3, SumSame
<1> QED
  BY <1>1, <1>2

\* A local gets a reference and loses the old one.
WithLocal(temps, dest, ref) == [i \in DOMAIN temps \cup {dest} |-> IF i = dest THEN ref ELSE temps[i]]

LEMMA TempsAssign ==
  ASSUME NEW temps, NEW n \in Nat, NEW dest \in 0..(n - 1), NEW ref, ref.cell \in Nat, IsTemps(temps, n)
  PROVE  LET new == WithLocal(temps, dest, ref)
         IN /\ IsTemps(new, n)
            /\ \A c \in Pos : Count(Locals(new, n), c)
                                = (Count(Locals(temps, n), c) - OldCount(temps, dest, c)) + Once(ref, c)
<1> DEFINE new == WithLocal(temps, dest, ref)
<1>1. /\ DOMAIN new = DOMAIN temps \cup {dest} /\ new[dest] = ref
      /\ \A i \in DOMAIN temps : i # dest => new[i] = temps[i]
  BY DEF WithLocal
<1> HIDE DEF new
<1>2. IsTemps(new, n)
  BY <1>1 DEF IsTemps
<1>3. ASSUME NEW c \in Pos
      PROVE  Count(Locals(new, n), c) = (Count(Locals(temps, n), c) - OldCount(temps, dest, c)) + Once(ref, c)
  <2> DEFINE a == TempTerms(temps, n, c)
             b == TempTerms(new, n, c)
             k == dest + 1
  <2>1. k \in 1..n /\ k - 1 = dest
    OBVIOUS
  <2>2. a[k] = OldCount(temps, dest, c) /\ b[k] = Once(ref, c)
    BY <1>1, <2>1 DEF TempTerms, OldCount
  <2>3. SameBut(a, b, n, k)
    <3>1. ASSUME NEW i \in 1..n, i # k
          PROVE  a[i] = b[i]
      <4>1. i - 1 # dest
        BY <3>1
      <4>2. OldCount(temps, i - 1, c) = OldCount(new, i - 1, c)
        BY <1>1, <4>1 DEF OldCount
      <4> QED
        BY <4>2 DEF TempTerms
    <3> QED
      BY <3>1 DEF SameBut
  <2> HIDE DEF a, b, k
  <2>4. PICK f : IsSum(f, a, n) /\ Count(Locals(temps, n), c) = f[n]
    BY TempSum DEF a
  <2>5. PICK g : IsSum(g, b, n) /\ Count(Locals(new, n), c) = g[n]
    BY <1>2, TempSum DEF b
  <2>6. IsNats(a, n) /\ IsNats(b, n)
    BY <1>2, TempSum DEF a, b
  <2>7. g[n] = (f[n] - a[k]) + b[k]
    BY <2>1, <2>3, <2>4, <2>5, <2>6, SumChange
  <2> QED
    BY <2>2, <2>4, <2>5, <2>7
<1> QED
  BY <1>2, <1>3 DEF new

\* assign drops what the local held, or the result when it has no local.
LEMMA Assigns ==
  ASSUME NEW h, NEW R, NEW temps, NEW n \in Nat, NEW dest \in 0..(n - 1) \cup {NoLocal}, NEW ref,
         ref.cell \in Nat, IsTemps(temps, n), IsRefs(R),
         Balanced(h, (R \o Locals(temps, n)) \o <<ref>>)
  PROVE  LET a == assigned(h, temps, dest, ref)
         IN IsTemps(a.temps, n) /\ Balanced(a.heap, R \o Locals(a.temps, n))
<1> DEFINE a == assigned(h, temps, dest, ref)
           L == Locals(temps, n)
           o == <<ref>>
<1>1. IsRefs(L) /\ \A c \in Pos : Count(L, c) \in Nat
  BY LocalsRefs
<1>2. IsRefs(o) /\ \A c \in Pos : Count(o, c) = Once(ref, c) /\ Once(ref, c) \in Nat
  BY RefsOne, CountOne, OnceNat
<1> HIDE DEF L
<1>3. IsRefs(R \o L) /\ \A c \in Pos : Count(R \o L, c) = Count(R, c) + Count(L, c)
  BY <1>1, RefsConcat, CountSum
<1>8. Balanced(h, (R \o L) \o o)
  BY DEF L
<1>4. CASE dest = NoLocal
  <2>1. a = [heap |-> drop(h, ref), temps |-> temps]
    BY <1>4 DEF assigned
  <2>2. Balanced(drop(h, ref), R \o L)
    BY <1>3, <1>8, BalancedDrop
  <2> QED
    BY <2>1, <2>2 DEF L
<1>5. CASE dest # NoLocal
  <2> DEFINE new == WithLocal(temps, dest, ref)
             old == Old(temps, dest)
             N == Locals(new, n)
  <2>1. a = [heap |-> drop_all(h, old), temps |-> new]
    BY <1>5 DEF assigned, WithLocal
  <2>2. dest \in 0..(n - 1)
    BY <1>5
  <2>3. /\ IsTemps(new, n)
        /\ \A c \in Pos : Count(N, c) = (Count(L, c) - OldCount(temps, dest, c)) + Once(ref, c)
    BY <2>2, TempsAssign DEF L
  <2>4. IsRefs(old) /\ \A c \in Pos : Count(old, c) = OldCount(temps, dest, c) /\ Count(old, c) \in Nat
    BY OldRefs, CountNat
  <2>5. IsRefs(N)
    BY <2>3, LocalsRefs
  <2> HIDE DEF a, new, old, N, o
  <2>6. IsRefs(R \o N) /\ \A c \in Pos : Count(R \o N, c) = Count(R, c) + Count(N, c) /\ Count(R, c) \in Nat
    BY <2>5, RefsConcat, CountSum, CountNat
  <2>7. IsRefs((R \o N) \o old) /\ \A c \in Pos : Count((R \o N) \o old, c) = Count(R \o N, c) + Count(old, c)
    <3> DEFINE Y == R \o N
    <3>1. IsRefs(Y)
      BY <2>6
    <3> HIDE DEF Y
    <3>2. IsRefs(Y \o old) /\ \A c \in Pos : Count(Y \o old, c) = Count(Y, c) + Count(old, c)
      BY <2>4, <3>1, RefsConcat, CountSum
    <3> QED
      BY <3>2 DEF Y
  <2>8. \A c \in Pos : Count((R \o L) \o o, c) = Count(R \o L, c) + Count(o, c)
    <3> DEFINE Y == R \o L
    <3>1. IsRefs(Y)
      BY <1>3
    <3> HIDE DEF Y
    <3>2. \A c \in Pos : Count(Y \o o, c) = Count(Y, c) + Count(o, c)
      BY <1>2, <3>1, CountSum
    <3> QED
      BY <3>2 DEF Y
  <2>9. SameCount((R \o L) \o o, (R \o N) \o old)
    <3>1. ASSUME NEW c \in Pos
          PROVE  Count((R \o L) \o o, c) = Count((R \o N) \o old, c)
      BY <1>1, <1>2, <1>3, <2>3, <2>4, <2>6, <2>7, <2>8
    <3> QED
      BY <3>1 DEF SameCount
  <2>10. Balanced(h, (R \o N) \o old)
    BY <1>8, <2>7, <2>9, Rebalance
  <2>11. Balanced(drop_all(h, old), R \o N)
    BY <2>4, <2>6, <2>10, BalancedDropAll
  <2>12. a.temps = new /\ a.heap = drop_all(h, old)
    BY <2>1
  <2> QED
    BY <2>3, <2>11, <2>12 DEF a, N
<1> QED
  BY <1>4, <1>5

\* A new frame has the arguments, by their numbers.
NewTemps(nums, args) == [i \in ToSet(nums) |-> args[CHOOSE k \in DOMAIN args : nums[k] = i]]

AreNums(nums, n) == IsSeq(nums) /\ Distinct(nums) /\ \A k \in 1..Len(nums) : nums[k] \in 0..(n - 1)

LEMMA NewLocals ==
  ASSUME NEW nums, NEW args, NEW n \in Nat, AreNums(nums, n), IsRefs(args), Len(args) = Len(nums)
  PROVE  /\ IsTemps(NewTemps(nums, args), n)
         /\ \A c \in Pos : Count(Locals(NewTemps(nums, args), n), c) = Count(args, c)
<1> DEFINE m == Len(nums)
           V(i) == args[CHOOSE k \in DOMAIN args : nums[k] = i]
           W(j) == [i \in {nums[k] : k \in 1..j} |-> V(i)]
<1>1. /\ m \in Nat /\ DOMAIN nums = 1..m /\ DOMAIN args = 1..m
      /\ \A k \in 1..m : nums[k] \in 0..(n - 1) /\ args[k].cell \in Nat
      /\ \A j, k \in 1..m : nums[j] = nums[k] => j = k
  BY SeqFacts DEF AreNums, IsRefs, Distinct
<1> HIDE DEF m
<1>2. ASSUME NEW j \in 1..m
      PROVE  V(nums[j]) = args[j]
  <2>1. (CHOOSE k \in DOMAIN args : nums[k] = nums[j]) = j
    BY <1>1
  <2> QED
    BY <2>1
<1>3. NewTemps(nums, args) = W(m)
  <2>1. ToSet(nums) = {nums[k] : k \in 1..m}
    BY <1>1 DEF ToSet
  <2> QED
    BY <2>1 DEF NewTemps
<1> HIDE DEF V
<1> DEFINE T == {j \in 0..m : /\ IsTemps(W(j), n)
                              /\ \A c \in Pos : Count(Locals(W(j), n), c) = Count(Prefix(args, j), c)}
<1>4. 0 \in T
  <2>1. DOMAIN W(0) = {}
    OBVIOUS
  <2> HIDE DEF W
  <2>2. IsTemps(W(0), n) /\ \A c \in Pos : Count(Locals(W(0), n), c) = 0
    BY <2>1, TempsEmpty
  <2>3. \A c \in Pos : Count(Prefix(args, 0), c) = 0
    BY PrefixCount
  <2> QED
    BY <1>1, <2>2, <2>3
<1>5. ASSUME NEW j \in 1..m, j - 1 \in T
      PROVE  j \in T
  <2> DEFINE d == nums[j]
             x == args[j]
             w == W(j - 1)
  <2>1. d \in 0..(n - 1) /\ x.cell \in Nat /\ j \in 0..m /\ j - 1 \in 0..m
    BY <1>1
  <2>2. d \notin DOMAIN w
    <3>1. \A k \in 1..j - 1 : k \in 1..m /\ k # j
      BY <1>1
    <3> QED
      BY <1>1, <3>1
  <2>3. W(j) = WithLocal(w, d, x)
    <3>1. {nums[k] : k \in 1..j} = {nums[k] : k \in 1..j - 1} \cup {d}
      <4>1. 1..j = (1..j - 1) \cup {j}
        BY <1>1
      <4> QED
        BY <4>1
    <3>2. V(d) = x
      BY <1>2
    <3>3. DOMAIN W(j) = DOMAIN w \cup {d}
      BY <3>1
    <3>4. \A i \in DOMAIN w : w[i] = V(i) /\ i # d
      BY <2>2
    <3>5. \A i \in DOMAIN W(j) : W(j)[i] = V(i)
      OBVIOUS
    <3>6. W(j) = [i \in DOMAIN W(j) |-> W(j)[i]]
      OBVIOUS
    <3> HIDE DEF W, d, x, w
    <3> QED
      BY <3>2, <3>3, <3>4, <3>5, <3>6 DEF WithLocal
  <2>4. IsTemps(w, n) /\ \A c \in Pos : Count(Locals(w, n), c) = Count(Prefix(args, j - 1), c)
    BY <1>5
  <2>5. \A c \in Pos : OldCount(w, d, c) = 0
    BY <2>2 DEF OldCount
  <2>6. \A c \in Pos : /\ Count(Prefix(args, j), c) = Count(Prefix(args, j - 1), c) + Once(x, c)
                       /\ Count(Prefix(args, j - 1), c) \in Nat /\ Once(x, c) \in {0, 1}
    <3>1. j \in 1..Len(args) /\ j - 1 \in 0..Len(args)
      BY <2>1 DEF m
    <3>2. \A c \in Pos : Count(Prefix(args, j), c) = Count(Prefix(args, j - 1), c) + Once(args[j], c)
      BY <3>1, PrefixCount
    <3>3. \A c \in Pos : Count(Prefix(args, j - 1), c) \in Nat
      BY <3>1, PrefixCount
    <3> QED
      BY <3>2, <3>3, OnceNat
  <2> HIDE DEF w, W, d, x
  <2>7. /\ IsTemps(WithLocal(w, d, x), n)
        /\ \A c \in Pos : Count(Locals(WithLocal(w, d, x), n), c)
                            = (Count(Locals(w, n), c) - OldCount(w, d, c)) + Once(x, c)
    BY <2>1, <2>4, TempsAssign
  <2>8. \A c \in Pos : Count(Locals(W(j), n), c) = Count(Prefix(args, j), c)
    BY <2>3, <2>4, <2>5, <2>6, <2>7
  <2> QED
    BY <2>1, <2>3, <2>7, <2>8
<1>6. m \in T
  <2> HIDE DEF T
  <2>1. \A i \in 0..m : i \in T
    BY <1>1, <1>4, <1>5, UpTo
  <2> QED
    BY <1>1, <2>1
<1>7. \A c \in Pos : Count(Prefix(args, m), c) = Count(args, c)
  BY PrefixCount DEF m
<1> HIDE DEF W
<1> QED
  BY <1>3, <1>6, <1>7

-----------------------------------------------------------------------------
(* Frames and the stack                                                    *)

TempsOf(cd, fr) == Temps(fr.temps, [i \in DOMAIN cd[fr.fun].locals |-> i - 1])

\* The references in the frames, frame after frame.
StackOp(cd, acc, fr) == acc \o TempsOf(cd, fr) \o fr.fn \o fr.args \o fr.extra \o fr.out
StackRefs(cd, st) ==
  Fold(LAMBDA acc, fr : acc \o TempsOf(cd, fr) \o fr.fn \o fr.args \o fr.extra \o fr.out, <<>>, st)
StackFold == INSTANCE FoldProofs WITH Op <- StackOp

LEMMA StackSteps ==
  ASSUME NEW cd, NEW st, Len(st) \in Nat
  PROVE  \E f : /\ f[0] = <<>> /\ \A i \in 1..Len(st) : f[i] = f[i - 1] \o TempsOf(cd, st[i]) \o st[i].fn \o st[i].args \o st[i].extra \o st[i].out
                /\ StackRefs(cd, st) = f[Len(st)]
<1> DEFINE f == CHOOSE g : StackFold!IsFold(g, cd, <<>>, st)
<1>1. StackFold!IsFold(f, cd, <<>>, st)
  BY StackFold!FoldSolution
<1>2. StackRefs(cd, st) = f[Len(st)]
  BY DEF StackRefs, Fold, StackFold!IsFold, StackOp
<1>3. f[0] = <<>> /\ \A i \in 1..Len(st) : f[i] = f[i - 1] \o TempsOf(cd, st[i]) \o st[i].fn \o st[i].args \o st[i].extra \o st[i].out
  <2> HIDE DEF f
  <2>1. f[0] = <<>> /\ \A i \in 1..Len(st) : f[i] = StackOp(cd, f[i - 1], st[i])
    BY <1>1, StackFold!FoldValues
  <2> QED
    BY <2>1 DEF StackOp
<1> QED
  BY <1>2, <1>3

\* How many locals a frame may have.
Size(cd, fr) == Len(cd[fr.fun].locals)

HasRefs(cd, fr) ==
  /\ IsSeq(cd[fr.fun].locals) /\ IsTemps(fr.temps, Size(cd, fr))
  /\ IsRefs(fr.fn) /\ IsRefs(fr.args) /\ IsRefs(fr.extra) /\ IsRefs(fr.out)

FrameCount(cd, fr, c) ==
  (((Count(Locals(fr.temps, Size(cd, fr)), c) + Count(fr.fn, c)) + Count(fr.args, c)) + Count(fr.extra, c))
    + Count(fr.out, c)

LEMMA FrameNat ==
  ASSUME NEW cd, NEW fr, HasRefs(cd, fr)
  PROVE  /\ TempsOf(cd, fr) = Locals(fr.temps, Size(cd, fr)) /\ Size(cd, fr) \in Nat
         /\ IsRefs(Locals(fr.temps, Size(cd, fr)))
         /\ \A c \in Pos : /\ Count(Locals(fr.temps, Size(cd, fr)), c) \in Nat
                           /\ Count(fr.fn, c) \in Nat /\ Count(fr.args, c) \in Nat
                           /\ Count(fr.extra, c) \in Nat /\ Count(fr.out, c) \in Nat
                           /\ FrameCount(cd, fr, c) \in Nat
<1> DEFINE n == Size(cd, fr)
<1>1. n \in Nat /\ DOMAIN cd[fr.fun].locals = 1..n
  BY SeqFacts DEF HasRefs, Size
<1>2. TempsOf(cd, fr) = Locals(fr.temps, n)
  BY <1>1 DEF TempsOf, Locals, Nums
<1>3. IsRefs(Locals(fr.temps, n)) /\ \A c \in Pos : Count(Locals(fr.temps, n), c) \in Nat
  BY <1>1, LocalsRefs DEF HasRefs
<1>4. \A c \in Pos : /\ Count(fr.fn, c) \in Nat /\ Count(fr.args, c) \in Nat
                     /\ Count(fr.extra, c) \in Nat /\ Count(fr.out, c) \in Nat
  BY CountNat DEF HasRefs
<1>5. \A c \in Pos : FrameCount(cd, fr, c) \in Nat
  BY <1>3, <1>4 DEF FrameCount
<1> QED
  BY <1>1, <1>2, <1>3, <1>4, <1>5

HaveRefs(cd, st) == IsSeq(st) /\ \A k \in 1..Len(st) : HasRefs(cd, st[k])
FrameTerms(cd, st, c) == [i \in 1..Len(st) |-> FrameCount(cd, st[i], c)]

\* Five sequences appended to another.
LEMMA FiveMore ==
  ASSUME NEW r, NEW t, NEW u, NEW v, NEW w, NEW x,
         IsRefs(r), IsRefs(t), IsRefs(u), IsRefs(v), IsRefs(w), IsRefs(x)
  PROVE  /\ IsRefs(r \o t \o u \o v \o w \o x)
         /\ \A c \in Pos : Count(r \o t \o u \o v \o w \o x, c)
              = Count(r, c) + ((((Count(t, c) + Count(u, c)) + Count(v, c)) + Count(w, c)) + Count(x, c))
<1> DEFINE a == r \o t
           b == a \o u
           d == b \o v
           e == d \o w
           g == e \o x
<1>1. IsRefs(a) /\ \A c \in Pos : Count(a, c) = Count(r, c) + Count(t, c)
  BY RefsConcat, CountSum
<1> HIDE DEF a
<1>2. IsRefs(b) /\ \A c \in Pos : Count(b, c) = Count(a, c) + Count(u, c)
  BY <1>1, RefsConcat, CountSum
<1> HIDE DEF b
<1>3. IsRefs(d) /\ \A c \in Pos : Count(d, c) = Count(b, c) + Count(v, c)
  BY <1>2, RefsConcat, CountSum
<1> HIDE DEF d
<1>4. IsRefs(e) /\ \A c \in Pos : Count(e, c) = Count(d, c) + Count(w, c)
  BY <1>3, RefsConcat, CountSum
<1> HIDE DEF e
<1>5. IsRefs(g) /\ \A c \in Pos : Count(g, c) = Count(e, c) + Count(x, c)
  BY <1>4, RefsConcat, CountSum
<1> HIDE DEF g
<1>6. \A c \in Pos : /\ Count(r, c) \in Nat /\ Count(t, c) \in Nat /\ Count(u, c) \in Nat
                     /\ Count(v, c) \in Nat /\ Count(w, c) \in Nat /\ Count(x, c) \in Nat
  BY CountNat
<1>7. \A c \in Pos : Count(g, c) = Count(r, c)
         + ((((Count(t, c) + Count(u, c)) + Count(v, c)) + Count(w, c)) + Count(x, c))
  BY <1>1, <1>2, <1>3, <1>4, <1>5, <1>6
<1> QED
  BY <1>5, <1>7 DEF a, b, d, e, g

\* The references in the frames are a sum over the frames.
LEMMA StackSum ==
  ASSUME NEW cd, NEW st, NEW c \in Pos, HaveRefs(cd, st)
  PROVE  /\ IsRefs(StackRefs(cd, st)) /\ IsNats(FrameTerms(cd, st, c), Len(st))
         /\ \E f : IsSum(f, FrameTerms(cd, st, c), Len(st)) /\ Count(StackRefs(cd, st), c) = f[Len(st)]
<1> DEFINE n == Len(st)
           t(i) == TempsOf(cd, st[i])
<1>1. n \in Nat /\ \A i \in 1..n : HasRefs(cd, st[i])
  BY SeqFacts DEF HaveRefs
<1>2. PICK r : /\ r[0] = <<>>
               /\ \A i \in 1..n : r[i] = r[i - 1] \o t(i) \o st[i].fn \o st[i].args \o st[i].extra \o st[i].out
               /\ StackRefs(cd, st) = r[n]
  BY <1>1, StackSteps
<1> HIDE DEF n
<1>3. ASSUME NEW i \in 1..n
      PROVE  /\ IsRefs(t(i)) /\ IsRefs(st[i].fn) /\ IsRefs(st[i].args) /\ IsRefs(st[i].extra)
             /\ IsRefs(st[i].out)
             /\ FrameCount(cd, st[i], c) = (((Count(t(i), c) + Count(st[i].fn, c)) + Count(st[i].args, c))
                                             + Count(st[i].extra, c)) + Count(st[i].out, c)
  <2>1. HasRefs(cd, st[i])
    BY <1>1
  <2>2. t(i) = Locals(st[i].temps, Size(cd, st[i])) /\ IsRefs(t(i))
    BY <2>1, FrameNat
  <2> QED
    BY <2>1, <2>2 DEF HasRefs, FrameCount
<1> HIDE DEF t
<1> DEFINE T == {i \in 0..n : IsRefs(r[i])}
<1>4. 0 \in T
  BY <1>1, <1>2, RefsEmpty
<1>5. ASSUME NEW i \in 1..n, IsRefs(r[i - 1])
      PROVE  IsRefs(r[i]) /\ Count(r[i], c) = Count(r[i - 1], c) + FrameCount(cd, st[i], c)
  <2> DEFINE q == r[i - 1]
             t1 == t(i)
             u == st[i].fn
             v == st[i].args
             w == st[i].extra
             x == st[i].out
  <2>1. r[i] = q \o t1 \o u \o v \o w \o x
    BY <1>2
  <2>2. IsRefs(q) /\ IsRefs(t1) /\ IsRefs(u) /\ IsRefs(v) /\ IsRefs(w) /\ IsRefs(x)
    BY <1>3, <1>5
  <2>3. FrameCount(cd, st[i], c) = (((Count(t1, c) + Count(u, c)) + Count(v, c)) + Count(w, c)) + Count(x, c)
    BY <1>3
  <2> HIDE DEF q, t1, u, v, w, x
  <2>4. /\ IsRefs(q \o t1 \o u \o v \o w \o x)
        /\ Count(q \o t1 \o u \o v \o w \o x, c)
             = Count(q, c) + ((((Count(t1, c) + Count(u, c)) + Count(v, c)) + Count(w, c)) + Count(x, c))
    BY <2>2, FiveMore
  <2> QED
    BY <2>1, <2>3, <2>4 DEF q
<1>6. \A i \in 0..n : IsRefs(r[i])
  <2>1. \A i \in 1..n : i - 1 \in T => i \in T
    BY <1>1, <1>5
  <2>2. \A i \in 0..n : i \in T
    <3> HIDE DEF T
    <3> QED
      BY <1>1, <1>4, <2>1, UpTo
  <2> QED
    BY <2>2
<1> DEFINE f == [i \in 0..n |-> Count(r[i], c)]
<1>7. f[0] = 0
  BY <1>1, <1>2, CountEmpty
<1>8. ASSUME NEW i \in 1..n
      PROVE  f[i] = f[i - 1] + FrameCount(cd, st[i], c)
  <2>1. i \in 0..n /\ i - 1 \in 0..n
    BY <1>1
  <2>2. IsRefs(r[i - 1])
    BY <1>6, <2>1
  <2> QED
    BY <1>5, <2>1, <2>2
<1>9. n \in 0..n /\ f[n] = Count(StackRefs(cd, st), c)
  BY <1>1, <1>2
<1>10. IsSum(f, FrameTerms(cd, st, c), n)
  BY <1>7, <1>8 DEF IsSum, FrameTerms, n
<1>11. IsNats(FrameTerms(cd, st, c), n)
  BY <1>1, FrameNat DEF IsNats, FrameTerms, n
<1>12. IsRefs(StackRefs(cd, st))
  BY <1>2, <1>6, <1>9
<1> HIDE DEF f
<1> QED
  BY <1>9, <1>10, <1>11, <1>12 DEF n

LEMMA StackNat ==
  ASSUME NEW cd, NEW st, HaveRefs(cd, st)
  PROVE  IsRefs(StackRefs(cd, st)) /\ \A c \in Pos : Count(StackRefs(cd, st), c) \in Nat
<1>1. 1 \in Pos
  BY DEF Pos
<1> QED
  BY <1>1, StackSum, CountNat

LEMMA StackEmpty ==
  ASSUME NEW cd
  PROVE  HaveRefs(cd, <<>>) /\ \A c \in Pos : Count(StackRefs(cd, <<>>), c) = 0
<1>1. HaveRefs(cd, <<>>) /\ Len(<<>>) = 0
  BY EmptyIsSeq DEF HaveRefs
<1>2. ASSUME NEW c \in Pos
      PROVE  Count(StackRefs(cd, <<>>), c) = 0
  <2>1. PICK f : IsSum(f, FrameTerms(cd, <<>>, c), Len(<<>>)) /\ Count(StackRefs(cd, <<>>), c) = f[Len(<<>>)]
    BY <1>1, StackSum
  <2> QED
    BY <1>1, <2>1 DEF IsSum
<1> QED
  BY <1>1, <1>2

\* A frame is pushed.
LEMMA StackAppend ==
  ASSUME NEW cd, NEW st, NEW fr, HaveRefs(cd, st), HasRefs(cd, fr)
  PROVE  /\ HaveRefs(cd, Append(st, fr))
         /\ \A c \in Pos : Count(StackRefs(cd, Append(st, fr)), c)
                             = Count(StackRefs(cd, st), c) + FrameCount(cd, fr, c)
<1> DEFINE n == Len(st)
           new == Append(st, fr)
<1>1. n \in Nat /\ IsSeq(st)
  BY SeqFacts DEF HaveRefs
<1>2. /\ IsSeq(new) /\ Len(new) = n + 1
      /\ (\A i \in 1..n : new[i] = st[i]) /\ new[n + 1] = fr
  BY <1>1, AppendSeq
<1> HIDE DEF new
<1>3. HaveRefs(cd, new)
  <2>1. \A i \in 1..Len(new) : i \in 1..n \/ i = n + 1
    BY <1>1, <1>2
  <2> QED
    BY <1>2, <2>1 DEF HaveRefs
<1> HIDE DEF n
<1>4. ASSUME NEW c \in Pos
      PROVE  Count(StackRefs(cd, new), c) = Count(StackRefs(cd, st), c) + FrameCount(cd, fr, c)
  <2> DEFINE a == FrameTerms(cd, st, c)
             b == FrameTerms(cd, new, c)
  <2>1. PICK f : IsSum(f, a, n) /\ Count(StackRefs(cd, st), c) = f[n]
    BY StackSum DEF n
  <2>2. PICK g : IsSum(g, b, Len(new)) /\ Count(StackRefs(cd, new), c) = g[Len(new)]
    BY <1>3, StackSum
  <2>3. /\ \A i \in 1..n : b[i] = a[i]
        /\ b[n + 1] = FrameCount(cd, fr, c)
    BY <1>1, <1>2 DEF FrameTerms, n
  <2> HIDE DEF a, b
  <2>4. IsSum(g, a, n)
    <3>1. \A i \in 1..n : i \in 1..n + 1
      BY <1>1
    <3> QED
      BY <1>2, <2>2, <2>3, <3>1 DEF IsSum
  <2>5. f[n] = g[n]
    BY <1>1, <2>1, <2>4, SumSame
  <2>6. n + 1 \in 1..n + 1 /\ (n + 1) - 1 = n
    BY <1>1
  <2>7. g[n + 1] = g[n] + FrameCount(cd, fr, c)
    BY <1>2, <2>2, <2>3, <2>6 DEF IsSum
  <2> QED
    BY <1>2, <2>1, <2>2, <2>5, <2>7
<1> QED
  BY <1>3, <1>4 DEF new

\* The stack without its last frame, and that frame.
LEMMA StackTop ==
  ASSUME NEW cd, NEW st, HaveRefs(cd, st), st # <<>>
  PROVE  /\ HaveRefs(cd, Front(st)) /\ HasRefs(cd, Last(st))
         /\ \A c \in Pos : Count(StackRefs(cd, st), c)
                             = Count(StackRefs(cd, Front(st)), c) + FrameCount(cd, Last(st), c)
<1> DEFINE l == Last(st)
           r == Front(st)
<1>1. /\ IsSeq(r) /\ Len(r) = Len(st) - 1 /\ Len(st) >= 1 /\ l = st[Len(st)]
      /\ (\A i \in 1..Len(st) - 1 : r[i] = st[i]) /\ Append(r, l) = st /\ Len(st) \in Nat
  <2>1. IsSeq(st)
    BY DEF HaveRefs
  <2>2. Len(st) \in Nat
    BY <2>1, SeqFacts
  <2> QED
    BY <2>1, <2>2, FrontSeq
<1> HIDE DEF l, r
<1>2. HasRefs(cd, l)
  <2>1. Len(st) \in 1..Len(st)
    BY <1>1
  <2> QED
    BY <1>1, <2>1 DEF HaveRefs
<1>3. HaveRefs(cd, r)
  <2>1. \A i \in 1..Len(st) - 1 : i \in 1..Len(st)
    BY <1>1
  <2> QED
    BY <1>1, <2>1 DEF HaveRefs
<1>4. \A c \in Pos : Count(StackRefs(cd, Append(r, l)), c) = Count(StackRefs(cd, r), c) + FrameCount(cd, l, c)
  BY <1>2, <1>3, StackAppend
<1> QED
  BY <1>1, <1>2, <1>3, <1>4 DEF l, r

-----------------------------------------------------------------------------
(* The numbers of the locals                                               *)

\* FirstMentions looks at one name after the other.
FirstOp(e, seen, n) == IF n \in ToSet(seen) THEN seen ELSE Append(seen, n)
FirstFold == INSTANCE FoldProofs WITH Op <- FirstOp

LEMMA FirstSteps ==
  ASSUME NEW names, Len(names) \in Nat
  PROVE  \E f : /\ f[0] = <<>> /\ \A i \in 1..Len(names) : f[i] = IF names[i] \in ToSet(f[i - 1]) THEN f[i - 1] ELSE Append(f[i - 1], names[i])
                /\ FirstMentions(names) = f[Len(names)]
<1> DEFINE f == CHOOSE g : FirstFold!IsFold(g, 0, <<>>, names)
<1>1. FirstFold!IsFold(f, 0, <<>>, names)
  BY FirstFold!FoldSolution
<1>2. FirstMentions(names) = f[Len(names)]
  BY DEF FirstMentions, Fold, FirstFold!IsFold, FirstOp
<1>3. f[0] = <<>> /\ \A i \in 1..Len(names) : f[i] = IF names[i] \in ToSet(f[i - 1]) THEN f[i - 1] ELSE Append(f[i - 1], names[i])
  <2> HIDE DEF f
  <2>1. f[0] = <<>> /\ \A i \in 1..Len(names) : f[i] = FirstOp(0, f[i - 1], names[i])
    BY <1>1, FirstFold!FoldValues
  <2> QED
    BY <2>1 DEF FirstOp
<1> QED
  BY <1>2, <1>3

\* FlattenSeq joins one sequence after the other.
JoinOp(e, acc, s) == acc \o s
Joins == INSTANCE FoldProofs WITH Op <- JoinOp

Mem(x, s) == \E k \in 1..Len(s) : s[k] = x

LEMMA MemConcat ==
  ASSUME NEW s, NEW t, IsSeq(s), IsSeq(t)
  PROVE  IsSeq(s \o t) /\ \A x : Mem(x, s) \/ Mem(x, t) => Mem(x, s \o t)
<1> DEFINE a == s \o t
<1>1. Len(s) \in Nat /\ Len(t) \in Nat
  BY SeqFacts
<1>2. /\ IsSeq(a) /\ Len(a) = Len(s) + Len(t)
      /\ \A i \in 1..Len(s) : a[i] = s[i]
      /\ \A i \in 1..Len(t) : a[Len(s) + i] = t[i]
  BY ConcatSeq
<1> HIDE DEF a
<1>3. /\ \A i \in 1..Len(s) : i \in 1..Len(a)
      /\ \A i \in 1..Len(t) : Len(s) + i \in 1..Len(a)
  BY <1>1, <1>2
<1>4. \A x : Mem(x, s) \/ Mem(x, t) => Mem(x, a)
  BY <1>2, <1>3 DEF Mem
<1> QED
  BY <1>2, <1>4 DEF a

AreSeqs(ss) == IsSeq(ss) /\ \A i \in 1..Len(ss) : IsSeq(ss[i])

LEMMA FlattenMem ==
  ASSUME NEW ss, AreSeqs(ss)
  PROVE  /\ IsSeq(FlattenSeq(ss))
         /\ \A i \in 1..Len(ss) : \A x : Mem(x, ss[i]) => Mem(x, FlattenSeq(ss))
<1> DEFINE n == Len(ss)
<1>1. n \in Nat /\ IsSeq(ss) /\ \A i \in 1..n : IsSeq(ss[i])
  BY SeqFacts DEF AreSeqs
<1>2. CASE n = 0
  <2>1. FlattenSeq(ss) = ss
    BY <1>2 DEF FlattenSeq
  <2>2. \A i \in 1..n : FALSE
    BY <1>2
  <2> QED
    BY <1>1, <2>1, <2>2
<1>3. CASE n # 0
  <2> DEFINE Eq(g) == g = [i \in 1..n |-> IF i = 1 THEN ss[i] ELSE g[i - 1] \o ss[i]]
             g == CHOOSE h : Eq(h)
  <2>1. FlattenSeq(ss) = g[n]
    BY <1>3 DEF FlattenSeq
  <2>2. Eq(g)
    <3> DEFINE f == CHOOSE h : Joins!IsFold(h, 0, <<>>, ss)
               F == [i \in 1..n |-> f[i]]
    <3>1. Joins!IsFold(f, 0, <<>>, ss)
      BY <1>1, Joins!FoldSolution
    <3>2. f[0] = <<>> /\ \A i \in 1..n : f[i] = f[i - 1] \o ss[i]
      <4> HIDE DEF f
      <4>1. f[0] = <<>> /\ \A i \in 1..n : f[i] = JoinOp(0, f[i - 1], ss[i])
        BY <1>1, <3>1, Joins!FoldValues
      <4> QED
        BY <4>1 DEF JoinOp
    <3> HIDE DEF f
    <3>3. f[1] = ss[1]
      <4>1. 1 \in 1..n /\ 1 - 1 = 0
        BY <1>1, <1>3
      <4>2. f[1] = <<>> \o ss[1]
        BY <3>2, <4>1
      <4>3. ss[1] \in Seq(ToSet(ss[1]))
        BY <1>1, <4>1 DEF IsSeq
      <4> QED
        BY <4>2, <4>3
    <3> HIDE DEF n
    <3>4. ASSUME NEW i \in 1..n
          PROVE  F[i] = IF i = 1 THEN ss[i] ELSE F[i - 1] \o ss[i]
      <4>1. CASE i = 1
        BY <3>3, <4>1
      <4>2. CASE i # 1
        <5>1. i - 1 \in 1..n
          BY <1>1, <4>2
        <5> QED
          BY <3>2, <4>2, <5>1
      <4> QED
        BY <4>1, <4>2
    <3>5. DOMAIN F = 1..n /\ F = [i \in 1..n |-> F[i]]
      OBVIOUS
    <3> HIDE DEF F
    <3>6. Eq(F)
      BY <3>4, <3>5
    <3> HIDE DEF Eq
    <3> QED
      BY <3>6
  <2> HIDE DEF g
  <2>3. g[1] = ss[1] /\ \A i \in 2..n : g[i] = g[i - 1] \o ss[i]
    <3>1. \A i \in 1..n : g[i] = IF i = 1 THEN ss[i] ELSE g[i - 1] \o ss[i]
      BY <2>2
    <3>2. 1 \in 1..n /\ \A i \in 2..n : i \in 1..n /\ i # 1
      BY <1>1, <1>3
    <3> HIDE DEF n
    <3> QED
      BY <3>1, <3>2
  <2> HIDE DEF n, Eq
  <2> DEFINE P(j) == /\ IsSeq(g[j])
                     /\ \A i \in 1..j : \A x : Mem(x, ss[i]) => Mem(x, g[j])
             T == {j \in 0..n : j = 0 \/ P(j)}
  <2>4. ASSUME NEW j \in 1..n, j - 1 \in T
        PROVE  j \in T
    <3>1. CASE j = 1
      <4>1. \A i \in 1..1 : i = 1
        OBVIOUS
      <4> QED
        BY <1>1, <2>3, <3>1, <4>1
    <3>2. CASE j # 1
      <4> DEFINE r == g[j - 1]
                 q == g[j]
      <4>1. j \in 2..n /\ j - 1 # 0 /\ \A i \in 1..j : i \in 1..(j - 1) \/ i = j
        BY <1>1, <3>2
      <4>2. q = r \o ss[j] /\ IsSeq(r) /\ IsSeq(ss[j])
        BY <1>1, <2>3, <2>4, <4>1
      <4>3. \A i \in 1..j - 1 : \A x : Mem(x, ss[i]) => Mem(x, r)
        BY <2>4, <4>1
      <4> HIDE DEF r, q
      <4>4. IsSeq(q) /\ \A x : Mem(x, r) \/ Mem(x, ss[j]) => Mem(x, q)
        BY <4>2, MemConcat
      <4>5. \A i \in 1..j : \A x : Mem(x, ss[i]) => Mem(x, q)
        BY <4>1, <4>3, <4>4
      <4> QED
        BY <1>1, <4>4, <4>5 DEF q
    <3> QED
      BY <3>1, <3>2
  <2>5. 0 \in T
    BY <1>1
  <2>6. n \in T
    <3> HIDE DEF T
    <3>1. \A i \in 0..n : i \in T
      BY <1>1, <2>4, <2>5, UpTo
    <3> QED
      BY <1>1, <3>1
  <2>7. P(n)
    BY <1>3, <2>6 DEF n
  <2> QED
    BY <2>1, <2>7 DEF n
<1> QED
  BY <1>2, <1>3

LEMMA FirstMem ==
  ASSUME NEW names, IsSeq(names)
  PROVE  IsSeq(FirstMentions(names)) /\ \A i \in 1..Len(names) : Mem(names[i], FirstMentions(names))
<1> DEFINE n == Len(names)
<1>1. n \in Nat
  BY SeqFacts
<1>2. PICK f : /\ f[0] = <<>>
               /\ \A i \in 1..n : f[i] = IF names[i] \in ToSet(f[i - 1]) THEN f[i - 1] ELSE Append(f[i - 1], names[i])
               /\ FirstMentions(names) = f[n]
  BY <1>1, FirstSteps
<1> HIDE DEF n
<1> DEFINE P(j) == IsSeq(f[j]) /\ \A i \in 1..j : Mem(names[i], f[j])
           T == {j \in 0..n : P(j)}
<1>3. 0 \in T
  BY <1>1, <1>2, EmptyIsSeq
<1>4. ASSUME NEW j \in 1..n, j - 1 \in T
      PROVE  j \in T
  <2> DEFINE r == f[j - 1]
             q == f[j]
             x == names[j]
  <2>1. IsSeq(r) /\ \A i \in 1..j - 1 : Mem(names[i], r)
    BY <1>4
  <2>2. j \in 0..n /\ \A i \in 1..j : i \in 1..(j - 1) \/ i = j
    BY <1>1
  <2>3. DOMAIN r = 1..Len(r) /\ Len(r) \in Nat
    BY <2>1, SeqFacts
  <2>4. CASE x \in ToSet(r)
    <3>1. q = r
      BY <1>2, <2>4
    <3>2. Mem(x, r)
      BY <2>3, <2>4 DEF ToSet, Mem
    <3>3. \A i \in 1..j : Mem(names[i], q)
      <4> HIDE DEF q, r
      <4> QED
        BY <2>1, <2>2, <3>1, <3>2
    <3> QED
      BY <2>1, <2>2, <3>1, <3>3
  <2>5. CASE x \notin ToSet(r)
    <3>1. q = Append(r, x)
      BY <1>2, <2>5
    <3> HIDE DEF q, r, x
    <3>2. IsSeq(q) /\ Len(q) = Len(r) + 1 /\ (\A i \in 1..Len(r) : q[i] = r[i]) /\ q[Len(r) + 1] = x
      BY <2>1, <3>1, AppendSeq
    <3>3. Mem(x, q) /\ \A y : Mem(y, r) => Mem(y, q)
      <4>1. Len(r) + 1 \in 1..Len(q) /\ \A i \in 1..Len(r) : i \in 1..Len(q)
        BY <2>3, <3>2
      <4> QED
        BY <3>2, <4>1 DEF Mem
    <3>4. \A i \in 1..j : Mem(names[i], q)
      BY <2>1, <2>2, <3>3 DEF x
    <3> QED
      BY <2>2, <3>2, <3>4 DEF q
  <2> QED
    BY <2>4, <2>5
<1>5. n \in T
  <2> HIDE DEF T
  <2>1. \A i \in 0..n : i \in T
    BY <1>1, <1>3, <1>4, UpTo
  <2> QED
    BY <1>1, <2>1
<1> QED
  BY <1>2, <1>5 DEF n

LEMMA PositionIn ==
  ASSUME NEW s, NEW x, IsSeq(s), Mem(x, s)
  PROVE  Position(s, x) \in 0..(Len(s) - 1) /\ s[Position(s, x) + 1] = x
<1>1. Len(s) \in Nat /\ DOMAIN s = 1..Len(s)
  BY SeqFacts
<1> DEFINE i == CHOOSE k \in DOMAIN s : s[k] = x
<1>2. i \in 1..Len(s) /\ s[i] = x
  BY <1>1 DEF Mem
<1>3. Position(s, x) = i - 1
  BY DEF Position
<1> HIDE DEF i
<1>4. i - 1 \in 0..(Len(s) - 1) /\ (i - 1) + 1 = i
  BY <1>1, <1>2
<1> QED
  BY <1>2, <1>3, <1>4


-----------------------------------------------------------------------------
(* What compiled code is like.  n locals are numbered, m blocks.           *)

PlainOps == {"compute", "alloca", "load", "store", "rmw", "cmpxchg", "call", "fence", "freeze"}
TermOps == {"ret", "br", "condbr", "switch", "invoke", "unreachable"}

IsInstr(i, n) ==
  /\ IsSeq(i.operands) /\ \A k \in 1..Len(i.operands) : IsOperand(i.operands[k])
  /\ i.dest \in 0..(n - 1) \cup {NoLocal}
  /\ HasOperands(i)

IsPlain(i, n) == i.op \in PlainOps /\ IsInstr(i, n)

IsTerm(t, n, m) ==
  /\ t.op \in TermOps /\ IsInstr(t, n)
  /\ IsSeq(t.targets) /\ \A k \in 1..Len(t.targets) : t.targets[k] \in 0..(m - 1)
  /\ t.op \in {"br", "invoke"} => Len(t.targets) >= 1
  /\ t.op = "condbr" => Len(t.targets) >= 2
  /\ t.op = "switch" => IsSeq(t.cases) /\ Len(t.targets) = Len(t.cases) + 1

IsPhi(phi, n) == phi.dest \in 0..(n - 1) /\ \A o \in DOMAIN phi.mapping : IsOperand(phi.mapping[o])

IsBlock(b, n, m) ==
  /\ IsSeq(b.phis) /\ \A k \in 1..Len(b.phis) : IsPhi(b.phis[k], n)
  /\ IsSeq(b.code) /\ Len(b.code) >= 1
  /\ \A k \in 1..Len(b.code) - 1 : IsPlain(b.code[k], n)
  /\ IsTerm(b.code[Len(b.code)], n, m)

IsCompiled(f) ==
  /\ IsSeq(f.locals) /\ AreNums(f.args, Len(f.locals))
  /\ IsSeq(f.blocks) /\ Len(f.blocks) >= 1
  /\ \A k \in 1..Len(f.blocks) : IsBlock(f.blocks[k], Len(f.locals), Len(f.blocks))

IsCode(cd) ==
  /\ Entry \in DOMAIN cd /\ cd[Entry].kind = "c" /\ Len(cd[Entry].args) = 2
  /\ \A a \in DOMAIN cd : cd[a].kind = "c" => IsCompiled(cd[a])

\* A sequence in Seq(S), position by position.
LEMMA SeqIn ==
  ASSUME NEW S, NEW s \in Seq(S)
  PROVE  IsSeq(s) /\ Len(s) \in Nat /\ DOMAIN s = 1..Len(s) /\ \A i \in 1..Len(s) : s[i] \in S
<1>1. IsSeq(s) /\ s \in [1..Len(s) -> S]
  BY SeqIs, LenProperties
<1> QED
  BY <1>1, SeqFacts

LEMMA NamesSeq ==
  ASSUME NEW operands, IsSeq(operands)
  PROVE  IsSeq(Names(operands))
<1> DEFINE locals == Keep(operands, {o \in ToSet(operands) : o.k = "local"})
<1>1. IsSeq(locals)
  BY KeepFacts
<1> HIDE DEF locals
<1>2. Len(locals) \in Nat /\ DOMAIN locals = 1..Len(locals)
  BY <1>1, SeqFacts
<1>3. Names(operands) = [i \in 1..Len(locals) |-> locals[i].name]
  BY <1>2 DEF Names, locals
<1>4. Names(operands) = [i \in 1..Len(locals) |-> Names(operands)[i]]
  BY <1>3
<1> QED
  BY <1>2, <1>4, FunSeq

AnyInstr == APhi \cup AnInstr \cup ATerm

LEMMA OperandsSeq ==
  ASSUME NEW i \in AnyInstr
  PROVE  IsSeq(Operands(i))
<1>1. CASE i \in APhi
  <2> DEFINE s == i.incoming
             r == Operands(i)
  <2>1. s \in Seq(AnOperand \X STRING) /\ i.op = "phi"
    BY <1>1 DEF APhi
  <2>2. Len(s) \in Nat /\ DOMAIN s = 1..Len(s)
    BY <2>1, SeqIn
  <2>3. r = [k \in 1..Len(s) |-> s[k][1]]
    BY <2>1, <2>2 DEF Operands
  <2>4. r = [k \in 1..Len(s) |-> r[k]]
    BY <2>3
  <2> HIDE DEF r, s
  <2>5. IsSeq(r)
    BY <2>2, <2>4, FunSeq
  <2> QED
    BY <2>5 DEF r
<1>2. CASE i \in AnInstr
  <2>1. i.operands \in Seq(AnOperand) /\ i.op # "phi"
    BY <1>2 DEF AnInstr
  <2> QED
    BY <2>1, SeqIn DEF Operands
<1>3. CASE i \in ATerm
  <2>1. i.operands \in Seq(AnOperand) /\ i.op # "phi"
    BY <1>3 DEF ATerm
  <2> QED
    BY <2>1, SeqIn DEF Operands
<1> QED
  BY <1>1, <1>2, <1>3 DEF AnyInstr

\* An instruction mentions its destination.
LEMMA MentionsDest ==
  ASSUME NEW i \in AnyInstr
  PROVE  IsSeq(Mentions(i)) /\ (i.dest # None => Mem(i.dest, Mentions(i)))
<1> DEFINE d == DestNames(i)
           o == Names(Operands(i))
<1>1. IsSeq(o)
  BY OperandsSeq, NamesSeq
<1>2. IsSeq(d) /\ (i.dest # None => Mem(i.dest, d))
  <2>1. CASE i.dest = None
    BY <2>1, EmptyIsSeq DEF DestNames
  <2>2. CASE i.dest # None
    <3>1. d = <<i.dest>>
      BY <2>2 DEF DestNames
    <3>2. IsSeq(<<i.dest>>) /\ Len(<<i.dest>>) = 1 /\ <<i.dest>>[1] = i.dest
      BY OneSeq
    <3>3. 1 \in 1..1
      OBVIOUS
    <3> QED
      BY <3>1, <3>2, <3>3 DEF Mem
  <2> QED
    BY <2>1, <2>2
<1>3. Mentions(i) = IF DestFirst(i.op) THEN d \o o ELSE o \o d
  BY DEF Mentions
<1> HIDE DEF d, o
<1>4. IsSeq(d \o o) /\ IsSeq(o \o d) /\ \A x : Mem(x, d) => Mem(x, d \o o) /\ Mem(x, o \o d)
  BY <1>1, <1>2, MemConcat
<1> QED
  BY <1>2, <1>3, <1>4

InstrNames(b) == [i \in DOMAIN b.instrs |-> Mentions(b.instrs[i])]
BlockNames(b) == FlattenSeq(InstrNames(b)) \o Mentions(b.term)

LEMMA BlockMem ==
  ASSUME NEW b \in ABlock
  PROVE  /\ IsSeq(BlockNames(b))
         /\ \A i \in 1..Len(b.instrs) : b.instrs[i].dest # None => Mem(b.instrs[i].dest, BlockNames(b))
         /\ b.term.dest # None => Mem(b.term.dest, BlockNames(b))
<1> DEFINE s == b.instrs
           t == b.term
           ss == InstrNames(b)
           f == FlattenSeq(ss)
           m == Mentions(t)
<1>1. s \in Seq(APhi \cup AnInstr) /\ t \in ATerm
  BY DEF ABlock
<1>2. Len(s) \in Nat /\ DOMAIN s = 1..Len(s) /\ \A i \in 1..Len(s) : s[i] \in AnyInstr
  BY <1>1, SeqIn DEF AnyInstr
<1>3. t \in AnyInstr
  BY <1>1 DEF AnyInstr
<1>4. ss = [i \in 1..Len(s) |-> Mentions(s[i])]
  BY <1>2 DEF InstrNames
<1> HIDE DEF s, t
<1>5. ss = [i \in 1..Len(s) |-> ss[i]] /\ \A i \in 1..Len(s) : ss[i] = Mentions(s[i])
  BY <1>4
<1>6. \A i \in 1..Len(s) : IsSeq(Mentions(s[i])) /\ (s[i].dest # None => Mem(s[i].dest, Mentions(s[i])))
  BY <1>2, MentionsDest
<1> HIDE DEF ss
<1>7. IsSeq(ss) /\ Len(ss) = Len(s)
  BY <1>2, <1>5, FunSeq
<1>8. AreSeqs(ss)
  BY <1>5, <1>6, <1>7 DEF AreSeqs
<1>9. IsSeq(f) /\ \A i \in 1..Len(ss) : \A x : Mem(x, ss[i]) => Mem(x, f)
  BY <1>8, FlattenMem
<1>10. IsSeq(m) /\ (t.dest # None => Mem(t.dest, m))
  BY <1>3, MentionsDest
<1> HIDE DEF f, m
<1>11. IsSeq(f \o m) /\ \A x : Mem(x, f) \/ Mem(x, m) => Mem(x, f \o m)
  BY <1>9, <1>10, MemConcat
<1>12. BlockNames(b) = f \o m
  BY DEF BlockNames, f, m, ss, t
<1>13. \A i \in 1..Len(s) : s[i].dest # None => Mem(s[i].dest, f \o m)
  BY <1>5, <1>6, <1>7, <1>9, <1>11
<1>14. t.dest # None => Mem(t.dest, f \o m)
  BY <1>10, <1>11
<1> QED
  BY <1>11, <1>12, <1>13, <1>14 DEF s, t

\* Every destination and every parameter of a function has a number.
LEMMA LocalsMem ==
  ASSUME NEW func \in AFunction
  PROVE  /\ IsSeq(LocalNames(func))
         /\ \A k \in 1..Len(func.blocks) :
              /\ func.blocks[k].term.dest # None => Mem(func.blocks[k].term.dest, LocalNames(func))
              /\ \A i \in 1..Len(func.blocks[k].instrs) :
                   func.blocks[k].instrs[i].dest # None
                     => Mem(func.blocks[k].instrs[i].dest, LocalNames(func))
         /\ \A i \in 1..Len(func.params) : Mem(func.params[i], LocalNames(func))
<1> DEFINE bs == func.blocks
           ps == func.params
           ss == [i \in DOMAIN bs |-> BlockNames(bs[i])]
           f == FlattenSeq(ss)
           names == f \o ps
           L == LocalNames(func)
<1>1. L = FirstMentions(names)
  BY DEF LocalNames, BlockNames, InstrNames
<1>2. bs \in Seq(ABlock) /\ ps \in Seq(STRING)
  BY DEF AFunction
<1> HIDE DEF bs, ps, L
<1>3. Len(bs) \in Nat /\ DOMAIN bs = 1..Len(bs) /\ \A i \in 1..Len(bs) : bs[i] \in ABlock
  BY <1>2, SeqIn
<1>4. IsSeq(ps)
  BY <1>2, SeqIn
<1>5. ss = [i \in 1..Len(bs) |-> ss[i]] /\ \A i \in 1..Len(bs) : ss[i] = BlockNames(bs[i])
  BY <1>3
<1>6. \A k \in 1..Len(bs) :
        /\ IsSeq(BlockNames(bs[k]))
        /\ bs[k].term.dest # None => Mem(bs[k].term.dest, BlockNames(bs[k]))
        /\ \A i \in 1..Len(bs[k].instrs) :
             bs[k].instrs[i].dest # None => Mem(bs[k].instrs[i].dest, BlockNames(bs[k]))
  BY <1>3, BlockMem
<1> HIDE DEF ss
<1>7. IsSeq(ss) /\ Len(ss) = Len(bs)
  BY <1>3, <1>5, FunSeq
<1>8. AreSeqs(ss)
  BY <1>5, <1>6, <1>7 DEF AreSeqs
<1>9. IsSeq(f) /\ \A i \in 1..Len(ss) : \A x : Mem(x, ss[i]) => Mem(x, f)
  BY <1>8, FlattenMem
<1> HIDE DEF f
<1>10. IsSeq(names) /\ \A x : Mem(x, f) \/ Mem(x, ps) => Mem(x, names)
  BY <1>4, <1>9, MemConcat
<1> HIDE DEF names
<1>11. IsSeq(L) /\ \A i \in 1..Len(names) : Mem(names[i], L)
  BY <1>1, <1>10, FirstMem
<1>12. \A x : Mem(x, names) => Mem(x, L)
  BY <1>11 DEF Mem
<1>13. \A k \in 1..Len(bs) : \A x : Mem(x, BlockNames(bs[k])) => Mem(x, L)
  BY <1>5, <1>7, <1>9, <1>10, <1>12
<1>14. \A k \in 1..Len(bs) :
         /\ bs[k].term.dest # None => Mem(bs[k].term.dest, L)
         /\ \A i \in 1..Len(bs[k].instrs) : bs[k].instrs[i].dest # None => Mem(bs[k].instrs[i].dest, L)
  BY <1>6, <1>13
<1>15. \A i \in 1..Len(ps) : Mem(ps[i], L)
  <2>1. \A i \in 1..Len(ps) : Mem(ps[i], ps)
    BY DEF Mem
  <2> QED
    BY <1>10, <1>12, <2>1
<1> QED
  BY <1>11, <1>14, <1>15 DEF bs, ps, L

\* compile_dest and compile_local give numbers of locals.
LEMMA CompileDest ==
  ASSUME NEW locals, NEW dest, IsSeq(locals), dest # None => Mem(dest, locals)
  PROVE  compile_dest(locals, dest) \in 0..(Len(locals) - 1) \cup {NoLocal}
<1>1. CASE dest = None
  BY <1>1 DEF compile_dest
<1>2. CASE dest # None
  <2>1. Position(locals, dest) \in 0..(Len(locals) - 1)
    BY <1>2, PositionIn
  <2> QED
    BY <1>2, <2>1 DEF compile_dest, compile_local
<1> QED
  BY <1>1, <1>2

LEMMA CompileOperand ==
  ASSUME NEW locals, NEW o \in AnOperand
  PROVE  IsOperand(compile_operand(locals, o))
<1>1. CASE o.k = "local"
  BY <1>1 DEF compile_operand, IsOperand
<1>2. CASE o.k # "local"
  <2>1. o.k \in {"local", "const", "expr"}
    BY DEF AnOperand
  <2> QED
    BY <1>2, <2>1 DEF compile_operand, IsOperand
<1> QED
  BY <1>1, <1>2

LEMMA CompileOperands ==
  ASSUME NEW locals, NEW operands \in Seq(AnOperand)
  PROVE  /\ IsSeq(compile_operands(locals, operands))
         /\ Len(compile_operands(locals, operands)) = Len(operands)
         /\ \A k \in 1..Len(operands) : IsOperand(compile_operands(locals, operands)[k])
<1> DEFINE r == compile_operands(locals, operands)
<1>1. /\ Len(operands) \in Nat /\ DOMAIN operands = 1..Len(operands)
      /\ \A k \in 1..Len(operands) : operands[k] \in AnOperand
  BY SeqIn
<1>2. r = [k \in 1..Len(operands) |-> compile_operand(locals, operands[k])]
  BY <1>1 DEF compile_operands
<1>3. /\ r = [k \in 1..Len(operands) |-> r[k]]
      /\ \A k \in 1..Len(operands) : r[k] = compile_operand(locals, operands[k])
  BY <1>2
<1> HIDE DEF r
<1>4. IsSeq(r) /\ Len(r) = Len(operands)
  BY <1>1, <1>3, FunSeq
<1>5. \A k \in 1..Len(operands) : IsOperand(r[k])
  BY <1>1, <1>3, CompileOperand
<1> QED
  BY <1>4, <1>5 DEF r

\* Operands and destination of an instruction or a terminator.
LEMMA CompileParts ==
  ASSUME NEW locals, NEW i, NEW j, IsSeq(locals), i.operands \in Seq(AnOperand), HasOperands(i),
         i.dest # None => Mem(i.dest, locals),
         j.op = i.op, j.operands = compile_operands(locals, i.operands),
         j.dest = compile_dest(locals, i.dest)
  PROVE  IsInstr(j, Len(locals))
<1>1. IsSeq(j.operands) /\ Len(j.operands) = Len(i.operands)
  BY CompileOperands
<1>2. \A k \in 1..Len(j.operands) : IsOperand(j.operands[k])
  BY <1>1, CompileOperands
<1>3. j.dest \in 0..(Len(locals) - 1) \cup {NoLocal}
  BY CompileDest
<1>4. HasOperands(j)
  BY <1>1 DEF HasOperands
<1> QED
  BY <1>1, <1>2, <1>3, <1>4 DEF IsInstr

LEMMA CompileInstr ==
  ASSUME NEW locals, NEW i \in AnInstr, IsSeq(locals), HasOperands(i),
         i.dest # None => Mem(i.dest, locals)
  PROVE  IsPlain(compile_instr(locals, i), Len(locals))
<1> DEFINE j == compile_instr(locals, i)
<1>1. i.operands \in Seq(AnOperand) /\ i.op \in PlainOps
  BY DEF AnInstr, PlainOps
<1>2. /\ j.op = i.op /\ j.operands = compile_operands(locals, i.operands)
      /\ j.dest = compile_dest(locals, i.dest)
  BY DEF compile_instr
<1> HIDE DEF j
<1>3. IsInstr(j, Len(locals))
  BY <1>1, <1>2, CompileParts
<1>4. IsPlain(j, Len(locals))
  BY <1>1, <1>2, <1>3 DEF IsPlain
<1> QED
  BY <1>4 DEF j

\* A target that is the name of a block is compiled to its number.
LEMMA CompileTarget ==
  ASSUME NEW func \in AFunction, NEW name \in {b.name : b \in ToSet(func.blocks)}
  PROVE  compile_target(func, name) \in 0..(Len(func.blocks) - 1)
<1> DEFINE bs == func.blocks
           names == [i \in DOMAIN bs |-> bs[i].name]
<1>1. bs \in Seq(ABlock)
  BY DEF AFunction
<1>2. PICK b \in ToSet(bs) : name = b.name
  OBVIOUS
<1>3. compile_target(func, name) = Position(names, name)
  BY DEF compile_target
<1> HIDE DEF bs
<1>4. Len(bs) \in Nat /\ DOMAIN bs = 1..Len(bs)
  BY <1>1, SeqIn
<1>5. PICK k \in 1..Len(bs) : b = bs[k]
  BY <1>2, <1>4 DEF ToSet
<1>6. names = [i \in 1..Len(bs) |-> names[i]] /\ names[k] = name
  BY <1>2, <1>4, <1>5
<1> HIDE DEF names
<1>7. IsSeq(names) /\ Len(names) = Len(bs)
  BY <1>4, <1>6, FunSeq
<1>8. Mem(name, names)
  BY <1>6, <1>7 DEF Mem
<1>9. Position(names, name) \in 0..(Len(names) - 1)
  BY <1>7, <1>8, PositionIn
<1> QED
  BY <1>3, <1>7, <1>9 DEF bs

LEMMA CompileTerm ==
  ASSUME NEW func \in AFunction, NEW locals, NEW t \in ATerm, IsSeq(locals), HasOperands(t),
         HasTargets(func, t), t.dest # None => Mem(t.dest, locals)
  PROVE  IsTerm(compile_term(func, locals, t), Len(locals), Len(func.blocks))
<1> DEFINE j == compile_term(func, locals, t)
           ts == t.targets
           rs == j.targets
<1>1. /\ t.operands \in Seq(AnOperand) /\ t.op \in TermOps /\ ts \in Seq(STRING)
      /\ t.cases \in Seq(Int)
  BY DEF ATerm, TermOps
<1>2. /\ j.op = t.op /\ j.operands = compile_operands(locals, t.operands)
      /\ j.dest = compile_dest(locals, t.dest) /\ j.cases = t.cases
      /\ rs = [i \in DOMAIN ts |-> compile_target(func, ts[i])]
  BY DEF compile_term
<1> HIDE DEF j
<1>3. IsInstr(j, Len(locals))
  BY <1>1, <1>2, CompileParts
<1>4. /\ ToSet(ts) \subseteq {b.name : b \in ToSet(func.blocks)}
      /\ t.op \in {"br", "invoke"} => Len(ts) >= 1
      /\ t.op = "condbr" => Len(ts) >= 2
      /\ t.op = "switch" => Len(ts) = Len(t.cases) + 1
  BY DEF HasTargets
<1> HIDE DEF ts, rs
<1>5. Len(ts) \in Nat /\ DOMAIN ts = 1..Len(ts)
  BY <1>1, SeqIn
<1>6. rs = [i \in 1..Len(ts) |-> rs[i]] /\ \A i \in 1..Len(ts) : rs[i] = compile_target(func, ts[i])
  BY <1>2, <1>5
<1>7. IsSeq(rs) /\ Len(rs) = Len(ts)
  BY <1>5, <1>6, FunSeq
<1>8. \A i \in 1..Len(ts) : ts[i] \in {b.name : b \in ToSet(func.blocks)}
  BY <1>4, <1>5 DEF ToSet
<1>9. \A i \in 1..Len(rs) : rs[i] \in 0..(Len(func.blocks) - 1)
  BY <1>6, <1>7, <1>8, CompileTarget
<1>10. IsSeq(t.cases)
  BY <1>1, SeqIn
<1>11. IsTerm(j, Len(locals), Len(func.blocks))
  BY <1>1, <1>2, <1>3, <1>4, <1>7, <1>9, <1>10 DEF IsTerm, rs
<1> QED
  BY <1>11 DEF j

LEMMA CompilePhi ==
  ASSUME NEW func, NEW locals, NEW phi \in APhi, IsSeq(locals), Mem(phi.dest, locals)
  PROVE  IsPhi(compile_phi(func, locals, phi), Len(locals))
<1> DEFINE s == phi.incoming
           origins == [i \in DOMAIN s |-> compile_target(func, s[i][2])]
           M == [o \in ToSet(origins) |-> compile_operand(locals, s[Position(origins, o) + 1][1])]
           j == compile_phi(func, locals, phi)
<1>1. s \in Seq(AnOperand \X STRING)
  BY DEF APhi
<1>2. j = [dest |-> compile_local(locals, phi.dest), mapping |-> M]
  BY DEF compile_phi
<1>3. j.dest \in 0..(Len(locals) - 1)
  <2>1. j.dest = Position(locals, phi.dest)
    BY <1>2 DEF compile_local
  <2> QED
    BY <2>1, PositionIn
<1> HIDE DEF s
<1>4. Len(s) \in Nat /\ DOMAIN s = 1..Len(s) /\ \A i \in 1..Len(s) : s[i] \in AnOperand \X STRING
  BY <1>1, SeqIn
<1>5. origins = [i \in 1..Len(s) |-> origins[i]]
  BY <1>4
<1>6. j.mapping = M
  BY <1>2
<1> HIDE DEF origins, j
<1>7. IsSeq(origins) /\ Len(origins) = Len(s) /\ DOMAIN origins = 1..Len(s)
  BY <1>4, <1>5, FunSeq
<1>8. ASSUME NEW o \in ToSet(origins)
      PROVE  IsOperand(M[o])
  <2>1. Mem(o, origins)
    BY <1>7 DEF ToSet, Mem
  <2>2. Position(origins, o) \in 0..(Len(origins) - 1)
    BY <1>7, <2>1, PositionIn
  <2>3. Position(origins, o) + 1 \in 1..Len(s)
    BY <1>4, <1>7, <2>2
  <2>4. s[Position(origins, o) + 1][1] \in AnOperand
    BY <1>4, <2>3
  <2> QED
    BY <2>4, CompileOperand
<1>9. DOMAIN M = ToSet(origins)
  OBVIOUS
<1> HIDE DEF M
<1>10. IsPhi(j, Len(locals))
  BY <1>3, <1>6, <1>8, <1>9 DEF IsPhi
<1> QED
  BY <1>10 DEF j

\* The elements of a sequence that are in a set of its elements.
LEMMA KeptIn ==
  ASSUME NEW s, NEW S, IsSeq(s)
  PROVE  /\ IsSeq(Keep(s, S)) /\ Len(Keep(s, S)) \in Nat /\ DOMAIN Keep(s, S) = 1..Len(Keep(s, S))
         /\ \A j \in 1..Len(Keep(s, S)) : Keep(s, S)[j] \in S /\ \E k \in 1..Len(s) : Keep(s, S)[j] = s[k]
<1>1. IsSeq(Keep(s, S)) /\ From(Keep(s, S), s, S)
  BY KeepFacts
<1>2. Len(Keep(s, S)) \in Nat /\ DOMAIN Keep(s, S) = 1..Len(Keep(s, S))
  BY <1>1, SeqFacts
<1> QED
  BY <1>1, <1>2 DEF From

LEMMA CompileBlock ==
  ASSUME NEW func \in AFunction, NEW locals, NEW b \in ABlock, IsSeq(locals),
         HasOperands(b.term), HasTargets(func, b.term), b.term.dest # None => Mem(b.term.dest, locals),
         \A i \in ToSet(b.instrs) : i.op # "phi" => HasOperands(i),
         \A k \in 1..Len(b.instrs) : b.instrs[k].dest # None => Mem(b.instrs[k].dest, locals)
  PROVE  IsBlock(compile_block(func, locals, b), Len(locals), Len(func.blocks))
<1> DEFINE s == b.instrs
           n == Len(locals)
           m == Len(func.blocks)
           P == {i \in ToSet(s) : i.op = "phi"}
           Q == {i \in ToSet(s) : i.op # "phi"}
           phis == Keep(s, P)
           instrs == Keep(s, Q)
           ps == [i \in DOMAIN phis |-> compile_phi(func, locals, phis[i])]
           is == [i \in DOMAIN instrs |-> compile_instr(locals, instrs[i])]
           t == compile_term(func, locals, b.term)
           j == compile_block(func, locals, b)
<1>1. s \in Seq(APhi \cup AnInstr) /\ b.term \in ATerm
  BY DEF ABlock
<1>2. j.phis = ps /\ j.code = is \o <<t>>
  BY DEF compile_block
<1>3. IsTerm(t, n, m)
  BY <1>1, CompileTerm
<1>4. \A i \in Q : HasOperands(i)
  OBVIOUS
<1>5. \A k \in 1..Len(s) : s[k].dest # None => Mem(s[k].dest, locals)
  OBVIOUS
<1> HIDE DEF s, t, j, n, m
<1>6. IsSeq(s) /\ Len(s) \in Nat /\ DOMAIN s = 1..Len(s) /\ \A k \in 1..Len(s) : s[k] \in APhi \cup AnInstr
  BY <1>1, SeqIn
<1>7. (\A i \in P : i.op = "phi") /\ (\A i \in Q : i.op # "phi")
  OBVIOUS
<1> HIDE DEF P, Q
<1>8. /\ Len(phis) \in Nat /\ DOMAIN phis = 1..Len(phis)
      /\ \A k \in 1..Len(phis) : phis[k] \in P /\ \E l \in 1..Len(s) : phis[k] = s[l]
  BY <1>6, KeptIn
<1>9. /\ Len(instrs) \in Nat /\ DOMAIN instrs = 1..Len(instrs)
      /\ \A k \in 1..Len(instrs) : instrs[k] \in Q /\ \E l \in 1..Len(s) : instrs[k] = s[l]
  BY <1>6, KeptIn
<1> HIDE DEF phis, instrs
<1>10. ASSUME NEW k \in 1..Len(phis)
       PROVE  IsPhi(compile_phi(func, locals, phis[k]), n)
  <2>1. phis[k] \in APhi /\ phis[k].dest # None
    <3>1. phis[k].op = "phi" /\ phis[k] \in APhi \cup AnInstr
      BY <1>6, <1>7, <1>8
    <3> QED
      BY <3>1 DEF APhi, AnInstr
  <2>2. Mem(phis[k].dest, locals)
    BY <1>5, <1>8, <2>1
  <2> QED
    BY <2>1, <2>2, CompilePhi DEF n
<1>11. ASSUME NEW k \in 1..Len(instrs)
       PROVE  IsPlain(compile_instr(locals, instrs[k]), n)
  <2>1. instrs[k] \in AnInstr
    <3>1. instrs[k].op # "phi" /\ instrs[k] \in APhi \cup AnInstr
      BY <1>6, <1>7, <1>9
    <3> QED
      BY <3>1 DEF APhi
  <2>2. instrs[k].dest # None => Mem(instrs[k].dest, locals)
    BY <1>5, <1>9
  <2>3. HasOperands(instrs[k])
    BY <1>4, <1>9
  <2> QED
    BY <2>1, <2>2, <2>3, CompileInstr DEF n
<1>12. /\ ps = [k \in 1..Len(phis) |-> ps[k]]
       /\ \A k \in 1..Len(phis) : ps[k] = compile_phi(func, locals, phis[k])
  BY <1>8
<1>13. /\ is = [k \in 1..Len(instrs) |-> is[k]]
       /\ \A k \in 1..Len(instrs) : is[k] = compile_instr(locals, instrs[k])
  BY <1>9
<1> HIDE DEF ps, is
<1>14. IsSeq(ps) /\ Len(ps) = Len(phis) /\ IsSeq(is) /\ Len(is) = Len(instrs)
  BY <1>8, <1>9, <1>12, <1>13, FunSeq
<1>15. \A k \in 1..Len(ps) : IsPhi(ps[k], n)
  BY <1>10, <1>12, <1>14
<1> DEFINE o == <<t>>
           c == is \o o
<1>16. IsSeq(o) /\ Len(o) = 1 /\ o[1] = t
  BY OneSeq
<1> HIDE DEF o
<1>17. /\ IsSeq(c) /\ Len(c) = Len(is) + Len(o)
       /\ (\A k \in 1..Len(is) : c[k] = is[k])
       /\ \A k \in 1..Len(o) : c[Len(is) + k] = o[k]
  <2>1. IsSeq(is) /\ IsSeq(o)
    BY <1>14, <1>16
  <2> QED
    BY <2>1, ConcatSeq
<1> HIDE DEF c
<1>18. Len(c) = Len(is) + 1 /\ Len(c) - 1 = Len(is) /\ Len(c) >= 1
  BY <1>9, <1>14, <1>16, <1>17
<1>19. c[Len(c)] = t
  <2>1. 1 \in 1..1
    OBVIOUS
  <2> QED
    BY <1>16, <1>17, <1>18, <2>1
<1>20. \A k \in 1..Len(c) - 1 : IsPlain(c[k], n)
  BY <1>11, <1>13, <1>14, <1>17, <1>18
<1>21. j.code = c
  BY <1>2 DEF c, o
<1>22. IsBlock(j, n, m)
  BY <1>2, <1>3, <1>14, <1>15, <1>17, <1>18, <1>19, <1>20, <1>21 DEF IsBlock
<1> QED
  BY <1>22 DEF j, n, m

LEMMA CompileFunc ==
  ASSUME NEW func, IsFunction(func)
  PROVE  IsCompiled(compile_func(func)) /\ Len(compile_func(func).args) = Len(func.params)
<1> DEFINE L == LocalNames(func)
           bs == func.blocks
           ps == func.params
           args == [i \in DOMAIN ps |-> compile_local(L, ps[i])]
           cs == [i \in DOMAIN bs |-> compile_block(func, L, bs[i])]
           j == compile_func(func)
<1>1. /\ func \in AFunction /\ IsInjective(ps) /\ bs # <<>>
      /\ \A b \in ToSet(bs) : /\ HasOperands(b.term) /\ HasTargets(func, b.term)
                              /\ \A i \in ToSet(b.instrs) : i.op # "phi" => HasOperands(i)
  BY DEF IsFunction
<1>2. j.locals = L /\ j.args = args /\ j.blocks = cs
  BY DEF compile_func
<1>3. bs \in Seq(ABlock) /\ ps \in Seq(STRING)
  BY <1>1 DEF AFunction
<1>4. /\ IsSeq(L)
      /\ \A k \in 1..Len(bs) :
           /\ bs[k].term.dest # None => Mem(bs[k].term.dest, L)
           /\ \A i \in 1..Len(bs[k].instrs) : bs[k].instrs[i].dest # None => Mem(bs[k].instrs[i].dest, L)
      /\ \A i \in 1..Len(ps) : Mem(ps[i], L)
  BY <1>1, LocalsMem
<1> HIDE DEF L, j
<1>5. IsSeq(bs) /\ Len(bs) \in Nat /\ DOMAIN bs = 1..Len(bs) /\ \A k \in 1..Len(bs) : bs[k] \in ABlock
  BY <1>3, SeqIn
<1>6. Len(bs) >= 1
  BY <1>1, <1>5, SeqFacts
<1>7. IsSeq(ps) /\ Len(ps) \in Nat /\ DOMAIN ps = 1..Len(ps)
  BY <1>3, SeqIn
<1>8. \A k \in 1..Len(bs) : bs[k] \in ToSet(bs)
  BY <1>5 DEF ToSet
<1>9. ASSUME NEW k \in 1..Len(bs)
      PROVE  IsBlock(compile_block(func, L, bs[k]), Len(L), Len(bs))
  <2> DEFINE b == bs[k]
  <2>1. b \in ABlock /\ HasOperands(b.term) /\ HasTargets(func, b.term)
    BY <1>1, <1>5, <1>8
  <2>2. \A i \in ToSet(b.instrs) : i.op # "phi" => HasOperands(i)
    BY <1>1, <1>8
  <2>3. /\ b.term.dest # None => Mem(b.term.dest, L)
        /\ \A i \in 1..Len(b.instrs) : b.instrs[i].dest # None => Mem(b.instrs[i].dest, L)
    BY <1>4
  <2> HIDE DEF b
  <2> QED
    BY <1>1, <1>4, <2>1, <2>2, <2>3, CompileBlock DEF b
<1>10. ASSUME NEW k \in 1..Len(ps)
       PROVE  compile_local(L, ps[k]) \in 0..(Len(L) - 1) /\ L[compile_local(L, ps[k]) + 1] = ps[k]
  BY <1>4, PositionIn DEF compile_local
<1>11. \A k, l \in 1..Len(ps) : ps[k] = ps[l] => k = l
  BY <1>1, <1>7 DEF IsInjective
<1>12. /\ args = [k \in 1..Len(ps) |-> args[k]]
       /\ \A k \in 1..Len(ps) : args[k] = compile_local(L, ps[k])
  BY <1>7
<1>13. cs = [k \in 1..Len(bs) |-> cs[k]] /\ \A k \in 1..Len(bs) : cs[k] = compile_block(func, L, bs[k])
  BY <1>5
<1> HIDE DEF args, cs, bs, ps
<1>14. IsSeq(args) /\ Len(args) = Len(ps) /\ IsSeq(cs) /\ Len(cs) = Len(bs)
  BY <1>5, <1>7, <1>12, <1>13, FunSeq
<1>15. AreNums(args, Len(L))
  <2>1. Distinct(args)
    <3>1. ASSUME NEW k \in 1..Len(ps), NEW l \in 1..Len(ps), args[k] = args[l]
          PROVE  k = l
      <4>1. ps[k] = L[args[k] + 1] /\ ps[l] = L[args[l] + 1]
        BY <1>10, <1>12
      <4> QED
        BY <1>11, <3>1, <4>1
    <3> QED
      BY <1>14, <3>1 DEF Distinct
  <2>2. \A k \in 1..Len(args) : args[k] \in 0..(Len(L) - 1)
    BY <1>10, <1>12, <1>14
  <2> QED
    BY <1>14, <2>1, <2>2 DEF AreNums
<1>16. \A k \in 1..Len(cs) : IsBlock(cs[k], Len(L), Len(cs))
  BY <1>9, <1>13, <1>14
<1>17. IsCompiled(j)
  BY <1>2, <1>4, <1>6, <1>14, <1>15, <1>16 DEF IsCompiled
<1> QED
  BY <1>2, <1>14, <1>17 DEF j, ps

\* compile_program gives code whose numbers are in range.
LEMMA Compiles ==
  ASSUME NEW p, IsProgram(p)
  PROVE  IsCode(compile_program(p))
<1> DEFINE cd == compile_program(p)
<1>1. /\ Entry \in DOMAIN p /\ p[Entry].kind = "c" /\ Len(p[Entry].params) = Len(MainParams)
      /\ \A a \in DOMAIN p : p[a] \in ANative \/ IsFunction(p[a])
  BY DEF IsProgram
<1>2. DOMAIN cd = DOMAIN p /\ \A a \in DOMAIN p : cd[a] = IF p[a].kind = "c" THEN compile_func(p[a]) ELSE p[a]
  BY DEF compile_program
<1> HIDE DEF cd
<1>3. \A a \in DOMAIN p : p[a].kind = "c" => IsFunction(p[a])
  <2>1. \A x \in ANative : x.kind # "c"
    BY DEF ANative
  <2> QED
    BY <1>1, <2>1
<1>4. Len(MainParams) = 2
  BY DEF MainParams
<1>5. \A a \in DOMAIN cd : cd[a].kind = "c" => IsCompiled(cd[a])
  BY <1>2, <1>3, CompileFunc
<1>6. cd[Entry].kind = "c" /\ Len(cd[Entry].args) = 2
  <2>1. cd[Entry] = compile_func(p[Entry]) /\ IsFunction(p[Entry])
    BY <1>1, <1>2, <1>3
  <2>2. compile_func(p[Entry]).kind = "c"
    BY DEF compile_func
  <2> QED
    BY <1>1, <1>4, <2>1, <2>2, CompileFunc
<1>7. IsCode(cd)
  BY <1>1, <1>2, <1>5, <1>6 DEF IsCode
<1> QED
  BY <1>7 DEF cd
=============================================================================
