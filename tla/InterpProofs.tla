---------------------------- MODULE InterpProofs ----------------------------
(***************************************************************************)
(* Proof that the reference counts of the free list (util/freelist.rs) are *)
(* exact however a thread decodes and resolves its thunks: for every set   *)
(* of programs, whatever they compute.                                     *)
(***************************************************************************)
EXTENDS ThunkProofs

-----------------------------------------------------------------------------
(* The inductive invariant                                                 *)

FrameFields == {"fun", "block", "origin", "pc", "temps", "st", "fn", "args", "n", "extra", "out"}

BlockOf(cd, fr) == cd[fr.fun].blocks[fr.block + 1]
InstrOf(cd, fr) == BlockOf(cd, fr).code[fr.pc]

\* Where a frame is.
Placed(cd, fr) ==
  /\ fr.fun \in DOMAIN cd /\ cd[fr.fun].kind = "c"
  /\ fr.block \in 0..(Len(cd[fr.fun].blocks) - 1) /\ fr.pc \in 0..Len(BlockOf(cd, fr).code)

\* Where a frame may hold references: at the stage fr.st of its instruction.
AtStage(cd, fr) ==
  CASE fr.st = "decode" -> fr.fn = <<>> /\ fr.args = <<>> /\ fr.extra = <<>> /\ fr.out = <<>>
    [] fr.st = "cond" -> /\ Len(fr.fn) = 1 /\ fr.args = <<>> /\ fr.extra = <<>> /\ fr.out = <<>>
                         /\ fr.pc >= 1 /\ InstrOf(cd, fr).op \in {"condbr", "switch"}
    [] OTHER ->
         /\ fr.pc >= 1 /\ InstrOf(cd, fr).op \in {"call", "invoke"}
         /\ fr.st \in {"func", "call", "args", "loop", "callback", "cbvalue", "take", "err"}
         /\ fr.st = "func" => Len(fr.fn) = 1
         /\ fr.st \in {"func", "call", "loop", "take"} => fr.extra = <<>>
         /\ IF fr.st \in {"cbvalue", "take"} THEN Len(fr.out) = 1 ELSE fr.out = <<>>
         /\ fr.st = "args" => fr.n \in Pos /\ Len(fr.extra) = 1 /\ fr.extra[1].cell = 0

IsFrame(cd, fr) ==
  DOMAIN fr = FrameFields /\ Placed(cd, fr) /\ HasRefs(cd, fr) /\ AtStage(cd, fr)

IsStack(cd, st) ==
  /\ IsSeq(st) /\ \A k \in 1..Len(st) : IsFrame(cd, st[k])
  /\ \A k \in 1..Len(st) - 1 : st[k].st \in {"call", "callback"}

IsRoot(st, rt) ==
  /\ DOMAIN rt = {"st", "deps", "out"} /\ IsRefs(rt.deps) /\ IsRefs(rt.out)
  /\ st # <<>> => rt.st = "call" /\ rt.out = <<>>
  /\ rt.st = "start" => st = <<>> /\ rt.deps = <<>> /\ rt.out = <<>>
  /\ rt.st = "value" => Len(rt.out) = 1

\* The references outside cells: in frames, in the thread, in the pipeline.
Others(bl, rt) == (bl \o rt.deps) \o rt.out
Outside(cd, st, th, bl, rt) == (StackRefs(cd, st) \o Others(bl, rt)) \o RefSeq(th)

Owns(cd, st, h, th, bl, rt) ==
  /\ IsStack(cd, st) /\ IsRoot(st, rt) /\ IsThunks(th) /\ IsRefs(bl)
  /\ Balanced(h, Outside(cd, st, th, bl, rt))

IInv ==
  /\ IsCode(code) /\ Owns(code, stack, heap, thunks, blocker, root)
  /\ ctl \in {"running", "waiting", "woken", "done"}
  /\ outcome \in {"run", "ok", "panic", "crash"}

LEMMA StackHasRefs ==
  ASSUME NEW cd, NEW st, IsStack(cd, st)
  PROVE  HaveRefs(cd, st) /\ IsSeq(st)
BY DEF IsStack, IsFrame, HaveRefs

LEMMA ThreeRefs ==
  ASSUME NEW s, NEW t, NEW u, IsRefs(s), IsRefs(t), IsRefs(u)
  PROVE  /\ IsRefs((s \o t) \o u)
         /\ \A c \in Pos : /\ Count((s \o t) \o u, c) = (Count(s, c) + Count(t, c)) + Count(u, c)
                           /\ Count(s, c) \in Nat /\ Count(t, c) \in Nat /\ Count(u, c) \in Nat
<1> DEFINE a == s \o t
<1>1. IsRefs(a) /\ \A c \in Pos : Count(a, c) = Count(s, c) + Count(t, c)
  BY RefsConcat, CountSum
<1> HIDE DEF a
<1>2. IsRefs(a \o u) /\ \A c \in Pos : Count(a \o u, c) = Count(a, c) + Count(u, c)
  BY <1>1, RefsConcat, CountSum
<1>3. \A c \in Pos : Count(s, c) \in Nat /\ Count(t, c) \in Nat /\ Count(u, c) \in Nat
  BY CountNat
<1> QED
  BY <1>1, <1>2, <1>3 DEF a

RootRefs(bl, rt) == IsRefs(bl) /\ IsRefs(rt.deps) /\ IsRefs(rt.out)

OthersCount(bl, rt, c) == (Count(bl, c) + Count(rt.deps, c)) + Count(rt.out, c)

LEMMA OthersRefs ==
  ASSUME NEW bl, NEW rt, RootRefs(bl, rt)
  PROVE  /\ IsRefs(Others(bl, rt))
         /\ \A c \in Pos : /\ Count(Others(bl, rt), c) = OthersCount(bl, rt, c)
                           /\ OthersCount(bl, rt, c) \in Nat
                           /\ Count(bl, c) \in Nat /\ Count(rt.deps, c) \in Nat /\ Count(rt.out, c) \in Nat
<1> DEFINE d == rt.deps
           o == rt.out
<1>1. IsRefs(bl) /\ IsRefs(d) /\ IsRefs(o)
  BY DEF RootRefs
<1> HIDE DEF d, o
<1>2. /\ IsRefs((bl \o d) \o o)
      /\ \A c \in Pos : /\ Count((bl \o d) \o o, c) = (Count(bl, c) + Count(d, c)) + Count(o, c)
                        /\ Count(bl, c) \in Nat /\ Count(d, c) \in Nat /\ Count(o, c) \in Nat
  BY <1>1, ThreeRefs
<1> QED
  BY <1>2 DEF Others, OthersCount, d, o

LEMMA OutsideRefs ==
  ASSUME NEW cd, NEW st, NEW th, NEW bl, NEW rt, HaveRefs(cd, st), IsThunks(th), RootRefs(bl, rt)
  PROVE  /\ IsRefs(Outside(cd, st, th, bl, rt))
         /\ \A c \in Pos :
              /\ Count(Outside(cd, st, th, bl, rt), c)
                   = (Count(StackRefs(cd, st), c) + OthersCount(bl, rt, c)) + Count(RefSeq(th), c)
              /\ Count(StackRefs(cd, st), c) \in Nat /\ OthersCount(bl, rt, c) \in Nat
              /\ Count(RefSeq(th), c) \in Nat
<1> DEFINE s == StackRefs(cd, st)
           t == RefSeq(th)
           o == Others(bl, rt)
<1>1. IsRefs(s)
  BY StackNat
<1>2. IsRefs(t)
  BY RefSeqRefs DEF IsThunks
<1>3. IsRefs(o) /\ \A c \in Pos : Count(o, c) = OthersCount(bl, rt, c)
  BY OthersRefs
<1> HIDE DEF s, t, o
<1>4. /\ IsRefs((s \o o) \o t)
      /\ \A c \in Pos : /\ Count((s \o o) \o t, c) = (Count(s, c) + Count(o, c)) + Count(t, c)
                        /\ Count(s, c) \in Nat /\ Count(o, c) \in Nat /\ Count(t, c) \in Nat
  BY <1>1, <1>2, <1>3, ThreeRefs
<1> QED
  BY <1>3, <1>4 DEF Outside, s, t, o

-----------------------------------------------------------------------------
(* The frame on top, and the references elsewhere                          *)

FrameRefs(cd, fr) == (((Locals(fr.temps, Size(cd, fr)) \o fr.fn) \o fr.args) \o fr.extra) \o fr.out

LEMMA FrameSum ==
  ASSUME NEW cd, NEW fr, HasRefs(cd, fr)
  PROVE  IsRefs(FrameRefs(cd, fr)) /\ \A c \in Pos : Count(FrameRefs(cd, fr), c) = FrameCount(cd, fr, c)
<1> DEFINE a == Locals(fr.temps, Size(cd, fr))
           b == fr.fn
           d == fr.args
           e == fr.extra
           o == fr.out
           u == (a \o b) \o d
<1>1. IsRefs(a) /\ IsRefs(b) /\ IsRefs(d) /\ IsRefs(e) /\ IsRefs(o)
  BY FrameNat DEF HasRefs
<1>2. FrameRefs(cd, fr) = (u \o e) \o o
  BY DEF FrameRefs
<1>3. \A c \in Pos : FrameCount(cd, fr, c) = (((Count(a, c) + Count(b, c)) + Count(d, c)) + Count(e, c)) + Count(o, c)
  BY DEF FrameCount
<1> HIDE DEF a, b, d, e, o
<1>4. IsRefs(u) /\ \A c \in Pos : Count(u, c) = (Count(a, c) + Count(b, c)) + Count(d, c)
  BY <1>1, ThreeRefs
<1> HIDE DEF u
<1>5. IsRefs((u \o e) \o o) /\ \A c \in Pos : Count((u \o e) \o o, c) = (Count(u, c) + Count(e, c)) + Count(o, c)
  BY <1>1, <1>4, ThreeRefs
<1> QED
  BY <1>2, <1>3, <1>4, <1>5

\* The references that are neither in the frame on top nor in the pipeline.
Elsewhere(cd, B, bl, rt) == StackRefs(cd, B) \o Others(bl, rt)

\* All references, X being those elsewhere.
Around(X, cd, fr, th) == (X \o FrameRefs(cd, fr)) \o RefSeq(th)

LEMMA AroundRefs ==
  ASSUME NEW X, NEW cd, NEW fr, NEW th, IsRefs(X), HasRefs(cd, fr), IsThunks(th)
  PROVE  /\ IsRefs(Around(X, cd, fr, th))
         /\ \A c \in Pos :
              /\ Count(Around(X, cd, fr, th), c) = (Count(X, c) + FrameCount(cd, fr, c)) + Count(RefSeq(th), c)
              /\ Count(X, c) \in Nat /\ Count(RefSeq(th), c) \in Nat
<1> DEFINE f == FrameRefs(cd, fr)
           t == RefSeq(th)
<1>1. IsRefs(f) /\ \A c \in Pos : Count(f, c) = FrameCount(cd, fr, c)
  BY FrameSum
<1>2. IsRefs(t)
  BY RefSeqRefs DEF IsThunks
<1> HIDE DEF f, t
<1>3. /\ IsRefs((X \o f) \o t)
      /\ \A c \in Pos : /\ Count((X \o f) \o t, c) = (Count(X, c) + Count(f, c)) + Count(t, c)
                        /\ Count(X, c) \in Nat /\ Count(t, c) \in Nat
  BY <1>1, <1>2, ThreeRefs
<1> QED
  BY <1>1, <1>3 DEF Around, f, t

Lowered(B) == \A k \in 1..Len(B) : B[k].st \in {"call", "callback"}

LEMMA ElsewhereRefs ==
  ASSUME NEW cd, NEW B, NEW bl, NEW rt, IsStack(cd, B), RootRefs(bl, rt)
  PROVE  /\ IsRefs(Elsewhere(cd, B, bl, rt))
         /\ \A c \in Pos :
              /\ Count(Elsewhere(cd, B, bl, rt), c) = Count(StackRefs(cd, B), c) + OthersCount(bl, rt, c)
              /\ Count(StackRefs(cd, B), c) \in Nat /\ OthersCount(bl, rt, c) \in Nat
<1> DEFINE s == StackRefs(cd, B)
           o == Others(bl, rt)
<1>1. IsRefs(s) /\ \A c \in Pos : Count(s, c) \in Nat
  BY StackNat, StackHasRefs
<1>2. IsRefs(o) /\ \A c \in Pos : Count(o, c) = OthersCount(bl, rt, c) /\ OthersCount(bl, rt, c) \in Nat
  BY OthersRefs
<1> HIDE DEF s, o
<1>3. IsRefs(s \o o) /\ \A c \in Pos : Count(s \o o, c) = Count(s, c) + Count(o, c)
  BY <1>1, <1>2, RefsConcat, CountSum
<1> QED
  BY <1>1, <1>2, <1>3 DEF Elsewhere, s, o

\* A stack that is not empty is its frame on top and frames that wait for it.
LEMMA StackSplit ==
  ASSUME NEW cd, NEW st, IsStack(cd, st), st # <<>>
  PROVE  /\ IsStack(cd, Front(st)) /\ Lowered(Front(st)) /\ IsFrame(cd, Last(st))
         /\ Append(Front(st), Last(st)) = st
<1> DEFINE B == Front(st)
           n == Len(st)
<1>1. n \in Nat /\ IsSeq(st)
  BY SeqFacts DEF IsStack
<1>2. /\ IsSeq(B) /\ Len(B) = n - 1 /\ n >= 1 /\ (\A i \in 1..n - 1 : B[i] = st[i])
      /\ Last(st) = st[n] /\ Append(B, Last(st)) = st
  BY <1>1, FrontSeq
<1> HIDE DEF B
<1>3. /\ \A k \in 1..n : IsFrame(cd, st[k])
      /\ \A k \in 1..n - 1 : st[k].st \in {"call", "callback"}
  BY DEF IsStack
<1> HIDE DEF n
<1>4. n \in 1..n /\ (\A k \in 1..n - 1 : k \in 1..n) /\ (\A k \in 1..(n - 1) - 1 : k \in 1..n - 1)
  BY <1>1, <1>2
<1>5. Lowered(B) /\ \A k \in 1..Len(B) : IsFrame(cd, B[k])
  BY <1>2, <1>3, <1>4 DEF Lowered
<1>6. \A k \in 1..Len(B) - 1 : B[k].st \in {"call", "callback"}
  BY <1>2, <1>3, <1>4
<1>7. IsStack(cd, B)
  BY <1>2, <1>5, <1>6 DEF IsStack
<1> QED
  BY <1>2, <1>3, <1>4, <1>5, <1>7 DEF B

LEMMA StackJoin ==
  ASSUME NEW cd, NEW B, NEW fr, IsStack(cd, B), Lowered(B), IsFrame(cd, fr)
  PROVE  IsStack(cd, Append(B, fr)) /\ Append(B, fr) # <<>>
<1> DEFINE st == Append(B, fr)
           n == Len(B)
<1>1. n \in Nat /\ IsSeq(B)
  BY SeqFacts DEF IsStack
<1>2. IsSeq(st) /\ Len(st) = n + 1 /\ st # <<>> /\ (\A i \in 1..n : st[i] = B[i]) /\ st[n + 1] = fr
  BY <1>1, AppendSeq
<1> HIDE DEF st
<1>3. (\A k \in 1..n : IsFrame(cd, B[k])) /\ \A k \in 1..n : B[k].st \in {"call", "callback"}
  BY DEF IsStack, Lowered
<1> HIDE DEF n
<1>4. (\A k \in 1..n + 1 : k \in 1..n \/ k = n + 1) /\ (n + 1) - 1 = n
  BY <1>1
<1>5. /\ \A k \in 1..Len(st) : IsFrame(cd, st[k])
      /\ \A k \in 1..Len(st) - 1 : st[k].st \in {"call", "callback"}
  BY <1>2, <1>3, <1>4
<1>6. IsStack(cd, st)
  BY <1>2, <1>5 DEF IsStack
<1> QED
  BY <1>2, <1>6 DEF st

LEMMA Enter ==
  ASSUME NEW cd, NEW st, NEW h, NEW th, NEW bl, NEW rt, Owns(cd, st, h, th, bl, rt), st # <<>>
  PROVE  /\ IsStack(cd, Front(st)) /\ Lowered(Front(st)) /\ IsFrame(cd, Last(st))
         /\ IsThunks(th) /\ RootRefs(bl, rt) /\ IsRoot(st, rt)
         /\ IsRefs(Elsewhere(cd, Front(st), bl, rt))
         /\ Balanced(h, Around(Elsewhere(cd, Front(st), bl, rt), cd, Last(st), th))
<1> DEFINE B == Front(st)
           fr == Last(st)
           X == Elsewhere(cd, B, bl, rt)
<1>1. IsStack(cd, st) /\ IsRoot(st, rt) /\ IsThunks(th) /\ IsRefs(bl) /\ Balanced(h, Outside(cd, st, th, bl, rt))
  BY DEF Owns
<1>2. RootRefs(bl, rt)
  BY <1>1 DEF RootRefs, IsRoot
<1>3. HaveRefs(cd, st)
  BY <1>1, StackHasRefs
<1>4. IsStack(cd, B) /\ Lowered(B) /\ IsFrame(cd, fr) /\ HasRefs(cd, fr)
  BY <1>1, StackSplit DEF IsFrame
<1>5. \A c \in Pos : Count(StackRefs(cd, st), c) = Count(StackRefs(cd, B), c) + FrameCount(cd, fr, c)
  BY <1>3, StackTop
<1>6. \A c \in Pos : /\ Count(Outside(cd, st, th, bl, rt), c)
                          = (Count(StackRefs(cd, st), c) + OthersCount(bl, rt, c)) + Count(RefSeq(th), c)
                     /\ OthersCount(bl, rt, c) \in Nat
  BY <1>1, <1>2, <1>3, OutsideRefs
<1>7. \A c \in Pos : FrameCount(cd, fr, c) \in Nat
  BY <1>4, FrameNat
<1>8. /\ IsRefs(X)
      /\ \A c \in Pos : /\ Count(X, c) = Count(StackRefs(cd, B), c) + OthersCount(bl, rt, c)
                        /\ Count(StackRefs(cd, B), c) \in Nat
  BY <1>2, <1>4, ElsewhereRefs
<1> HIDE DEF B, fr, X
<1>9. /\ IsRefs(Around(X, cd, fr, th))
      /\ \A c \in Pos :
           /\ Count(Around(X, cd, fr, th), c) = (Count(X, c) + FrameCount(cd, fr, c)) + Count(RefSeq(th), c)
           /\ Count(RefSeq(th), c) \in Nat
  BY <1>1, <1>4, <1>8, AroundRefs
<1>10. SameCount(Outside(cd, st, th, bl, rt), Around(X, cd, fr, th))
  BY <1>5, <1>6, <1>7, <1>8, <1>9 DEF SameCount
<1>11. Balanced(h, Around(X, cd, fr, th))
  BY <1>1, <1>9, <1>10, Rebalance
<1> QED
  BY <1>1, <1>2, <1>4, <1>8, <1>11 DEF B, fr, X

LEMMA Leave ==
  ASSUME NEW cd, NEW B, NEW fr, NEW h, NEW th, NEW bl, NEW rt,
         IsStack(cd, B), Lowered(B), IsFrame(cd, fr), IsThunks(th), RootRefs(bl, rt),
         IsRoot(Append(B, fr), rt), Balanced(h, Around(Elsewhere(cd, B, bl, rt), cd, fr, th))
  PROVE  Owns(cd, Append(B, fr), h, th, bl, rt)
<1> DEFINE st == Append(B, fr)
           X == Elsewhere(cd, B, bl, rt)
<1>1. IsStack(cd, st)
  BY StackJoin
<1>2. HasRefs(cd, fr) /\ HaveRefs(cd, B)
  BY StackHasRefs DEF IsFrame
<1>3. /\ HaveRefs(cd, st)
      /\ \A c \in Pos : Count(StackRefs(cd, st), c) = Count(StackRefs(cd, B), c) + FrameCount(cd, fr, c)
  BY <1>2, StackAppend
<1>4. IsRoot(st, rt) /\ Balanced(h, Around(X, cd, fr, th))
  OBVIOUS
<1> HIDE DEF st
<1>5. /\ IsRefs(Outside(cd, st, th, bl, rt))
      /\ \A c \in Pos :
           /\ Count(Outside(cd, st, th, bl, rt), c)
                = (Count(StackRefs(cd, st), c) + OthersCount(bl, rt, c)) + Count(RefSeq(th), c)
           /\ OthersCount(bl, rt, c) \in Nat
  BY <1>3, OutsideRefs
<1>6. \A c \in Pos : FrameCount(cd, fr, c) \in Nat
  BY <1>2, FrameNat
<1>7. /\ IsRefs(X)
      /\ \A c \in Pos : /\ Count(X, c) = Count(StackRefs(cd, B), c) + OthersCount(bl, rt, c)
                        /\ Count(StackRefs(cd, B), c) \in Nat
  BY ElsewhereRefs
<1> HIDE DEF X
<1>8. \A c \in Pos :
           /\ Count(Around(X, cd, fr, th), c) = (Count(X, c) + FrameCount(cd, fr, c)) + Count(RefSeq(th), c)
           /\ Count(RefSeq(th), c) \in Nat
  BY <1>2, <1>7, AroundRefs
<1>9. SameCount(Around(X, cd, fr, th), Outside(cd, st, th, bl, rt))
  BY <1>3, <1>5, <1>6, <1>7, <1>8 DEF SameCount
<1>10. Balanced(h, Outside(cd, st, th, bl, rt))
  BY <1>4, <1>5, <1>9, Rebalance
<1>11. IsRefs(bl)
  BY DEF RootRefs
<1> QED
  BY <1>1, <1>4, <1>10, <1>11 DEF Owns, st

\* What the thread no longer waits for is dropped.
LEMMA Unblocks ==
  ASSUME NEW cd, NEW st, NEW h, NEW th, NEW bl, NEW rt, Owns(cd, st, h, th, bl, rt)
  PROVE  Owns(cd, st, drop_all(h, bl), th, <<>>, rt)
<1> DEFINE N == <<>>
           Q == Outside(cd, st, th, N, rt)
<1>1. IsStack(cd, st) /\ IsRoot(st, rt) /\ IsThunks(th) /\ IsRefs(bl) /\ Balanced(h, Outside(cd, st, th, bl, rt))
  BY DEF Owns
<1>2. IsRefs(N) /\ \A c \in Pos : Count(N, c) = 0
  BY RefsEmpty, CountEmpty
<1> HIDE DEF N
<1>3. RootRefs(bl, rt) /\ RootRefs(N, rt) /\ HaveRefs(cd, st)
  BY <1>1, <1>2, StackHasRefs DEF RootRefs, IsRoot
<1>4. \A c \in Pos : /\ Count(Outside(cd, st, th, bl, rt), c)
                          = (Count(StackRefs(cd, st), c) + OthersCount(bl, rt, c)) + Count(RefSeq(th), c)
                     /\ Count(StackRefs(cd, st), c) \in Nat /\ Count(RefSeq(th), c) \in Nat
  BY <1>1, <1>3, OutsideRefs
<1>5. /\ IsRefs(Q)
      /\ \A c \in Pos : Count(Q, c) = (Count(StackRefs(cd, st), c) + OthersCount(N, rt, c)) + Count(RefSeq(th), c)
  BY <1>1, <1>3, OutsideRefs
<1>6. \A c \in Pos : Count(bl, c) \in Nat /\ Count(rt.deps, c) \in Nat /\ Count(rt.out, c) \in Nat
  BY <1>3, OthersRefs
<1>7. \A c \in Pos : OthersCount(bl, rt, c) = OthersCount(N, rt, c) + Count(bl, c) /\ OthersCount(N, rt, c) \in Nat
  BY <1>2, <1>6 DEF OthersCount
<1> HIDE DEF Q
<1>8. IsRefs(Q \o bl) /\ \A c \in Pos : Count(Q \o bl, c) = Count(Q, c) + Count(bl, c)
  BY <1>1, <1>5, RefsConcat, CountSum
<1>9. SameCount(Outside(cd, st, th, bl, rt), Q \o bl)
  BY <1>4, <1>5, <1>6, <1>7, <1>8 DEF SameCount
<1>10. Balanced(h, Q \o bl)
  BY <1>1, <1>8, <1>9, Rebalance
<1>11. Balanced(drop_all(h, bl), Q)
  BY <1>1, <1>5, <1>10, BalancedDropAll
<1> QED
  BY <1>1, <1>2, <1>11 DEF Owns, Q, N

-----------------------------------------------------------------------------
(* A frame at its instruction                                              *)

LEMMA BlockAt ==
  ASSUME NEW cd, NEW fr, IsCode(cd), Placed(cd, fr)
  PROVE  /\ IsBlock(BlockOf(cd, fr), Size(cd, fr), Len(cd[fr.fun].blocks))
         /\ IsSeq(cd[fr.fun].locals) /\ Size(cd, fr) \in Nat
         /\ IsSeq(cd[fr.fun].blocks) /\ Len(cd[fr.fun].blocks) \in Nat
         /\ IsSeq(BlockOf(cd, fr).code) /\ Len(BlockOf(cd, fr).code) \in Nat
<1> DEFINE f == cd[fr.fun]
<1>1. IsCompiled(f)
  BY DEF IsCode, Placed
<1>2. IsSeq(f.locals) /\ Len(f.locals) \in Nat /\ IsSeq(f.blocks) /\ Len(f.blocks) \in Nat
  BY <1>1, SeqFacts DEF IsCompiled
<1>3. fr.block \in 0..(Len(f.blocks) - 1)
  BY DEF Placed
<1> HIDE DEF f
<1>4. fr.block + 1 \in 1..Len(f.blocks)
  BY <1>2, <1>3
<1>5. IsBlock(f.blocks[fr.block + 1], Len(f.locals), Len(f.blocks))
  BY <1>1, <1>4 DEF IsCompiled
<1>6. IsBlock(BlockOf(cd, fr), Size(cd, fr), Len(f.blocks))
  BY <1>5 DEF BlockOf, Size, f
<1>7. IsSeq(BlockOf(cd, fr).code) /\ Len(BlockOf(cd, fr).code) \in Nat
  BY <1>6, SeqFacts DEF IsBlock
<1> QED
  BY <1>2, <1>6, <1>7 DEF f, Size

\* The instruction at pc, and what follows it.
LEMMA InstrAt ==
  ASSUME NEW cd, NEW fr, IsCode(cd), Placed(cd, fr), fr.pc # 0
  PROVE  /\ IsInstr(InstrOf(cd, fr), Size(cd, fr))
         /\ InstrOf(cd, fr).op \in PlainOps => fr.pc + 1 \in 0..Len(BlockOf(cd, fr).code)
         /\ InstrOf(cd, fr).op \in TermOps => IsTerm(InstrOf(cd, fr), Size(cd, fr), Len(cd[fr.fun].blocks))
<1> DEFINE b == BlockOf(cd, fr)
           l == Len(b.code)
           n == Size(cd, fr)
           m == Len(cd[fr.fun].blocks)
           i == b.code[fr.pc]
<1>1. IsBlock(b, n, m) /\ l \in Nat
  BY BlockAt
<1>2. fr.pc \in 0..l
  BY DEF Placed
<1>3. InstrOf(cd, fr) = i
  BY DEF InstrOf
<1> HIDE DEF b, n, m
<1>4. l >= 1 /\ (\A k \in 1..l - 1 : IsPlain(b.code[k], n)) /\ IsTerm(b.code[l], n, m)
  BY <1>1 DEF IsBlock
<1> HIDE DEF l
<1>5. \A x : ~(x \in PlainOps /\ x \in TermOps)
  BY DEF PlainOps, TermOps
<1>6. CASE fr.pc = l
  <2>1. IsTerm(i, n, m) /\ i.op \in TermOps /\ IsInstr(i, n)
    BY <1>4, <1>6 DEF IsTerm
  <2> QED
    BY <1>3, <1>5, <2>1 DEF n, m
<1>7. CASE fr.pc # l
  <2>1. fr.pc \in 1..l - 1 /\ fr.pc + 1 \in 0..l
    BY <1>1, <1>2, <1>7
  <2>2. i.op \in PlainOps /\ IsInstr(i, n)
    BY <1>4, <2>1 DEF IsPlain
  <2> HIDE DEF i
  <2> QED
    BY <1>3, <1>5, <2>1, <2>2 DEF n, l, b
<1> QED
  BY <1>6, <1>7

\* A terminator's targets are blocks.
LEMMA TargetAt ==
  ASSUME NEW t, NEW n, NEW m, NEW k \in 1..Len(t.targets), IsTerm(t, n, m)
  PROVE  t.targets[k] \in 0..(m - 1)
BY DEF IsTerm

-----------------------------------------------------------------------------
(* Frames, field by field                                                  *)

\* g is fr, but for what its instruction changes.
FrameIs(g, fr, temps, pc, st, fn, args, extra, out) ==
  /\ DOMAIN g = FrameFields
  /\ g.fun = fr.fun /\ g.block = fr.block
  /\ g.temps = temps /\ g.pc = pc /\ g.st = st /\ g.fn = fn /\ g.args = args /\ g.extra = extra /\ g.out = out

\* g is fr at the beginning of a block.
JumpIs(g, fr, temps, target) ==
  /\ DOMAIN g = FrameFields
  /\ g.fun = fr.fun /\ g.block = target
  /\ g.temps = temps /\ g.pc = 0 /\ g.st = "decode"
  /\ g.fn = <<>> /\ g.args = <<>> /\ g.extra = <<>> /\ g.out = <<>>

LEMMA FrameMoves ==
  ASSUME NEW cd, NEW fr, NEW g, NEW temps, NEW pc, NEW st, NEW fn, NEW args, NEW extra, NEW out,
         IsFrame(cd, fr), FrameIs(g, fr, temps, pc, st, fn, args, extra, out),
         IsTemps(temps, Size(cd, fr)), pc \in 0..Len(BlockOf(cd, fr).code),
         IsRefs(fn), IsRefs(args), IsRefs(extra), IsRefs(out)
  PROVE  /\ DOMAIN g = FrameFields /\ Placed(cd, g) /\ HasRefs(cd, g)
         /\ BlockOf(cd, g) = BlockOf(cd, fr) /\ Size(cd, g) = Size(cd, fr)
         /\ pc = fr.pc => InstrOf(cd, g) = InstrOf(cd, fr)
         /\ \A c \in Pos :
              FrameCount(cd, g, c) = (((Count(Locals(temps, Size(cd, fr)), c) + Count(fn, c)) + Count(args, c))
                                       + Count(extra, c)) + Count(out, c)
<1>1. /\ DOMAIN g = FrameFields /\ g.fun = fr.fun /\ g.block = fr.block
      /\ g.temps = temps /\ g.pc = pc /\ g.fn = fn /\ g.args = args /\ g.extra = extra /\ g.out = out
  BY DEF FrameIs
<1>2. BlockOf(cd, g) = BlockOf(cd, fr) /\ Size(cd, g) = Size(cd, fr)
  BY <1>1 DEF BlockOf, Size
<1>3. Placed(cd, g)
  BY <1>1, <1>2 DEF Placed, IsFrame
<1>4. HasRefs(cd, g)
  BY <1>1, <1>2 DEF HasRefs, IsFrame
<1>5. pc = fr.pc => InstrOf(cd, g) = InstrOf(cd, fr)
  BY <1>1, <1>2 DEF InstrOf
<1>6. \A c \in Pos :
        FrameCount(cd, g, c) = (((Count(Locals(temps, Size(cd, fr)), c) + Count(fn, c)) + Count(args, c))
                                 + Count(extra, c)) + Count(out, c)
  BY <1>1, <1>2 DEF FrameCount
<1> QED
  BY <1>1, <1>2, <1>3, <1>4, <1>5, <1>6

\* A frame that holds nothing but its locals.
LEMMA FrameDecodes ==
  ASSUME NEW cd, NEW fr, NEW g, NEW temps, NEW pc, IsFrame(cd, fr),
         FrameIs(g, fr, temps, pc, "decode", <<>>, <<>>, <<>>, <<>>),
         IsTemps(temps, Size(cd, fr)), pc \in 0..Len(BlockOf(cd, fr).code)
  PROVE  /\ IsFrame(cd, g)
         /\ \A c \in Pos : FrameCount(cd, g, c) = Count(Locals(temps, Size(cd, fr)), c)
<1> DEFINE N == <<>>
           n == Size(cd, fr)
<1>1. IsRefs(N) /\ \A c \in Pos : Count(N, c) = 0
  BY RefsEmpty, CountEmpty
<1>2. FrameIs(g, fr, temps, pc, "decode", N, N, N, N)
  OBVIOUS
<1>3. AtStage(cd, g)
  BY DEF AtStage, FrameIs
<1> HIDE DEF N
<1>4. /\ DOMAIN g = FrameFields /\ Placed(cd, g) /\ HasRefs(cd, g)
      /\ \A c \in Pos : FrameCount(cd, g, c) = (((Count(Locals(temps, n), c) + Count(N, c)) + Count(N, c))
                                                 + Count(N, c)) + Count(N, c)
  BY <1>1, <1>2, FrameMoves
<1>5. n \in Nat
  BY SeqFacts DEF IsFrame, HasRefs, Size
<1>6. \A c \in Pos : Count(Locals(temps, n), c) \in Nat
  BY <1>5, LocalsRefs
<1>7. \A c \in Pos : FrameCount(cd, g, c) = Count(Locals(temps, n), c)
  BY <1>1, <1>4, <1>6
<1> QED
  BY <1>3, <1>4, <1>7 DEF IsFrame

LEMMA FrameJumps ==
  ASSUME NEW cd, NEW fr, NEW g, NEW temps, NEW target, IsCode(cd), IsFrame(cd, fr),
         JumpIs(g, fr, temps, target),
         IsTemps(temps, Size(cd, fr)), target \in 0..(Len(cd[fr.fun].blocks) - 1)
  PROVE  /\ IsFrame(cd, g)
         /\ \A c \in Pos : FrameCount(cd, g, c) = Count(Locals(temps, Size(cd, fr)), c)
<1> DEFINE N == <<>>
           n == Size(cd, fr)
<1>1. IsRefs(N) /\ \A c \in Pos : Count(N, c) = 0
  BY RefsEmpty, CountEmpty
<1>2. /\ DOMAIN g = FrameFields /\ g.fun = fr.fun /\ g.block = target
      /\ g.temps = temps /\ g.pc = 0 /\ g.st = "decode" /\ g.fn = N /\ g.args = N /\ g.extra = N /\ g.out = N
  BY DEF JumpIs
<1>3. AtStage(cd, g)
  BY <1>2 DEF AtStage
<1> HIDE DEF N
<1>4. Size(cd, g) = n
  BY <1>2 DEF Size
<1>5. Placed(cd, g)
  <2>1. fr.fun \in DOMAIN cd /\ cd[fr.fun].kind = "c"
    BY DEF IsFrame, Placed
  <2>2. IsCompiled(cd[fr.fun])
    BY <2>1 DEF IsCode
  <2>3. IsSeq(cd[fr.fun].blocks) /\ Len(cd[fr.fun].blocks) \in Nat
    BY <2>2, SeqFacts DEF IsCompiled
  <2>4. target + 1 \in 1..Len(cd[fr.fun].blocks)
    BY <2>3
  <2>5. IsSeq(BlockOf(cd, g).code)
    BY <1>2, <2>2, <2>4 DEF IsCompiled, IsBlock, BlockOf
  <2>6. 0 \in 0..Len(BlockOf(cd, g).code)
    BY <2>5, SeqFacts
  <2> QED
    BY <1>2, <2>1, <2>6 DEF Placed
<1>6. HasRefs(cd, g)
  BY <1>1, <1>2, <1>4 DEF HasRefs, IsFrame
<1>7. n \in Nat
  BY SeqFacts DEF IsFrame, HasRefs, Size
<1>8. \A c \in Pos : Count(Locals(temps, n), c) \in Nat
  BY <1>7, LocalsRefs
<1>9. \A c \in Pos : FrameCount(cd, g, c) = Count(Locals(temps, n), c)
  BY <1>1, <1>2, <1>4, <1>8 DEF FrameCount
<1> QED
  BY <1>2, <1>3, <1>5, <1>6, <1>9 DEF IsFrame

\* The references around g are the references Q.
LEMMA Arrange ==
  ASSUME NEW X, NEW cd, NEW g, NEW h, NEW th, NEW Q, IsRefs(X), HasRefs(cd, g), IsThunks(th), Balanced(h, Q),
         \A c \in Pos : Count(Q, c) = (Count(X, c) + FrameCount(cd, g, c)) + Count(RefSeq(th), c)
  PROVE  Balanced(h, Around(X, cd, g, th))
<1>1. /\ IsRefs(Around(X, cd, g, th))
      /\ \A c \in Pos :
           Count(Around(X, cd, g, th), c) = (Count(X, c) + FrameCount(cd, g, c)) + Count(RefSeq(th), c)
  BY AroundRefs
<1>2. SameCount(Q, Around(X, cd, g, th))
  BY <1>1 DEF SameCount
<1> QED
  BY <1>1, <1>2, Rebalance

\* The other way round.
LEMMA Disarrange ==
  ASSUME NEW X, NEW cd, NEW g, NEW h, NEW th, NEW Q, IsRefs(X), HasRefs(cd, g), IsThunks(th), IsRefs(Q),
         Balanced(h, Around(X, cd, g, th)),
         \A c \in Pos : Count(Q, c) = (Count(X, c) + FrameCount(cd, g, c)) + Count(RefSeq(th), c)
  PROVE  Balanced(h, Q)
<1>1. \A c \in Pos :
        Count(Around(X, cd, g, th), c) = (Count(X, c) + FrameCount(cd, g, c)) + Count(RefSeq(th), c)
  BY AroundRefs
<1>2. SameCount(Around(X, cd, g, th), Q)
  BY <1>1 DEF SameCount
<1> QED
  BY <1>2, Rebalance

\* A frame begins to decode: only its locals hold references.
LEMMA DecodeBegins ==
  ASSUME NEW X, NEW cd, NEW fr, NEW h, NEW th, IsRefs(X), IsFrame(cd, fr), fr.st = "decode", IsThunks(th),
         Balanced(h, Around(X, cd, fr, th))
  PROVE  LET L == Locals(fr.temps, Size(cd, fr))
         IN /\ Decoded([heap |-> h, thunks |-> th, refs |-> <<>>], X \o L)
            /\ HasTemps(fr.temps, X \o L)
            /\ Size(cd, fr) \in Nat /\ IsTemps(fr.temps, Size(cd, fr))
            /\ fr.fn = <<>> /\ fr.args = <<>> /\ fr.extra = <<>> /\ fr.out = <<>>
<1> DEFINE n == Size(cd, fr)
           L == Locals(fr.temps, n)
           N == <<>>
           R == X \o L
           s == [heap |-> h, thunks |-> th, refs |-> N]
           Q == Held(R, th, N)
<1>1. fr.fn = N /\ fr.args = N /\ fr.extra = N /\ fr.out = N
  BY DEF IsFrame, AtStage
<1>2. HasRefs(cd, fr) /\ IsTemps(fr.temps, n)
  BY DEF IsFrame, HasRefs
<1>3. n \in Nat /\ IsRefs(L) /\ \A c \in Pos : Count(L, c) \in Nat
  BY <1>2, FrameNat
<1>4. IsRefs(N) /\ \A c \in Pos : Count(N, c) = 0
  BY RefsEmpty, CountEmpty
<1>5. \A c \in Pos : FrameCount(cd, fr, c) = Count(L, c)
  <2>1. \A c \in Pos : FrameCount(cd, fr, c) = (((Count(L, c) + Count(N, c)) + Count(N, c)) + Count(N, c)) + Count(N, c)
    BY <1>1 DEF FrameCount
  <2> HIDE DEF L, N
  <2> QED
    BY <1>3, <1>4, <2>1
<1> HIDE DEF L, N
<1>6. IsRefs(R) /\ \A c \in Pos : Count(R, c) = Count(X, c) + Count(L, c) /\ Count(X, c) \in Nat
  BY <1>3, RefsConcat, CountSum, CountNat
<1> HIDE DEF R
<1>7. /\ IsRefs(Q)
      /\ \A c \in Pos : Count(Q, c) = (Count(R, c) + Count(RefSeq(th), c)) + Count(N, c) /\ Count(RefSeq(th), c) \in Nat
  BY <1>4, <1>6, HeldCount DEF IsThunks
<1> HIDE DEF Q
<1>8. \A c \in Pos : Count(Q, c) = (Count(X, c) + FrameCount(cd, fr, c)) + Count(RefSeq(th), c)
  BY <1>3, <1>4, <1>5, <1>6, <1>7
<1>9. Balanced(h, Q)
  BY <1>2, <1>7, <1>8, Disarrange
<1>10. IsState(s)
  BY <1>4 DEF IsState
<1>11. Decoded(s, R)
  BY <1>6, <1>9, <1>10 DEF Decoded, Q
<1>12. HasTemps(fr.temps, R)
  <2>1. ASSUME NEW i \in DOMAIN fr.temps
        PROVE  fr.temps[i].cell \in Nat /\ (fr.temps[i].cell # 0 => Count(R, fr.temps[i].cell) >= 1)
    <3>1. fr.temps[i].cell \in Nat
      BY <1>2 DEF IsTemps
    <3>2. ASSUME fr.temps[i].cell # 0
          PROVE  Count(R, fr.temps[i].cell) >= 1
      <4>1. fr.temps[i].cell \in Pos
        BY <3>1, <3>2 DEF Pos
      <4>2. Count(L, fr.temps[i].cell) >= 1
        BY <1>2, <1>3, <3>2, TempsPart DEF L
      <4> QED
        BY <1>3, <1>6, <4>1, <4>2
    <3> QED
      BY <3>1, <3>2
  <2> QED
    BY <2>1 DEF HasTemps
<1> QED
  BY <1>1, <1>2, <1>3, <1>11, <1>12 DEF R, L, N

\* The frame on top becomes g.
LEMMA Replaced ==
  ASSUME NEW cd, NEW st, NEW h0, NEW th0, NEW bl, NEW rt, NEW g, NEW h, NEW th,
         Owns(cd, st, h0, th0, bl, rt), st # <<>>, IsFrame(cd, g), IsThunks(th),
         Balanced(h, Around(Elsewhere(cd, Front(st), bl, rt), cd, g, th))
  PROVE  Owns(cd, Append(Front(st), g), h, th, bl, rt)
<1>1. IsStack(cd, Front(st)) /\ Lowered(Front(st)) /\ RootRefs(bl, rt) /\ IsRoot(st, rt)
  BY Enter
<1>2. IsRoot(Append(Front(st), g), rt)
  BY <1>1, StackJoin DEF IsRoot
<1> QED
  BY <1>1, <1>2, Leave

\* The frame on top is at an instruction of its block.
LEMMA AtInstr ==
  ASSUME IsCode(code), IsFrame(code, Top), Top.pc # 0
  PROVE  /\ I = InstrOf(code, Top) /\ IsInstr(I, Size(code, Top)) /\ IsSeq(I.operands)
         /\ I.op \in PlainOps => Top.pc + 1 \in 0..Len(BlockOf(code, Top).code)
         /\ I.op \in TermOps => IsTerm(I, Size(code, Top), Len(code[Top.fun].blocks))
<1>1. I = InstrOf(code, Top)
  BY DEF I, CurrentBlock, InstrOf, BlockOf
<1> HIDE DEF I
<1>2. /\ IsInstr(I, Size(code, Top))
      /\ I.op \in PlainOps => Top.pc + 1 \in 0..Len(BlockOf(code, Top).code)
      /\ I.op \in TermOps => IsTerm(I, Size(code, Top), Len(code[Top.fun].blocks))
  BY <1>1, InstrAt DEF IsFrame
<1> QED
  BY <1>1, <1>2 DEF IsInstr

LEMMA HasOperandsAt ==
  ASSUME IsInstr(I, Size(code, Top)), HasLocals
  PROVE  IsOperands(Top, I.operands)
<1>1. IsSeq(I.operands) /\ \A k \in 1..Len(I.operands) : IsOperand(I.operands[k])
  BY DEF IsInstr
<1>2. \A k \in 1..Len(I.operands) : I.operands[k] \in ToSet(I.operands)
  BY <1>1, SeqFacts DEF ToSet
<1>3. \A k \in 1..Len(I.operands) : HasLocal(Top, I.operands[k])
  BY <1>2 DEF HasLocals
<1> QED
  BY <1>1, <1>3 DEF IsOperands

\* What the frame on top decodes, with the references elsewhere and its locals as they are.
LEMMA DecodesOperands ==
  ASSUME NEW ops, IInv, AtCode(ops)
  PROVE  LET X == Elsewhere(code, Below, blocker, root)
             n == Size(code, Top)
             s == decode_operands(State, Top, I.operands)
         IN /\ IsCode(code) /\ Owns(code, stack, heap, thunks, blocker, root) /\ stack # <<>>
            /\ IsFrame(code, Top) /\ IsRefs(X) /\ n \in Nat /\ IsTemps(Top.temps, n) /\ IsThunks(thunks)
            /\ Top.st = "decode" /\ Top.pc # 0 /\ I.op \in ops
            /\ Top.fn = <<>> /\ Top.args = <<>> /\ Top.extra = <<>> /\ Top.out = <<>>
            /\ Balanced(heap, Around(X, code, Top, thunks))
            /\ Decoded(s, X \o Locals(Top.temps, n)) /\ Len(s.refs) = Len(I.operands)
<1> DEFINE X == Elsewhere(code, Below, blocker, root)
           n == Size(code, Top)
           s == decode_operands(State, Top, I.operands)
           R == X \o Locals(Top.temps, n)
<1>1. /\ stack # <<>> /\ Top.st = "decode" /\ Top.pc > 0 /\ I.op \in ops /\ HasLocals
  BY DEF AtCode, Decoding
<1>2. IsCode(code) /\ Owns(code, stack, heap, thunks, blocker, root)
  BY DEF IInv
<1>3. /\ IsFrame(code, Top) /\ IsThunks(thunks) /\ IsRefs(X)
      /\ Balanced(heap, Around(X, code, Top, thunks))
  BY <1>1, <1>2, Enter DEF Top, Below
<1>4. Top.pc # 0
  BY <1>1
<1>5. IsInstr(I, n)
  BY <1>2, <1>3, <1>4, AtInstr
<1>6. IsOperands(Top, I.operands)
  BY <1>1, <1>5, HasOperandsAt
<1> HIDE DEF X
<1>7. /\ Decoded([heap |-> heap, thunks |-> thunks, refs |-> <<>>], R) /\ HasTemps(Top.temps, R)
      /\ n \in Nat /\ IsTemps(Top.temps, n)
      /\ Top.fn = <<>> /\ Top.args = <<>> /\ Top.extra = <<>> /\ Top.out = <<>>
  BY <1>1, <1>3, DecodeBegins
<1>8. Decoded(State, R) /\ State.refs = <<>>
  BY <1>7 DEF State
<1> HIDE DEF R
<1>9. Decoded(s, R) /\ Len(s.refs) = Len(State.refs) + Len(I.operands)
  <2> DEFINE o == I.operands
             fr == Top
             z == State
  <2>1. LocalsIn(fr, R)
    BY <1>7 DEF LocalsIn
  <2>2. IsOperands(fr, o)
    BY <1>6
  <2>3. Decoded(z, R)
    BY <1>8
  <2> HIDE DEF o, fr, z
  <2>4. Decoded(decode_operands(z, fr, o), R) /\ Extends(decode_operands(z, fr, o), z, o)
    BY <2>1, <2>2, <2>3, Decodes
  <2> QED
    BY <2>4 DEF o, fr, z, Extends
<1>10. Len(I.operands) \in Nat
  BY <1>5, SeqFacts DEF IsInstr
<1>11. Len(s.refs) = Len(I.operands)
  BY <1>8, <1>9, <1>10, EmptyIsSeq
<1> QED
  BY <1>1, <1>2, <1>3, <1>4, <1>7, <1>9, <1>11 DEF R, X

\* A thunk is declared and assigned.
LEMMA DeclareAssigns ==
  ASSUME NEW X, NEW n \in Nat, NEW temps, NEW s, NEW t, NEW dest \in 0..(n - 1) \cup {NoLocal},
         IsRefs(X), IsTemps(temps, n), IsState(s), s.refs = <<>>, IsThunk(t),
         Balanced(s.heap, Held(X \o Locals(temps, n), s.thunks, <<>>) \o Holds(t))
  PROVE  LET d == declare(s, t)
             a == assigned(d.heap, temps, dest, d.refs[1])
         IN /\ IsThunks(d.thunks) /\ IsTemps(a.temps, n)
            /\ Balanced(a.heap, (X \o RefSeq(d.thunks)) \o Locals(a.temps, n))
<1> DEFINE L == Locals(temps, n)
           R == X \o L
           d == declare(s, t)
           th == d.thunks
           u == RefSeq(th)
           x == d.refs[1]
           o == <<x>>
           Y == X \o u
           a == assigned(d.heap, temps, dest, x)
<1>1. IsRefs(L) /\ \A c \in Pos : Count(L, c) \in Nat
  BY LocalsRefs
<1> HIDE DEF L
<1>2. IsRefs(R) /\ \A c \in Pos : Count(R, c) = Count(X, c) + Count(L, c) /\ Count(X, c) \in Nat
  BY <1>1, RefsConcat, CountSum, CountNat
<1>3. Balanced(s.heap, Held(R, s.thunks, s.refs) \o Holds(t))
  BY DEF L
<1> HIDE DEF R
<1>4. Decoded(d, R) /\ \E k \in Pos : d.refs = Append(s.refs, Ref(k))
  BY <1>2, <1>3, Declares
<1> HIDE DEF d
<1>5. d.refs = o /\ x.cell \in Nat
  <2>1. PICK k \in Pos : d.refs = Append(<<>>, Ref(k))
    BY <1>4
  <2>2. d.refs = <<Ref(k)>> /\ x = Ref(k)
    BY <2>1
  <2> QED
    BY <2>2 DEF Ref, Pos
<1>6. IsThunks(th) /\ IsPos(th) /\ Balanced(d.heap, Held(R, th, o))
  BY <1>4, <1>5 DEF Decoded, IsState, IsThunks
<1> HIDE DEF x
<1>7. IsRefs(o) /\ \A c \in Pos : Count(o, c) \in Nat
  BY <1>5, RefsOne, CountNat
<1> HIDE DEF o, th
<1>8. \A c \in Pos : Count(Held(R, th, o), c) = (Count(R, c) + Count(u, c)) + Count(o, c)
  BY <1>2, <1>6, <1>7, HeldCount
<1>9. IsRefs(u) /\ \A c \in Pos : Count(u, c) \in Nat
  BY <1>6, RefSeqRefs, CountNat
<1> HIDE DEF u
<1>10. IsRefs(Y) /\ \A c \in Pos : Count(Y, c) = Count(X, c) + Count(u, c)
  BY <1>9, RefsConcat, CountSum
<1> HIDE DEF Y
<1>11. /\ IsRefs((Y \o L) \o o)
       /\ \A c \in Pos : Count((Y \o L) \o o, c) = (Count(Y, c) + Count(L, c)) + Count(o, c)
  BY <1>1, <1>7, <1>10, ThreeRefs
<1>12. SameCount(Held(R, th, o), (Y \o L) \o o)
  BY <1>1, <1>2, <1>7, <1>8, <1>9, <1>10, <1>11 DEF SameCount
<1>13. Balanced(d.heap, (Y \o L) \o o)
  BY <1>6, <1>11, <1>12, Rebalance
<1>14. Balanced(d.heap, (Y \o Locals(temps, n)) \o <<x>>)
  BY <1>13 DEF L, o
<1>15. IsTemps(a.temps, n) /\ Balanced(a.heap, Y \o Locals(a.temps, n))
  BY <1>5, <1>10, <1>14, Assigns
<1> QED
  BY <1>6, <1>15 DEF Y, u, th, d, x

LEMMA DecodeInstrOwns ==
  ASSUME IInv, DecodeInstr
  PROVE  Owns(code, stack', heap', thunks', blocker, root)
<1> DEFINE ops == {"compute", "alloca", "load", "store", "rmw", "cmpxchg"}
           X == Elsewhere(code, Below, blocker, root)
           n == Size(code, Top)
           L == Locals(Top.temps, n)
           s == decode_operands(State, Top, I.operands)
           addr == IF IsMemory(I.op) THEN <<s.refs[1]>> ELSE <<>>
           s1 == [s EXCEPT !.heap = clone_all(@, addr), !.refs = <<>>]
           th == Thunk(I.op, I.f, s.refs, addr, <<>>, BlockBase + allocas)
           t == declare(s1, th)
           a == assigned(t.heap, Top.temps, I.dest, t.refs[1])
           g == [Top EXCEPT !.temps = a.temps, !.pc = @ + 1]
<1>1. AtCode(ops) /\ stack' = Append(Below, g) /\ heap' = a.heap /\ thunks' = t.thunks
  BY DEF DecodeInstr, Replace
<1>2. /\ IsCode(code) /\ Owns(code, stack, heap, thunks, blocker, root) /\ stack # <<>>
      /\ IsFrame(code, Top) /\ IsRefs(X) /\ n \in Nat /\ IsTemps(Top.temps, n)
      /\ Top.st = "decode" /\ Top.pc # 0 /\ I.op \in ops
      /\ Top.fn = <<>> /\ Top.args = <<>> /\ Top.extra = <<>> /\ Top.out = <<>>
      /\ Decoded(s, X \o L) /\ Len(s.refs) = Len(I.operands)
  BY <1>1, DecodesOperands
<1>3. IsInstr(I, n) /\ (I.op \in PlainOps => Top.pc + 1 \in 0..Len(BlockOf(code, Top).code))
  BY <1>2, AtInstr
<1>4. I.dest \in 0..(n - 1) \cup {NoLocal} /\ HasOperands(I)
  BY <1>3 DEF IsInstr
<1>5. Top.pc + 1 \in 0..Len(BlockOf(code, Top).code)
  BY <1>2, <1>3 DEF PlainOps
<1> HIDE DEF X, L, s
<1> DEFINE R == X \o L
           H == Held(R, s.thunks, s.refs)
           H0 == Held(R, s.thunks, <<>>)
<1>6. /\ DOMAIN s = {"heap", "thunks", "refs"} /\ IsThunks(s.thunks) /\ IsPos(s.thunks) /\ IsRefs(s.refs) /\ IsRefs(R)
      /\ Balanced(s.heap, H)
  BY <1>2 DEF Decoded, IsState, IsThunks
<1> HIDE DEF R
<1>7. /\ IsRefs(H)
      /\ \A c \in Pos : /\ Count(H, c) = (Count(R, c) + Count(RefSeq(s.thunks), c)) + Count(s.refs, c)
                        /\ Count(R, c) \in Nat /\ Count(RefSeq(s.thunks), c) \in Nat /\ Count(s.refs, c) \in Nat
  BY <1>6, HeldCount
<1>8. /\ IsRefs(H0)
      /\ \A c \in Pos : Count(H0, c) = Count(R, c) + Count(RefSeq(s.thunks), c)
  <2>1. /\ IsRefs(H0)
        /\ \A c \in Pos : Count(H0, c) = (Count(R, c) + Count(RefSeq(s.thunks), c)) + Count(<<>>, c)
    BY <1>6, RefsEmpty, HeldCount
  <2>2. \A c \in Pos : Count(<<>>, c) = 0
    BY CountEmpty
  <2> QED
    BY <1>7, <2>1, <2>2
<1> HIDE DEF H, H0
<1>9. IsRefs(addr) /\ Within(addr, H)
  <2>1. CASE IsMemory(I.op)
    <3>1. Len(s.refs) >= 1
      BY <1>2, <1>4, <2>1 DEF IsMemory, HasOperands
    <3>2. IsSeq(s.refs) /\ Len(s.refs) \in Nat
      BY <1>6, SeqFacts DEF IsRefs
    <3>3. 1 \in 1..Len(s.refs)
      BY <3>1, <3>2
    <3>4. s.refs[1].cell \in Nat /\ Count(s.refs, s.refs[1].cell) >= 1
      BY <1>6, <3>2, <3>3, CountIn DEF IsRefs
    <3>5. addr = <<s.refs[1]>>
      BY <2>1
    <3> DEFINE x == s.refs[1]
    <3>6. IsRefs(<<x>>) /\ \A c \in Pos : Count(<<x>>, c) = Once(x, c)
      BY <3>4, RefsOne, CountOne
    <3>7. \A c \in Pos : Count(<<x>>, c) >= 1 => Count(s.refs, c) >= 1
      BY <3>4, <3>6 DEF Once
    <3>8. \A c \in Pos : Count(s.refs, c) >= 1 => Count(H, c) >= 1
      BY <1>7
    <3> HIDE DEF x
    <3> QED
      BY <3>5, <3>6, <3>7, <3>8 DEF Within, x
  <2>2. CASE ~IsMemory(I.op)
    <3>1. addr = <<>>
      BY <2>2
    <3>2. \A c \in Pos : Count(<<>>, c) = 0
      BY CountEmpty
    <3> QED
      BY <3>1, <3>2, RefsEmpty DEF Within
  <2> QED
    BY <2>1, <2>2
<1> HIDE DEF addr
<1>10. Balanced(clone_all(s.heap, addr), H \o addr)
  BY <1>6, <1>9, BalancedCloneAll
<1>11. /\ DOMAIN s1 = {"heap", "thunks", "refs"} /\ s1.heap = clone_all(s.heap, addr)
       /\ s1.thunks = s.thunks /\ s1.refs = <<>>
  BY <1>6
<1> HIDE DEF s1
<1>12. IsState(s1)
  BY <1>6, <1>11, RefsEmpty DEF IsState
<1>13. IsThunk(th) /\ Holds(th) = (s.refs \o addr) \o <<>>
  <2> DEFINE rs == s.refs
             N == <<>>
             op == I.op
             f == I.f
             v == BlockBase + allocas
  <2>1. IsRefs(rs) /\ IsRefs(addr) /\ IsRefs(N)
    BY <1>6, <1>9, RefsEmpty
  <2> HIDE DEF rs, N, op, f, v
  <2>2. IsThunk(Thunk(op, f, rs, addr, N, v)) /\ Holds(Thunk(op, f, rs, addr, N, v)) = (rs \o addr) \o N
    BY <2>1, ThunkIs
  <2> QED
    BY <2>2 DEF rs, N, op, f, v
<1> HIDE DEF th
<1>14. Balanced(s1.heap, H0 \o Holds(th))
  <2>1. /\ IsRefs(Holds(th))
        /\ \A c \in Pos : /\ Count(Holds(th), c) = (Count(s.refs, c) + Count(addr, c)) + Count(<<>>, c)
                          /\ Count(addr, c) \in Nat
    <3> DEFINE N == <<>>
               rs == s.refs
    <3>1. IsRefs(rs) /\ IsRefs(addr) /\ IsRefs(N) /\ Holds(th) = (rs \o addr) \o N
      BY <1>6, <1>9, <1>13, RefsEmpty
    <3> HIDE DEF N, rs
    <3>2. /\ IsRefs((rs \o addr) \o N)
          /\ \A c \in Pos : /\ Count((rs \o addr) \o N, c) = (Count(rs, c) + Count(addr, c)) + Count(N, c)
                            /\ Count(addr, c) \in Nat
      BY <3>1, ThreeRefs
    <3> QED
      BY <3>1, <3>2 DEF N, rs
  <2>2. \A c \in Pos : Count(<<>>, c) = 0
    BY CountEmpty
  <2>3. \A c \in Pos : Count(H \o addr, c) = Count(H, c) + Count(addr, c)
    BY <1>7, <1>9, CountSum
  <2>4. IsRefs(H0 \o Holds(th)) /\ \A c \in Pos : Count(H0 \o Holds(th), c) = Count(H0, c) + Count(Holds(th), c)
    BY <1>8, <2>1, RefsConcat, CountSum
  <2>5. SameCount(H \o addr, H0 \o Holds(th))
    BY <1>7, <1>8, <2>1, <2>2, <2>3, <2>4 DEF SameCount
  <2> QED
    BY <1>10, <1>11, <2>4, <2>5, Rebalance
<1>15. Balanced(s1.heap, Held(X \o Locals(Top.temps, n), s1.thunks, <<>>) \o Holds(th))
  BY <1>11, <1>14 DEF H0, R, L
<1>16. /\ IsThunks(t.thunks) /\ IsTemps(a.temps, n)
       /\ Balanced(a.heap, (X \o RefSeq(t.thunks)) \o Locals(a.temps, n))
  BY <1>2, <1>4, <1>11, <1>12, <1>13, <1>15, DeclareAssigns
<1> HIDE DEF t, a
<1>17. FrameIs(g, Top, a.temps, Top.pc + 1, "decode", <<>>, <<>>, <<>>, <<>>)
  <2>1. DOMAIN Top = FrameFields
    BY <1>2 DEF IsFrame
  <2> QED
    BY <1>2, <2>1 DEF FrameIs, FrameFields
<1> HIDE DEF g
<1>18. IsFrame(code, g) /\ \A c \in Pos : FrameCount(code, g, c) = Count(Locals(a.temps, n), c)
  BY <1>2, <1>5, <1>16, <1>17, FrameDecodes
<1>19. Balanced(a.heap, Around(X, code, g, t.thunks))
  <2> DEFINE u == RefSeq(t.thunks)
             M == Locals(a.temps, n)
  <2>1. IsRefs(u) /\ IsRefs(M)
    BY <1>2, <1>16, RefSeqRefs, LocalsRefs DEF IsThunks
  <2>2. \A c \in Pos : FrameCount(code, g, c) = Count(M, c)
    BY <1>18
  <2>3. Balanced(a.heap, (X \o u) \o M)
    BY <1>16
  <2> HIDE DEF M
  <2>4. \A c \in Pos : Count((X \o u) \o M, c) = (Count(X, c) + FrameCount(code, g, c)) + Count(u, c)
    <3> HIDE DEF u
    <3>1. \A c \in Pos : /\ Count((X \o u) \o M, c) = (Count(X, c) + Count(u, c)) + Count(M, c)
                         /\ Count(X, c) \in Nat /\ Count(u, c) \in Nat /\ Count(M, c) \in Nat
      BY <1>2, <2>1, ThreeRefs
    <3> QED
      BY <2>2, <3>1
  <2>5. HasRefs(code, g)
    BY <1>18 DEF IsFrame
  <2> QED
    BY <1>2, <1>16, <2>3, <2>4, <2>5, Arrange
<1>20. Owns(code, Append(Below, g), a.heap, t.thunks, blocker, root)
  BY <1>2, <1>16, <1>18, <1>19, Replaced DEF X, Below
<1> QED
  BY <1>1, <1>20

-----------------------------------------------------------------------------
(* What a step does to the frame on top                                    *)

\* The references that are not in the frame on top, nor in the pipeline.
Rest(cd, st, bl, rt) == Elsewhere(cd, Front(st), bl, rt)

LEMMA TopCount ==
  ASSUME NEW cd, NEW st, NEW h, NEW th, NEW bl, NEW rt, Owns(cd, st, h, th, bl, rt), st # <<>>
  PROVE  LET X == Rest(cd, st, bl, rt)
             Q == Around(X, cd, Last(st), th)
         IN /\ IsRefs(X) /\ IsFrame(cd, Last(st)) /\ HasRefs(cd, Last(st)) /\ IsThunks(th)
            /\ IsRefs(Q) /\ Balanced(h, Q)
            /\ \A c \in Pos : /\ Count(Q, c) = (Count(X, c) + FrameCount(cd, Last(st), c)) + Count(RefSeq(th), c)
                              /\ Count(X, c) \in Nat /\ Count(RefSeq(th), c) \in Nat
                              /\ FrameCount(cd, Last(st), c) \in Nat
<1> DEFINE X == Rest(cd, st, bl, rt)
           fr == Last(st)
<1>1. IsRefs(X) /\ IsFrame(cd, fr) /\ IsThunks(th) /\ Balanced(h, Around(X, cd, fr, th))
  BY Enter DEF Rest
<1>2. HasRefs(cd, fr)
  BY <1>1 DEF IsFrame
<1> HIDE DEF X, fr
<1>3. /\ IsRefs(Around(X, cd, fr, th))
      /\ \A c \in Pos :
           /\ Count(Around(X, cd, fr, th), c) = (Count(X, c) + FrameCount(cd, fr, c)) + Count(RefSeq(th), c)
           /\ Count(X, c) \in Nat /\ Count(RefSeq(th), c) \in Nat
  BY <1>1, <1>2, AroundRefs
<1>4. \A c \in Pos : FrameCount(cd, fr, c) \in Nat
  BY <1>2, FrameNat
<1> QED
  BY <1>1, <1>2, <1>3, <1>4 DEF X, fr

\* The frame becomes g, and Q is all there is.
LEMMA Turns ==
  ASSUME NEW cd, NEW st, NEW h0, NEW th0, NEW bl, NEW rt, NEW g, NEW h, NEW th, NEW Q,
         Owns(cd, st, h0, th0, bl, rt), st # <<>>, IsFrame(cd, g), IsThunks(th), Balanced(h, Q),
         \A c \in Pos : Count(Q, c) = (Count(Rest(cd, st, bl, rt), c) + FrameCount(cd, g, c)) + Count(RefSeq(th), c)
  PROVE  Owns(cd, Append(Front(st), g), h, th, bl, rt)
<1> DEFINE X == Rest(cd, st, bl, rt)
<1>1. IsRefs(X)
  BY TopCount
<1>2. HasRefs(cd, g)
  BY DEF IsFrame
<1>3. \A c \in Pos : Count(Q, c) = (Count(X, c) + FrameCount(cd, g, c)) + Count(RefSeq(th), c)
  OBVIOUS
<1> HIDE DEF X
<1>4. Balanced(h, Around(X, cd, g, th))
  BY <1>1, <1>2, <1>3, Arrange
<1> QED
  BY <1>4, Replaced DEF X, Rest

\* The frame drops the references xs, or none.
LEMMA Sheds ==
  ASSUME NEW cd, NEW st, NEW h, NEW th, NEW bl, NEW rt, NEW g, NEW xs,
         Owns(cd, st, h, th, bl, rt), st # <<>>, IsFrame(cd, g), IsRefs(xs),
         \A c \in Pos : FrameCount(cd, Last(st), c) = FrameCount(cd, g, c) + Count(xs, c)
  PROVE  Owns(cd, Append(Front(st), g), drop_all(h, xs), th, bl, rt)
<1> DEFINE X == Rest(cd, st, bl, rt)
           fr == Last(st)
           P == Around(X, cd, fr, th)
           Q == Around(X, cd, g, th)
<1>1. /\ IsRefs(X) /\ IsThunks(th) /\ IsRefs(P) /\ Balanced(h, P)
      /\ \A c \in Pos : /\ Count(P, c) = (Count(X, c) + FrameCount(cd, fr, c)) + Count(RefSeq(th), c)
                        /\ Count(X, c) \in Nat /\ Count(RefSeq(th), c) \in Nat
  BY TopCount
<1>2. HasRefs(cd, g)
  BY DEF IsFrame
<1>3. \A c \in Pos : FrameCount(cd, g, c) \in Nat
  BY <1>2, FrameNat
<1>4. \A c \in Pos : FrameCount(cd, fr, c) = FrameCount(cd, g, c) + Count(xs, c)
  OBVIOUS
<1> HIDE DEF X, fr, P
<1>5. /\ IsRefs(Q)
      /\ \A c \in Pos : Count(Q, c) = (Count(X, c) + FrameCount(cd, g, c)) + Count(RefSeq(th), c)
  BY <1>1, <1>2, AroundRefs
<1> HIDE DEF Q
<1>6. IsRefs(Q \o xs) /\ \A c \in Pos : Count(Q \o xs, c) = Count(Q, c) + Count(xs, c) /\ Count(xs, c) \in Nat
  BY <1>5, RefsConcat, CountSum, CountNat
<1>7. SameCount(P, Q \o xs)
  BY <1>1, <1>3, <1>4, <1>5, <1>6 DEF SameCount
<1>8. Balanced(h, Q \o xs)
  BY <1>1, <1>6, <1>7, Rebalance
<1>9. Balanced(drop_all(h, xs), Q)
  BY <1>5, <1>8, BalancedDropAll
<1> QED
  BY <1>1, <1>5, <1>9, Turns DEF X

LEMMA SameRefs ==
  ASSUME NEW cd, NEW st, NEW h, NEW th, NEW bl, NEW rt, NEW g,
         Owns(cd, st, h, th, bl, rt), st # <<>>, IsFrame(cd, g),
         \A c \in Pos : FrameCount(cd, Last(st), c) = FrameCount(cd, g, c)
  PROVE  Owns(cd, Append(Front(st), g), h, th, bl, rt)
<1> DEFINE X == Rest(cd, st, bl, rt)
           P == Around(X, cd, Last(st), th)
<1>1. /\ IsThunks(th) /\ Balanced(h, P)
      /\ \A c \in Pos : Count(P, c) = (Count(X, c) + FrameCount(cd, Last(st), c)) + Count(RefSeq(th), c)
  BY TopCount
<1> HIDE DEF P
<1>2. \A c \in Pos : Count(P, c) = (Count(X, c) + FrameCount(cd, g, c)) + Count(RefSeq(th), c)
  BY <1>1
<1> QED
  BY <1>1, <1>2, Turns

\* The frame decodes with what it holds, and what is elsewhere, as it is.
LEMMA Reads ==
  ASSUME NEW cd, NEW st, NEW h, NEW th, NEW bl, NEW rt, NEW s, Owns(cd, st, h, th, bl, rt), st # <<>>,
         DOMAIN s = {"heap", "thunks", "refs"}, s.heap = h, s.thunks = th, s.refs = <<>>
  PROVE  Decoded(s, Rest(cd, st, bl, rt) \o FrameRefs(cd, Last(st)))
<1> DEFINE X == Rest(cd, st, bl, rt)
           fr == Last(st)
           F == FrameRefs(cd, fr)
           R == X \o F
           P == Around(X, cd, fr, th)
           N == <<>>
           Q == Held(R, th, N)
<1>1. /\ IsRefs(X) /\ HasRefs(cd, fr) /\ IsThunks(th) /\ Balanced(h, P)
      /\ \A c \in Pos : /\ Count(P, c) = (Count(X, c) + FrameCount(cd, fr, c)) + Count(RefSeq(th), c)
                        /\ Count(X, c) \in Nat /\ FrameCount(cd, fr, c) \in Nat
  BY TopCount
<1>2. IsRefs(F) /\ \A c \in Pos : Count(F, c) = FrameCount(cd, fr, c)
  BY <1>1, FrameSum
<1>3. IsRefs(N) /\ \A c \in Pos : Count(N, c) = 0
  BY RefsEmpty, CountEmpty
<1>4. s.heap = h /\ s.thunks = th /\ s.refs = N
  OBVIOUS
<1> HIDE DEF X, fr, P, F, N
<1>5. IsRefs(R) /\ \A c \in Pos : Count(R, c) = Count(X, c) + Count(F, c)
  BY <1>1, <1>2, RefsConcat, CountSum
<1> HIDE DEF R
<1>6. /\ IsRefs(Q)
      /\ \A c \in Pos : Count(Q, c) = (Count(R, c) + Count(RefSeq(th), c)) + Count(N, c) /\ Count(RefSeq(th), c) \in Nat
  <2>1. IsPos(th) /\ IsRefs(N) /\ IsRefs(R)
    BY <1>1, <1>3, <1>5 DEF IsThunks
  <2> QED
    BY <2>1, HeldCount
<1> HIDE DEF Q
<1>7. SameCount(P, Q)
  BY <1>1, <1>2, <1>3, <1>5, <1>6 DEF SameCount
<1>8. Balanced(h, Q)
  BY <1>1, <1>6, <1>7, Rebalance
<1>9. IsState(s)
  <2>1. IsThunks(s.thunks)
    BY <1>1, <1>4
  <2>2. IsRefs(s.refs)
    BY <1>3, <1>4
  <2> QED
    BY <2>1, <2>2 DEF IsState
<1>10. Decoded(s, R)
  BY <1>4, <1>5, <1>8, <1>9 DEF Decoded, Q
<1> QED
  BY <1>10 DEF R, X, F, fr

\* What it has decoded goes into the frame.
LEMMA Gains ==
  ASSUME NEW cd, NEW st, NEW h, NEW th, NEW bl, NEW rt, NEW g, NEW s,
         Owns(cd, st, h, th, bl, rt), st # <<>>, IsFrame(cd, g),
         Decoded(s, Rest(cd, st, bl, rt) \o FrameRefs(cd, Last(st))),
         \A c \in Pos : FrameCount(cd, g, c) = FrameCount(cd, Last(st), c) + Count(s.refs, c)
  PROVE  Owns(cd, Append(Front(st), g), s.heap, s.thunks, bl, rt)
<1> DEFINE X == Rest(cd, st, bl, rt)
           fr == Last(st)
           F == FrameRefs(cd, fr)
           R == X \o F
           h1 == s.heap
           t1 == s.thunks
           rs == s.refs
           Q == Held(R, t1, rs)
<1>1. /\ IsRefs(X) /\ HasRefs(cd, fr)
      /\ \A c \in Pos : Count(X, c) \in Nat /\ FrameCount(cd, fr, c) \in Nat
  BY TopCount
<1>2. IsRefs(F) /\ \A c \in Pos : Count(F, c) = FrameCount(cd, fr, c)
  BY <1>1, FrameSum
<1>3. IsThunks(t1) /\ IsRefs(rs) /\ Balanced(h1, Q)
  BY DEF Decoded, IsState
<1>4. \A c \in Pos : FrameCount(cd, g, c) = FrameCount(cd, fr, c) + Count(rs, c)
  OBVIOUS
<1> HIDE DEF X, fr, F, h1, t1, rs
<1>5. IsRefs(R) /\ \A c \in Pos : Count(R, c) = Count(X, c) + Count(F, c)
  BY <1>1, <1>2, RefsConcat, CountSum
<1> HIDE DEF R
<1>6. \A c \in Pos : /\ Count(Q, c) = (Count(R, c) + Count(RefSeq(t1), c)) + Count(rs, c)
                     /\ Count(RefSeq(t1), c) \in Nat /\ Count(rs, c) \in Nat
  BY <1>3, <1>5, HeldCount DEF IsThunks
<1> HIDE DEF Q
<1>7. \A c \in Pos : Count(Q, c) = (Count(X, c) + FrameCount(cd, g, c)) + Count(RefSeq(t1), c)
  BY <1>1, <1>2, <1>4, <1>5, <1>6
<1>8. Owns(cd, Append(Front(st), g), h1, t1, bl, rt)
  BY <1>3, <1>7, Turns DEF X
<1> QED
  BY <1>8 DEF h1, t1

\* A call: the frame on top waits for a frame that gets clones of the references xs.
LEMMA Pushes ==
  ASSUME NEW cd, NEW st, NEW h, NEW th, NEW bl, NEW rt, NEW g, NEW xs,
         Owns(cd, st, h, th, bl, rt), st # <<>>, Last(st).st \in {"call", "callback"}, IsFrame(cd, g), IsRefs(xs),
         \A c \in Pos : Count(xs, c) <= FrameCount(cd, Last(st), c),
         \A c \in Pos : FrameCount(cd, g, c) = Count(xs, c)
  PROVE  Owns(cd, Append(st, g), clone_all(h, xs), th, bl, rt)
<1> DEFINE Y == Elsewhere(cd, st, bl, rt)
           O == Outside(cd, st, th, bl, rt)
           Q == Around(Y, cd, g, th)
<1>1. IsStack(cd, st) /\ IsRoot(st, rt) /\ IsThunks(th) /\ IsRefs(bl) /\ Balanced(h, O)
  BY DEF Owns
<1>2. RootRefs(bl, rt) /\ HaveRefs(cd, st) /\ HasRefs(cd, g)
  BY <1>1, StackHasRefs DEF RootRefs, IsRoot, IsFrame
<1>3. /\ IsRefs(O)
      /\ \A c \in Pos :
           /\ Count(O, c) = (Count(StackRefs(cd, st), c) + OthersCount(bl, rt, c)) + Count(RefSeq(th), c)
           /\ Count(StackRefs(cd, st), c) \in Nat /\ OthersCount(bl, rt, c) \in Nat
           /\ Count(RefSeq(th), c) \in Nat
  BY <1>1, <1>2, OutsideRefs
<1>4. \A c \in Pos : Count(StackRefs(cd, st), c) >= FrameCount(cd, Last(st), c) /\ FrameCount(cd, Last(st), c) \in Nat
  <2>1. /\ HaveRefs(cd, Front(st)) /\ HasRefs(cd, Last(st))
        /\ \A c \in Pos : Count(StackRefs(cd, st), c) = Count(StackRefs(cd, Front(st)), c) + FrameCount(cd, Last(st), c)
    BY <1>2, StackTop
  <2>2. \A c \in Pos : FrameCount(cd, Last(st), c) \in Nat /\ Count(StackRefs(cd, Front(st)), c) \in Nat
    BY <2>1, FrameNat, StackNat
  <2> QED
    BY <2>1, <2>2
<1> HIDE DEF O
<1>5. \A c \in Pos : Count(xs, c) \in Nat
  BY CountNat
<1>6. Within(xs, O)
  BY <1>3, <1>4, <1>5 DEF Within
<1>7. Balanced(clone_all(h, xs), O \o xs) /\ \A c \in Pos : Count(O \o xs, c) = Count(O, c) + Count(xs, c)
  BY <1>1, <1>3, <1>6, BalancedCloneAll, CountSum
<1>8. /\ IsRefs(Y)
      /\ \A c \in Pos : Count(Y, c) = Count(StackRefs(cd, st), c) + OthersCount(bl, rt, c)
  BY <1>1, <1>2, ElsewhereRefs
<1> HIDE DEF Y
<1>9. \A c \in Pos : Count(O \o xs, c) = (Count(Y, c) + FrameCount(cd, g, c)) + Count(RefSeq(th), c)
  BY <1>3, <1>5, <1>7, <1>8
<1>10. Balanced(clone_all(h, xs), Q)
  BY <1>1, <1>2, <1>7, <1>8, <1>9, Arrange
<1>11. Lowered(st)
  <2> DEFINE n == Len(st)
  <2>1. n \in Nat /\ Last(st) = st[n]
    BY <1>1, SeqFacts, FrontSeq DEF IsStack
  <2>2. \A k \in 1..n - 1 : st[k].st \in {"call", "callback"}
    BY <1>1 DEF IsStack
  <2> HIDE DEF n
  <2>3. \A k \in 1..n : k \in 1..n - 1 \/ k = n
    BY <2>1
  <2>4. \A k \in 1..n : st[k].st \in {"call", "callback"}
    BY <2>1, <2>2, <2>3
  <2> QED
    BY <2>4 DEF Lowered, n
<1>12. IsRoot(Append(st, g), rt)
  BY <1>1, <1>11, StackJoin DEF IsRoot
<1> QED
  BY <1>1, <1>2, <1>10, <1>11, <1>12, Leave DEF Q, Y

-----------------------------------------------------------------------------
(* A call, stage by stage                                                  *)

CallStages == {"func", "call", "args", "loop", "callback", "cbvalue", "take", "err"}

StageHolds(st, n, fn, extra, out) ==
  /\ st = "func" => Len(fn) = 1
  /\ st \in {"func", "call", "loop", "take"} => extra = <<>>
  /\ IF st \in {"cbvalue", "take"} THEN Len(out) = 1 ELSE out = <<>>
  /\ st = "args" => n \in Pos /\ Len(extra) = 1 /\ extra[1].cell = 0

LEMMA CallFrame ==
  ASSUME NEW cd, NEW fr, IsFrame(cd, fr), fr.st \in CallStages
  PROVE  /\ StageHolds(fr.st, fr.n, fr.fn, fr.extra, fr.out) /\ DOMAIN fr = FrameFields
         /\ fr.pc >= 1 /\ fr.pc # 0 /\ InstrOf(cd, fr).op \in {"call", "invoke"}
         /\ fr.pc \in 0..Len(BlockOf(cd, fr).code) /\ IsTemps(fr.temps, Size(cd, fr))
         /\ IsRefs(fr.fn) /\ IsRefs(fr.args) /\ IsRefs(fr.extra) /\ IsRefs(fr.out)
<1>1. AtStage(cd, fr) /\ DOMAIN fr = FrameFields /\ Placed(cd, fr) /\ HasRefs(cd, fr)
  BY DEF IsFrame
<1>2. fr.st # "decode" /\ fr.st # "cond"
  BY DEF CallStages
<1>3. /\ StageHolds(fr.st, fr.n, fr.fn, fr.extra, fr.out)
      /\ fr.pc >= 1 /\ InstrOf(cd, fr).op \in {"call", "invoke"}
  BY <1>1, <1>2 DEF AtStage, StageHolds
<1>4. fr.pc # 0
  BY <1>3
<1> QED
  BY <1>1, <1>3, <1>4 DEF Placed, HasRefs

\* The frame goes on to the stage st of its call.
Goes(cd, fr, g, temps, st, fn, args, extra, out) ==
  /\ IsFrame(cd, fr) /\ fr.st \in CallStages
  /\ FrameIs(g, fr, temps, fr.pc, st, fn, args, extra, out)
  /\ st \in CallStages /\ StageHolds(st, g.n, fn, extra, out)
  /\ IsTemps(temps, Size(cd, fr)) /\ IsRefs(fn) /\ IsRefs(args) /\ IsRefs(extra) /\ IsRefs(out)

Has(cd, fr, g, temps, fn, args, extra, out) ==
  \A c \in Pos :
    FrameCount(cd, g, c) = (((Count(Locals(temps, Size(cd, fr)), c) + Count(fn, c)) + Count(args, c))
                             + Count(extra, c)) + Count(out, c)

LEMMA Restage ==
  ASSUME NEW cd, NEW fr, NEW g, NEW temps, NEW st, NEW fn, NEW args, NEW extra, NEW out,
         Goes(cd, fr, g, temps, st, fn, args, extra, out)
  PROVE  IsFrame(cd, g) /\ Has(cd, fr, g, temps, fn, args, extra, out)
<1>0. /\ IsFrame(cd, fr) /\ fr.st \in CallStages
      /\ FrameIs(g, fr, temps, fr.pc, st, fn, args, extra, out)
      /\ st \in CallStages /\ StageHolds(st, g.n, fn, extra, out)
      /\ IsTemps(temps, Size(cd, fr)) /\ IsRefs(fn) /\ IsRefs(args) /\ IsRefs(extra) /\ IsRefs(out)
  BY DEF Goes
<1> DEFINE pc == fr.pc
<1>1. pc >= 1 /\ InstrOf(cd, fr).op \in {"call", "invoke"} /\ pc \in 0..Len(BlockOf(cd, fr).code)
  BY <1>0, CallFrame
<1>2. FrameIs(g, fr, temps, pc, st, fn, args, extra, out)
  BY <1>0
<1>3. /\ DOMAIN g = FrameFields /\ Placed(cd, g) /\ HasRefs(cd, g)
      /\ pc = fr.pc => InstrOf(cd, g) = InstrOf(cd, fr)
      /\ \A c \in Pos :
           FrameCount(cd, g, c) = (((Count(Locals(temps, Size(cd, fr)), c) + Count(fn, c)) + Count(args, c))
                                    + Count(extra, c)) + Count(out, c)
  <2> HIDE DEF pc
  <2> QED
    BY <1>0, <1>1, <1>2, FrameMoves
<1>4. g.st = st /\ g.pc = pc /\ g.fn = fn /\ g.extra = extra /\ g.out = out
  BY <1>2 DEF FrameIs
<1>5. g.st # "decode" /\ g.st # "cond"
  BY <1>0, <1>4 DEF CallStages
<1>6. InstrOf(cd, g).op \in {"call", "invoke"} /\ g.pc >= 1 /\ g.st \in CallStages
  BY <1>0, <1>1, <1>3, <1>4
<1>7. StageHolds(g.st, g.n, g.fn, g.extra, g.out)
  BY <1>0, <1>4
<1>8. AtStage(cd, g)
  BY <1>5, <1>6, <1>7 DEF AtStage, StageHolds, CallStages
<1> QED
  BY <1>3, <1>8 DEF IsFrame, Has

\* A frame that waits holds what it held; the counts of its parts.
LEMMA FrameParts ==
  ASSUME NEW cd, NEW fr, IsFrame(cd, fr)
  PROVE  /\ HasRefs(cd, fr) /\ Size(cd, fr) \in Nat
         /\ \A c \in Pos : /\ FrameCount(cd, fr, c)
                                = (((Count(Locals(fr.temps, Size(cd, fr)), c) + Count(fr.fn, c)) + Count(fr.args, c))
                                    + Count(fr.extra, c)) + Count(fr.out, c)
                           /\ Count(Locals(fr.temps, Size(cd, fr)), c) \in Nat
                           /\ Count(fr.fn, c) \in Nat /\ Count(fr.args, c) \in Nat
                           /\ Count(fr.extra, c) \in Nat /\ Count(fr.out, c) \in Nat
<1>1. HasRefs(cd, fr)
  BY DEF IsFrame
<1> QED
  BY <1>1, FrameNat DEF FrameCount

\* A compiled function's first frame.
LEMMA Fresh ==
  ASSUME NEW addr, NEW args, IsCode(code), addr \in DOMAIN code, code[addr].kind = "c", IsRefs(args),
         Len(args) = Len(code[addr].args)
  PROVE  /\ IsFrame(code, CFrame(addr, args))
         /\ \A c \in Pos : FrameCount(code, CFrame(addr, args), c) = Count(args, c)
<1> DEFINE f == code[addr]
           g == CFrame(addr, args)
           nums == f.args
           n == Len(f.locals)
           temps == NewTemps(nums, args)
           N == <<>>
<1>1. /\ DOMAIN g = FrameFields /\ g.fun = addr /\ g.block = 0 /\ g.pc = 0 /\ g.temps = temps /\ g.st = "decode"
      /\ g.fn = N /\ g.args = N /\ g.extra = N /\ g.out = N
  BY DEF CFrame, FrameFields, NewTemps
<1>2. IsCompiled(f)
  BY DEF IsCode
<1>3. IsSeq(f.locals) /\ AreNums(nums, n) /\ IsSeq(f.blocks) /\ Len(f.blocks) >= 1 /\ IsBlock(f.blocks[1], n, Len(f.blocks))
  <2>1. IsSeq(f.locals) /\ AreNums(nums, n) /\ IsSeq(f.blocks) /\ Len(f.blocks) >= 1
    BY <1>2 DEF IsCompiled
  <2>2. Len(f.blocks) \in Nat
    BY <2>1, SeqFacts
  <2>3. 1 \in 1..Len(f.blocks)
    BY <2>1, <2>2
  <2> QED
    BY <1>2, <2>1, <2>3 DEF IsCompiled
<1>4. n \in Nat /\ Len(f.blocks) \in Nat
  BY <1>3, SeqFacts
<1>5. Len(args) = Len(nums) /\ Size(code, g) = n
  BY <1>1 DEF Size
<1> HIDE DEF g, nums
<1>6. IsTemps(temps, n) /\ \A c \in Pos : Count(Locals(temps, n), c) = Count(args, c)
  <2> HIDE DEF n
  <2> QED
    BY <1>3, <1>4, <1>5, NewLocals
<1>7. IsRefs(N) /\ \A c \in Pos : Count(N, c) = 0
  BY RefsEmpty, CountEmpty
<1>8. AtStage(code, g)
  BY <1>1 DEF AtStage
<1> HIDE DEF N, temps
<1>9. Placed(code, g)
  <2>1. BlockOf(code, g) = f.blocks[1]
    BY <1>1 DEF BlockOf
  <2>2. IsSeq(BlockOf(code, g).code) /\ 0 \in 0..Len(BlockOf(code, g).code)
    BY <1>3, <2>1, SeqFacts DEF IsBlock
  <2>3. 0 \in 0..(Len(f.blocks) - 1)
    BY <1>3, <1>4
  <2> QED
    BY <1>1, <2>2, <2>3 DEF Placed
<1>10. HasRefs(code, g)
  BY <1>1, <1>3, <1>5, <1>6, <1>7 DEF HasRefs
<1>11. \A c \in Pos : FrameCount(code, g, c) = Count(args, c)
  <2>1. \A c \in Pos : FrameCount(code, g, c)
           = (((Count(Locals(temps, n), c) + Count(N, c)) + Count(N, c)) + Count(N, c)) + Count(N, c)
    BY <1>1, <1>5 DEF FrameCount
  <2>2. \A c \in Pos : Count(args, c) \in Nat
    BY CountNat
  <2> QED
    BY <1>6, <1>7, <2>1, <2>2
<1> QED
  BY <1>1, <1>8, <1>9, <1>10, <1>11 DEF IsFrame, g

-----------------------------------------------------------------------------
(* Steps within a frame                                                    *)

LEMMA RunningFrame ==
  ASSUME NEW st, IInv, Decoding(st)
  PROVE  /\ IsCode(code) /\ Owns(code, stack, heap, thunks, blocker, root) /\ stack # <<>> /\ Top.st = st
         /\ Owns(code, stack, Unblocked, thunks, <<>>, root)
         /\ IsFrame(code, Top) /\ Top = Last(stack) /\ Below = Front(stack) /\ DOMAIN Top = FrameFields
<1>1. IsCode(code) /\ Owns(code, stack, heap, thunks, blocker, root)
  BY DEF IInv
<1>2. stack # <<>> /\ Top.st = st
  BY DEF Decoding
<1>3. Owns(code, stack, Unblocked, thunks, <<>>, root)
  BY <1>1, Unblocks DEF Unblocked
<1>4. IsFrame(code, Top)
  BY <1>1, <1>2, Enter DEF Top
<1> QED
  BY <1>1, <1>2, <1>3, <1>4 DEF Top, Below, IsFrame

LEMMA DecodeFenceOwns ==
  ASSUME IInv, DecodeFence
  PROVE  Owns(code, stack', heap, thunks, blocker, root)
<1> DEFINE fr == Top
           n == Size(code, fr)
           g == [fr EXCEPT !.pc = @ + 1]
           ops == {"fence"}
<1>1. AtCode(ops) /\ stack' = Append(Below, g)
  BY DEF DecodeFence, Replace
<1>2. /\ IsCode(code) /\ Owns(code, stack, heap, thunks, blocker, root) /\ stack # <<>>
      /\ IsFrame(code, fr) /\ n \in Nat /\ IsTemps(fr.temps, n)
      /\ fr.st = "decode" /\ fr.pc # 0 /\ I.op \in ops
      /\ fr.fn = <<>> /\ fr.args = <<>> /\ fr.extra = <<>> /\ fr.out = <<>>
  BY <1>1, DecodesOperands
<1>3. fr.pc + 1 \in 0..Len(BlockOf(code, fr).code)
  BY <1>2, AtInstr DEF PlainOps
<1>4. DOMAIN fr = FrameFields
  BY <1>2 DEF IsFrame
<1>5. FrameIs(g, fr, fr.temps, fr.pc + 1, "decode", <<>>, <<>>, <<>>, <<>>)
  BY <1>2, <1>4 DEF FrameIs, FrameFields
<1> HIDE DEF g
<1>6. IsFrame(code, g) /\ \A c \in Pos : FrameCount(code, g, c) = Count(Locals(fr.temps, n), c)
  BY <1>2, <1>3, <1>5, FrameDecodes
<1>7. \A c \in Pos : FrameCount(code, fr, c) = Count(Locals(fr.temps, n), c)
  <2>1. FrameIs(fr, fr, fr.temps, fr.pc, "decode", <<>>, <<>>, <<>>, <<>>) /\ fr.pc \in 0..Len(BlockOf(code, fr).code)
    BY <1>2, <1>4 DEF FrameIs, IsFrame, Placed
  <2> QED
    BY <1>2, <2>1, FrameDecodes
<1> QED
  BY <1>1, <1>2, <1>6, <1>7, SameRefs DEF Top, Below

LEMMA DecodeBrOwns ==
  ASSUME IInv, DecodeBr
  PROVE  Owns(code, stack', heap, thunks, blocker, root)
<1> DEFINE fr == Top
           n == Size(code, fr)
           t == I.targets[1]
           g == JumpTo(fr, t)
           ops == {"br"}
<1>1. AtCode(ops) /\ stack' = Append(Below, g)
  BY DEF DecodeBr, Replace
<1>2. /\ IsCode(code) /\ Owns(code, stack, heap, thunks, blocker, root) /\ stack # <<>>
      /\ IsFrame(code, fr) /\ n \in Nat /\ IsTemps(fr.temps, n)
      /\ fr.st = "decode" /\ fr.pc # 0 /\ I.op \in ops
      /\ fr.fn = <<>> /\ fr.args = <<>> /\ fr.extra = <<>> /\ fr.out = <<>>
  BY <1>1, DecodesOperands
<1>3. IsTerm(I, n, Len(code[fr.fun].blocks))
  BY <1>2, AtInstr DEF TermOps
<1>4. t \in 0..(Len(code[fr.fun].blocks) - 1)
  <2>1. IsSeq(I.targets) /\ Len(I.targets) >= 1
    BY <1>2, <1>3 DEF IsTerm
  <2>2. Len(I.targets) \in Nat
    BY <2>1, SeqFacts
  <2>3. 1 \in 1..Len(I.targets)
    BY <2>1, <2>2
  <2> QED
    BY <1>3, <2>3, TargetAt
<1>5. DOMAIN fr = FrameFields
  BY <1>2 DEF IsFrame
<1> HIDE DEF t
<1>6. JumpIs(g, fr, fr.temps, t)
  BY <1>2, <1>5 DEF JumpIs, JumpTo, FrameFields
<1> HIDE DEF g
<1>7. IsFrame(code, g) /\ \A c \in Pos : FrameCount(code, g, c) = Count(Locals(fr.temps, n), c)
  BY <1>2, <1>4, <1>6, FrameJumps
<1>8. \A c \in Pos : FrameCount(code, fr, c) = Count(Locals(fr.temps, n), c)
  <2>1. FrameIs(fr, fr, fr.temps, fr.pc, "decode", <<>>, <<>>, <<>>, <<>>) /\ fr.pc \in 0..Len(BlockOf(code, fr).code)
    BY <1>2, <1>5 DEF FrameIs, IsFrame, Placed
  <2> QED
    BY <1>2, <2>1, FrameDecodes
<1> QED
  BY <1>1, <1>2, <1>7, <1>8, SameRefs DEF Top, Below

LEMMA BranchOwns ==
  ASSUME IInv, Branch
  PROVE  Owns(code, stack', heap', thunks, blocker', root)
<1> DEFINE fr == Top
           n == Size(code, fr)
           m == Len(code[fr.fun].blocks)
           x == Val(fr.fn[1])
           which == IF I.op = "condbr" THEN IF x # 0 THEN 1 ELSE 2
                    ELSE IF x \in ToSet(I.cases) THEN CHOOSE i \in DOMAIN I.cases : I.cases[i] = x
                         ELSE Len(I.targets)
           t == I.targets[which]
           g == JumpTo([fr EXCEPT !.fn = <<>>], t)
<1>1. /\ Decoding("cond") /\ stack' = Append(Below, g) /\ heap' = drop_all(Unblocked, fr.fn) /\ blocker' = <<>>
  BY DEF Branch, Got, Replace
<1>2. /\ IsCode(code) /\ stack # <<>> /\ fr.st = "cond" /\ Owns(code, stack, Unblocked, thunks, <<>>, root)
      /\ IsFrame(code, fr) /\ fr = Last(stack) /\ Below = Front(stack) /\ DOMAIN fr = FrameFields
  BY <1>1, RunningFrame
<1>3. /\ fr.args = <<>> /\ fr.extra = <<>> /\ fr.out = <<>> /\ fr.pc >= 1
      /\ InstrOf(code, fr).op \in {"condbr", "switch"}
  BY <1>2 DEF IsFrame, AtStage
<1>4. fr.pc # 0
  BY <1>3
<1>5. I.op \in {"condbr", "switch"} /\ IsTerm(I, n, m)
  <2>1. I = InstrOf(code, fr) /\ (I.op \in TermOps => IsTerm(I, n, m))
    BY <1>2, <1>4, AtInstr
  <2>2. I.op \in {"condbr", "switch"}
    BY <1>3, <2>1
  <2>3. I.op \in TermOps
    BY <2>2 DEF TermOps
  <2> QED
    BY <2>1, <2>2, <2>3
<1>6. which \in 1..Len(I.targets)
  <2>1. /\ IsSeq(I.targets) /\ (I.op = "condbr" => Len(I.targets) >= 2)
        /\ (I.op = "switch" => IsSeq(I.cases) /\ Len(I.targets) = Len(I.cases) + 1)
    BY <1>5 DEF IsTerm
  <2>2. Len(I.targets) \in Nat
    BY <2>1, SeqFacts
  <2>3. CASE I.op = "condbr"
    BY <2>1, <2>2, <2>3
  <2>4. CASE I.op # "condbr"
    <3>1. IsSeq(I.cases) /\ Len(I.targets) = Len(I.cases) + 1
      BY <1>5, <2>1, <2>4
    <3>2. Len(I.cases) \in Nat /\ DOMAIN I.cases = 1..Len(I.cases)
      BY <3>1, SeqFacts
    <3>3. CASE x \in ToSet(I.cases)
      <4> HIDE DEF x
      <4>1. \E i \in DOMAIN I.cases : I.cases[i] = x
        BY <3>3 DEF ToSet
      <4>2. (CHOOSE i \in DOMAIN I.cases : I.cases[i] = x) \in DOMAIN I.cases
        BY <4>1
      <4>3. which \in 1..Len(I.cases)
        BY <2>4, <3>2, <3>3, <4>2
      <4> HIDE DEF which
      <4> QED
        BY <3>1, <3>2, <4>3
    <3>4. CASE x \notin ToSet(I.cases)
      <4> HIDE DEF x
      <4>1. which = Len(I.targets)
        BY <2>4, <3>4
      <4> HIDE DEF which
      <4> QED
        BY <3>1, <3>2, <4>1
    <3> QED
      BY <3>3, <3>4
  <2> QED
    BY <2>3, <2>4
<1> HIDE DEF which
<1>7. t \in 0..(m - 1)
  BY <1>5, <1>6, TargetAt
<1> HIDE DEF t
<1>8. JumpIs(g, fr, fr.temps, t)
  BY <1>2, <1>3 DEF JumpIs, JumpTo, FrameFields
<1> HIDE DEF g
<1>9. IsTemps(fr.temps, n) /\ IsRefs(fr.fn)
  BY <1>2 DEF IsFrame, HasRefs
<1>10. IsFrame(code, g) /\ \A c \in Pos : FrameCount(code, g, c) = Count(Locals(fr.temps, n), c)
  BY <1>2, <1>7, <1>8, <1>9, FrameJumps
<1>11. \A c \in Pos : FrameCount(code, fr, c) = FrameCount(code, g, c) + Count(fr.fn, c)
  <2> DEFINE N == <<>>
  <2>1. \A c \in Pos : /\ FrameCount(code, fr, c) = (((Count(Locals(fr.temps, n), c) + Count(fr.fn, c)) + Count(N, c))
                                                      + Count(N, c)) + Count(N, c)
                       /\ Count(Locals(fr.temps, n), c) \in Nat /\ Count(fr.fn, c) \in Nat
    BY <1>2, <1>3, FrameParts
  <2>2. \A c \in Pos : Count(N, c) = 0
    BY CountEmpty
  <2> QED
    BY <1>10, <2>1, <2>2
<1> QED
  BY <1>1, <1>2, <1>9, <1>10, <1>11, Sheds

-----------------------------------------------------------------------------
(* Calls                                                                   *)

\* A reference that is no cell is not counted.
Costless(s) == IsRefs(s) /\ \A c \in Pos : Count(s, c) = 0

LEMMA EmptyIsCostless == Costless(<<>>)
BY RefsEmpty, CountEmpty DEF Costless

LEMMA ConstantIsCostless ==
  ASSUME NEW s, IsRefs(s), Len(s) = 1, s[1].cell = 0
  PROVE  Costless(s)
<1> DEFINE x == s[1]
<1>1. s = <<x>>
  BY SingleSeq DEF IsRefs
<1>2. x.cell = 0
  OBVIOUS
<1> HIDE DEF x
<1>3. \A c \in Pos : Count(<<x>>, c) = Once(x, c)
  BY CountOne
<1>4. \A c \in Pos : Once(x, c) = 0
  BY <1>2 DEF Once, Pos
<1> QED
  BY <1>1, <1>3, <1>4 DEF Costless

\* What a frame keeps of the callee once it has its value.
KeptFn == IF I.op = "call" THEN <<>> ELSE Top.fn

LEMMA LooksUp ==
  ASSUME NEW h, NEW bl, NEW g, NEW st, NEW extra,
         Owns(code, stack, h, thunks, bl, root), stack # <<>>, Top.st = "func",
         FrameIs(g, Top, Top.temps, Top.pc, st, KeptFn, Top.args, extra, <<>>), st \in CallStages,
         StageHolds(st, g.n, KeptFn, extra, <<>>), Costless(extra)
  PROVE  /\ Owns(code, Append(Below, g), AfterLookup(h), thunks, bl, root) /\ IsFrame(code, g)
         /\ IsRefs(Top.args)
         /\ \A c \in Pos : Count(Top.args, c) <= FrameCount(code, g, c)
<1> DEFINE fr == Top
           n == Size(code, fr)
           N == <<>>
           k == KeptFn
           L == Locals(fr.temps, n)
<1>1. IsFrame(code, fr) /\ fr.st \in CallStages /\ fr = Last(stack) /\ Below = Front(stack)
  BY Enter DEF Top, Below, CallStages
<1>2. /\ IsTemps(fr.temps, n) /\ IsRefs(fr.fn) /\ IsRefs(fr.args) /\ fr.extra = N /\ fr.out = N
  BY <1>1, CallFrame DEF StageHolds
<1>3. IsRefs(N) /\ \A c \in Pos : Count(N, c) = 0
  BY RefsEmpty, CountEmpty
<1>4. \A c \in Pos : /\ FrameCount(code, fr, c) = (((Count(L, c) + Count(fr.fn, c)) + Count(fr.args, c))
                                                    + Count(N, c)) + Count(N, c)
                     /\ Count(L, c) \in Nat /\ Count(fr.fn, c) \in Nat /\ Count(fr.args, c) \in Nat
  BY <1>1, <1>2, FrameParts
<1>5. IsRefs(k)
  BY <1>2, <1>3 DEF KeptFn
<1>6. FrameIs(g, fr, fr.temps, fr.pc, st, k, fr.args, extra, N) /\ StageHolds(st, g.n, k, extra, N)
  OBVIOUS
<1>7. IsRefs(extra) /\ \A c \in Pos : Count(extra, c) = 0
  BY DEF Costless
<1> HIDE DEF k, N, L
<1>8. /\ IsFrame(code, g)
      /\ \A c \in Pos : FrameCount(code, g, c) = (((Count(L, c) + Count(k, c)) + Count(fr.args, c))
                                                   + Count(extra, c)) + Count(N, c)
  <2>1. Goes(code, fr, g, fr.temps, st, k, fr.args, extra, N)
    BY <1>1, <1>2, <1>3, <1>5, <1>6, <1>7 DEF Goes
  <2>2. IsFrame(code, g) /\ Has(code, fr, g, fr.temps, k, fr.args, extra, N)
    BY <2>1, Restage
  <2> QED
    BY <2>2 DEF L, n, Has
<1>9. \A c \in Pos : Count(k, c) \in Nat
  BY <1>5, CountNat
<1>10. \A c \in Pos : Count(fr.args, c) <= FrameCount(code, g, c)
  BY <1>3, <1>4, <1>7, <1>8, <1>9
<1>11. Owns(code, Append(Below, g), AfterLookup(h), thunks, bl, root)
  <2>1. CASE I.op = "call"
    <3>1. k = N /\ AfterLookup(h) = drop_all(h, fr.fn)
      BY <2>1 DEF k, KeptFn, N, AfterLookup
    <3>2. \A c \in Pos : FrameCount(code, fr, c) = FrameCount(code, g, c) + Count(fr.fn, c)
      BY <1>3, <1>4, <1>7, <1>8, <3>1
    <3>3. Owns(code, Append(Front(stack), g), drop_all(h, fr.fn), thunks, bl, root)
      BY <1>1, <1>2, <1>8, <3>2, Sheds
    <3> QED
      BY <1>1, <3>1, <3>3
  <2>2. CASE I.op # "call"
    <3>1. k = fr.fn /\ AfterLookup(h) = h
      BY <2>2 DEF k, KeptFn, AfterLookup
    <3>2. \A c \in Pos : FrameCount(code, fr, c) = FrameCount(code, g, c)
      BY <1>3, <1>4, <1>7, <1>8, <3>1
    <3>3. Owns(code, Append(Front(stack), g), h, thunks, bl, root)
      BY <1>1, <1>8, <3>2, SameRefs
    <3> QED
      BY <1>1, <3>1, <3>3
  <2> QED
    BY <2>1, <2>2
<1> QED
  BY <1>2, <1>8, <1>10, <1>11

LEMMA LookedIs ==
  ASSUME NEW g, NEW st, NEW extra, NEW out, DOMAIN Top = FrameFields,
         DOMAIN g = FrameFields,
         \A x \in FrameFields \ {"st", "extra", "out", "n"} : g[x] = Looked(Top)[x],
         g.st = st, g.extra = extra, g.out = out
  PROVE  FrameIs(g, Top, Top.temps, Top.pc, st, KeptFn, Top.args, extra, out)
<1>1. /\ Looked(Top).fun = Top.fun /\ Looked(Top).block = Top.block /\ Looked(Top).pc = Top.pc
      /\ Looked(Top).temps = Top.temps /\ Looked(Top).args = Top.args /\ Looked(Top).fn = KeptFn
  BY DEF Looked, KeptFn, FrameFields
<1>2. /\ g.fun = Looked(Top).fun /\ g.block = Looked(Top).block /\ g.pc = Looked(Top).pc
      /\ g.temps = Looked(Top).temps /\ g.args = Looked(Top).args /\ g.fn = Looked(Top).fn
  BY DEF FrameFields
<1> QED
  BY <1>1, <1>2 DEF FrameIs

LEMMA TwoFrames ==
  ASSUME NEW B, NEW x, NEW y, IsSeq(B)
  PROVE  B \o <<x, y>> = Append(Append(B, x), y)
<1> DEFINE s == <<x, y>>
           t == Append(B, x)
           u == Append(t, y)
           n == Len(B)
<1>1. IsSeq(s) /\ Len(s) = 2 /\ s[1] = x /\ s[2] = y
  <2>1. s \in Seq({x, y}) /\ Len(s) = 2 /\ s[1] = x /\ s[2] = y
    OBVIOUS
  <2> QED
    BY <2>1, SeqIs
<1>2. n \in Nat
  BY SeqFacts
<1>3. IsSeq(t) /\ Len(t) = n + 1 /\ t[n + 1] = x /\ \A i \in 1..n : t[i] = B[i]
  BY AppendSeq
<1> HIDE DEF t
<1>4. IsSeq(u) /\ Len(u) = Len(t) + 1 /\ u[Len(t) + 1] = y /\ \A i \in 1..Len(t) : u[i] = t[i]
  BY <1>3, AppendSeq
<1> HIDE DEF u, s
<1>5. /\ IsSeq(B \o s) /\ Len(B \o s) = n + Len(s)
      /\ (\A i \in 1..n : (B \o s)[i] = B[i]) /\ \A i \in 1..Len(s) : (B \o s)[n + i] = s[i]
  <2>1. IsSeq(s)
    BY <1>1
  <2> QED
    BY <2>1, ConcatSeq
<1> DEFINE v == B \o s
<1> HIDE DEF v, n
<1>6. /\ IsSeq(v) /\ Len(v) = n + 2 /\ (\A i \in 1..n : v[i] = B[i]) /\ v[n + 1] = x /\ v[n + 2] = y
  <2>1. /\ IsSeq(v) /\ Len(v) = n + Len(s) /\ (\A i \in 1..n : v[i] = B[i]) /\ \A i \in 1..Len(s) : v[n + i] = s[i]
    BY <1>5 DEF v
  <2>2. 1 \in 1..Len(s) /\ 2 \in 1..Len(s)
    BY <1>1
  <2>3. v[n + 1] = s[1] /\ v[n + 2] = s[2]
    BY <2>1, <2>2
  <2> QED
    BY <1>1, <2>1, <2>3
<1>7. /\ Len(u) = n + 2 /\ u[n + 1] = x /\ u[n + 2] = y /\ \A i \in 1..n : u[i] = B[i]
  BY <1>2, <1>3, <1>4
<1>8. \A i \in 1..n + 2 : i \in 1..n \/ i = n + 1 \/ i = n + 2
  BY <1>2
<1>9. \A i \in 1..Len(v) : v[i] = u[i]
  BY <1>6, <1>7, <1>8
<1>10. v = u
  BY <1>4, <1>6, <1>7, <1>9, EqualSeq
<1> QED
  BY <1>10 DEF v, u, t, s

LEMMA CallFunctionOwns ==
  ASSUME IInv, CallFunction
  PROVE  Owns(code, stack', heap', thunks, blocker', root)
<1> DEFINE fr == Top
           N == <<>>
           u == FnAddr
           g == [Looked(Top) EXCEPT !.st = "call"]
           f == CFrame(u, Top.args)
           S == Append(Below, g)
           h == AfterLookup(Unblocked)
<1>1. /\ Decoding("func") /\ u \in DOMAIN code /\ code[u].kind = "c" /\ Len(code[u].args) = Len(Top.args)
      /\ heap' = clone_all(h, Top.args) /\ blocker' = N /\ stack' = Below \o <<g, f>>
  BY DEF CallFunction, Got
<1>2. /\ IsCode(code) /\ stack # <<>> /\ Top.st = "func" /\ Owns(code, stack, Unblocked, thunks, N, root)
      /\ IsFrame(code, Top) /\ Below = Front(stack) /\ DOMAIN Top = FrameFields
  BY <1>1, RunningFrame
<1>3. Top.extra = N /\ Top.out = N
  BY <1>2, CallFrame DEF CallStages, StageHolds
<1>4. FrameIs(g, Top, Top.temps, Top.pc, "call", KeptFn, Top.args, N, N)
  <2>1. DOMAIN g = FrameFields /\ g.st = "call" /\ g.extra = N /\ g.out = N
    BY <1>2, <1>3 DEF Looked, FrameFields
  <2>2. \A x \in FrameFields \ {"st", "extra", "out", "n"} : g[x] = Looked(Top)[x]
    BY <1>2 DEF Looked, FrameFields
  <2> QED
    BY <1>2, <2>1, <2>2, LookedIs
<1>5. StageHolds("call", g.n, KeptFn, N, N) /\ "call" \in CallStages
  BY DEF StageHolds, CallStages
<1>6. Costless(N)
  BY EmptyIsCostless
<1>7. g.st = "call"
  BY <1>4 DEF FrameIs
<1> HIDE DEF g, N
<1>8. /\ Owns(code, S, h, thunks, N, root) /\ IsFrame(code, g) /\ IsRefs(Top.args)
      /\ \A c \in Pos : Count(Top.args, c) <= FrameCount(code, g, c)
  BY <1>2, <1>4, <1>5, <1>6, LooksUp DEF N
<1>9. IsFrame(code, f) /\ \A c \in Pos : FrameCount(code, f, c) = Count(Top.args, c)
  <2> HIDE DEF u
  <2> QED
    BY <1>1, <1>2, <1>8, Fresh
<1>10. IsSeq(Below)
  BY <1>2, Enter DEF IsStack
<1>11. S # <<>> /\ Last(S) = g /\ stack' = Append(S, f)
  BY <1>1, <1>10, TwoFrames, AppendSeq, FrontOfAppend
<1> HIDE DEF f, S, h
<1>12. Owns(code, Append(S, f), clone_all(h, Top.args), thunks, N, root)
  BY <1>7, <1>8, <1>9, <1>11, Pushes
<1> QED
  BY <1>1, <1>11, <1>12

LEMMA CallNativeOwns ==
  ASSUME IInv, CallNative
  PROVE  Owns(code, stack', heap', thunks, blocker', root)
<1> DEFINE N == <<>>
           e == <<ConstantRef(FnAddr)>>
           g == [Looked(Top) EXCEPT !.st = "args", !.n = 1, !.extra = e]
<1>1. /\ Decoding("func") /\ heap' = AfterLookup(Unblocked) /\ blocker' = N /\ stack' = Append(Below, g)
  BY DEF CallNative, Got, Replace
<1>2. /\ IsCode(code) /\ stack # <<>> /\ Top.st = "func" /\ Owns(code, stack, Unblocked, thunks, N, root)
      /\ IsFrame(code, Top) /\ Below = Front(stack) /\ DOMAIN Top = FrameFields
  BY <1>1, RunningFrame
<1>3. Top.out = N
  BY <1>2, CallFrame DEF CallStages, StageHolds
<1>4. Len(e) = 1 /\ e[1].cell = 0 /\ IsRefs(e)
  <2>1. ConstantRef(FnAddr).cell = 0
    BY DEF ConstantRef
  <2> QED
    BY <2>1, RefsOne
<1>5. Costless(e)
  BY <1>4, ConstantIsCostless
<1> HIDE DEF e
<1>6. DOMAIN g = FrameFields /\ g.st = "args" /\ g.n = 1 /\ g.extra = e /\ g.out = N
  BY <1>2, <1>3 DEF Looked, FrameFields
<1>7. \A x \in FrameFields \ {"st", "extra", "out", "n"} : g[x] = Looked(Top)[x]
  BY <1>2 DEF Looked, FrameFields
<1> HIDE DEF g
<1>8. FrameIs(g, Top, Top.temps, Top.pc, "args", KeptFn, Top.args, e, N)
  BY <1>2, <1>6, <1>7, LookedIs
<1>9. StageHolds("args", g.n, KeptFn, e, N) /\ "args" \in CallStages
  BY <1>4, <1>6 DEF StageHolds, CallStages, Pos
<1> HIDE DEF N
<1>10. Owns(code, Append(Below, g), AfterLookup(Unblocked), thunks, N, root)
  BY <1>2, <1>5, <1>8, <1>9, LooksUp DEF N
<1> QED
  BY <1>1, <1>10

-----------------------------------------------------------------------------
(* Native functions                                                        *)

\* The frame's call goes on, callee and arguments as they are.
GoesOn(cd, fr, g, st, extra, out) == Goes(cd, fr, g, fr.temps, st, fr.fn, fr.args, extra, out)

Weighs(cd, fr, g, extra, out) ==
  \A c \in Pos : /\ FrameCount(cd, fr, c) + (Count(extra, c) + Count(out, c))
                       = FrameCount(cd, g, c) + (Count(fr.extra, c) + Count(fr.out, c))
                  /\ FrameCount(cd, fr, c) \in Nat /\ FrameCount(cd, g, c) \in Nat
                  /\ Count(extra, c) \in Nat /\ Count(out, c) \in Nat
                  /\ Count(fr.extra, c) \in Nat /\ Count(fr.out, c) \in Nat

LEMMA StageCount ==
  ASSUME NEW cd, NEW fr, NEW g, NEW st, NEW extra, NEW out, GoesOn(cd, fr, g, st, extra, out)
  PROVE  IsFrame(cd, g) /\ Weighs(cd, fr, g, extra, out)
<1> DEFINE L == Locals(fr.temps, Size(cd, fr))
           fn == fr.fn
           args == fr.args
           e == fr.extra
           o == fr.out
<1>1. IsFrame(cd, g) /\ Has(cd, fr, g, fr.temps, fr.fn, fr.args, extra, out)
  BY Restage DEF GoesOn
<1>2. IsFrame(cd, fr) /\ IsRefs(extra) /\ IsRefs(out)
  BY DEF Goes, GoesOn
<1>3. \A c \in Pos : /\ FrameCount(cd, fr, c) = (((Count(L, c) + Count(fn, c)) + Count(args, c)) + Count(e, c)) + Count(o, c)
                     /\ Count(L, c) \in Nat /\ Count(fn, c) \in Nat /\ Count(args, c) \in Nat
                     /\ Count(e, c) \in Nat /\ Count(o, c) \in Nat
  BY <1>2, FrameParts
<1>4. \A c \in Pos : FrameCount(cd, g, c) = (((Count(L, c) + Count(fn, c)) + Count(args, c)) + Count(extra, c)) + Count(out, c)
  BY <1>1 DEF Has
<1>5. \A c \in Pos : Count(extra, c) \in Nat /\ Count(out, c) \in Nat
  BY <1>2, CountNat
<1>6. \A c \in Pos : FrameCount(cd, fr, c) \in Nat /\ FrameCount(cd, g, c) \in Nat
  BY <1>1, <1>2, FrameNat DEF IsFrame
<1> HIDE DEF L, fn, args, e, o
<1>7. \A c \in Pos : FrameCount(cd, fr, c) + (Count(extra, c) + Count(out, c))
                       = FrameCount(cd, g, c) + (Count(e, c) + Count(o, c))
  BY <1>3, <1>4, <1>5
<1> QED
  BY <1>1, <1>3, <1>5, <1>6, <1>7 DEF e, o, Weighs

SameHeld(fr, extra, out) ==
  \A c \in Pos : Count(extra, c) + Count(out, c) = Count(fr.extra, c) + Count(fr.out, c)

MoreHeld(fr, extra, out, refs) ==
  \A c \in Pos : Count(extra, c) + Count(out, c) = (Count(fr.extra, c) + Count(fr.out, c)) + Count(refs, c)

LEMMA StageMoves ==
  ASSUME NEW cd, NEW S, NEW h, NEW th, NEW bl, NEW rt, NEW fr, NEW g, NEW st, NEW extra, NEW out,
         Owns(cd, S, h, th, bl, rt), S # <<>>, fr = Last(S),
         GoesOn(cd, fr, g, st, extra, out), SameHeld(fr, extra, out)
  PROVE  Owns(cd, Append(Front(S), g), h, th, bl, rt)
<1>1. IsFrame(cd, g) /\ Weighs(cd, fr, g, extra, out)
  BY StageCount
<1>2. \A c \in Pos : FrameCount(cd, fr, c) = FrameCount(cd, g, c)
  BY <1>1 DEF SameHeld, Weighs
<1>3. IsFrame(cd, g)
  BY <1>1
<1>4. \A c \in Pos : FrameCount(cd, Last(S), c) = FrameCount(cd, g, c)
  BY <1>2
<1> QED
  BY <1>3, <1>4, SameRefs

LEMMA StageGains ==
  ASSUME NEW cd, NEW S, NEW h, NEW th, NEW bl, NEW rt, NEW fr, NEW g, NEW st, NEW extra, NEW out, NEW s,
         Owns(cd, S, h, th, bl, rt), S # <<>>, fr = Last(S),
         GoesOn(cd, fr, g, st, extra, out), MoreHeld(fr, extra, out, s.refs),
         Decoded(s, Rest(cd, S, bl, rt) \o FrameRefs(cd, fr))
  PROVE  Owns(cd, Append(Front(S), g), s.heap, s.thunks, bl, rt)
<1>1. IsFrame(cd, g) /\ Weighs(cd, fr, g, extra, out)
  BY StageCount
<1>2. \A c \in Pos : Count(s.refs, c) \in Nat
  BY CountNat DEF Decoded, IsState
<1>3. \A c \in Pos : FrameCount(cd, g, c) = FrameCount(cd, fr, c) + Count(s.refs, c)
  BY <1>1, <1>2 DEF MoreHeld, Weighs
<1>4. IsFrame(cd, g)
  BY <1>1
<1>5. \A c \in Pos : FrameCount(cd, g, c) = FrameCount(cd, Last(S), c) + Count(s.refs, c)
  BY <1>3
<1>6. Decoded(s, Rest(cd, S, bl, rt) \o FrameRefs(cd, Last(S)))
  OBVIOUS
<1> QED
  BY <1>4, <1>5, <1>6, Gains

LEMMA NextArgOwns ==
  ASSUME IInv, NextArg
  PROVE  Owns(code, stack', heap', thunks, blocker', root)
<1> DEFINE fr == Top
           g == [fr EXCEPT !.n = @ + 1]
<1>1. /\ Decoding("args") /\ stack' = Append(Below, g)
      /\ \/ heap' = Unblocked /\ blocker' = <<>>
         \/ heap' = heap /\ blocker' = blocker
  BY DEF NextArg, Replace
<1>2. /\ stack # <<>> /\ fr.st = "args" /\ Owns(code, stack, heap, thunks, blocker, root)
      /\ Owns(code, stack, Unblocked, thunks, <<>>, root)
      /\ IsFrame(code, fr) /\ fr = Last(stack) /\ Below = Front(stack) /\ DOMAIN fr = FrameFields
  BY <1>1, RunningFrame
<1>3. /\ StageHolds(fr.st, fr.n, fr.fn, fr.extra, fr.out) /\ IsTemps(fr.temps, Size(code, fr))
      /\ IsRefs(fr.fn) /\ IsRefs(fr.args) /\ IsRefs(fr.extra) /\ IsRefs(fr.out) /\ fr.st \in CallStages
  BY <1>2, CallFrame DEF CallStages
<1>4. /\ DOMAIN g = FrameFields /\ g.fun = fr.fun /\ g.block = fr.block /\ g.temps = fr.temps /\ g.pc = fr.pc
      /\ g.st = "args" /\ g.fn = fr.fn /\ g.args = fr.args /\ g.extra = fr.extra /\ g.out = fr.out /\ g.n = fr.n + 1
  BY <1>2 DEF FrameFields
<1> HIDE DEF g
<1>5. FrameIs(g, fr, fr.temps, fr.pc, "args", fr.fn, fr.args, fr.extra, fr.out)
  BY <1>4 DEF FrameIs
<1>6. StageHolds("args", g.n, fr.fn, fr.extra, fr.out) /\ "args" \in CallStages
  <2>1. fr.n \in Pos => fr.n + 1 \in Pos
    BY DEF Pos
  <2> QED
    BY <1>2, <1>3, <1>4, <2>1 DEF StageHolds, CallStages
<1>7. GoesOn(code, fr, g, "args", fr.extra, fr.out)
  BY <1>2, <1>3, <1>5, <1>6 DEF Goes, GoesOn
<1>8. SameHeld(fr, fr.extra, fr.out)
  BY DEF SameHeld
<1> HIDE DEF fr
<1>9. /\ Owns(code, Append(Front(stack), g), heap, thunks, blocker, root)
      /\ Owns(code, Append(Front(stack), g), Unblocked, thunks, <<>>, root)
  BY <1>2, <1>7, <1>8, StageMoves
<1> QED
  BY <1>1, <1>2, <1>9

\* The arguments of a native function have been taken.
LEMMA ArgsTaken ==
  ASSUME NEW kind, IInv, HasArgs(kind)
  PROVE  /\ stack # <<>> /\ Owns(code, stack, heap, thunks, blocker, root)
         /\ IsFrame(code, Top) /\ Top = Last(stack) /\ Below = Front(stack) /\ DOMAIN Top = FrameFields
         /\ Top.st \in CallStages /\ IsTemps(Top.temps, Size(code, Top))
         /\ IsRefs(Top.fn) /\ IsRefs(Top.args) /\ Costless(Top.extra) /\ Top.out = <<>>
<1>1. Decoding("args")
  BY DEF HasArgs
<1>2. /\ stack # <<>> /\ Owns(code, stack, heap, thunks, blocker, root) /\ Top.st = "args"
      /\ IsFrame(code, Top) /\ Top = Last(stack) /\ Below = Front(stack) /\ DOMAIN Top = FrameFields
  BY <1>1, RunningFrame
<1>3. Top.st \in CallStages
  BY <1>2 DEF CallStages
<1>4. /\ StageHolds("args", Top.n, Top.fn, Top.extra, Top.out) /\ IsTemps(Top.temps, Size(code, Top))
      /\ IsRefs(Top.fn) /\ IsRefs(Top.args) /\ IsRefs(Top.extra)
  BY <1>2, <1>3, CallFrame
<1>5. Top.out = <<>> /\ Len(Top.extra) = 1 /\ Top.extra[1].cell = 0
  BY <1>4 DEF StageHolds
<1>6. Costless(Top.extra)
  <2> DEFINE e == Top.extra
  <2>1. IsRefs(e) /\ Len(e) = 1 /\ e[1].cell = 0
    BY <1>4, <1>5
  <2> HIDE DEF e
  <2>2. Costless(e)
    BY <2>1, ConstantIsCostless
  <2> QED
    BY <2>2 DEF e
<1> QED
  BY <1>2, <1>3, <1>4, <1>5, <1>6

\* A frame with nothing more, or less, than callee and arguments.
LEMMA GoesBare ==
  ASSUME NEW cd, NEW fr, NEW g, NEW st, NEW out, IsFrame(cd, fr), fr.st \in CallStages,
         IsTemps(fr.temps, Size(cd, fr)), IsRefs(fr.fn), IsRefs(fr.args), IsRefs(out),
         FrameIs(g, fr, fr.temps, fr.pc, st, fr.fn, fr.args, <<>>, out), st \in CallStages \ {"func", "args"},
         IF st \in {"cbvalue", "take"} THEN Len(out) = 1 ELSE out = <<>>
  PROVE  GoesOn(cd, fr, g, st, <<>>, out)
<1>1. StageHolds(st, g.n, fr.fn, <<>>, out) /\ st \in CallStages
  BY DEF StageHolds
<1> QED
  BY <1>1, RefsEmpty DEF Goes, GoesOn

LEMMA NativeRaiseOwns ==
  ASSUME IInv, NativeRaise
  PROVE  Owns(code, stack', heap, thunks, blocker, root)
<1> DEFINE fr == Top
           N == <<>>
           g == [fr EXCEPT !.st = "err", !.extra = N]
<1>1. HasArgs("raise") /\ stack' = Append(Below, g)
  BY DEF NativeRaise, Replace
<1>2. /\ stack # <<>> /\ Owns(code, stack, heap, thunks, blocker, root)
      /\ IsFrame(code, fr) /\ fr = Last(stack) /\ Below = Front(stack) /\ DOMAIN fr = FrameFields
      /\ fr.st \in CallStages /\ IsTemps(fr.temps, Size(code, fr))
      /\ IsRefs(fr.fn) /\ IsRefs(fr.args) /\ Costless(fr.extra) /\ fr.out = N
  BY <1>1, ArgsTaken
<1>3. FrameIs(g, fr, fr.temps, fr.pc, "err", fr.fn, fr.args, N, N)
  BY <1>2 DEF FrameIs, FrameFields
<1> HIDE DEF g
<1>4. GoesOn(code, fr, g, "err", N, N)
  BY <1>2, <1>3, GoesBare, RefsEmpty DEF CallStages
<1>5. SameHeld(fr, N, N)
  <2>1. \A c \in Pos : Count(fr.extra, c) = 0
    BY <1>2 DEF Costless
  <2>2. \A c \in Pos : Count(N, c) = 0
    BY CountEmpty
  <2>3. \A c \in Pos : Count(fr.out, c) = 0
    BY <1>2, <2>2
  <2> QED
    BY <2>1, <2>2, <2>3 DEF SameHeld
<1> HIDE DEF fr, N
<1>6. Owns(code, Append(Front(stack), g), heap, thunks, blocker, root)
  BY <1>2, <1>4, <1>5, StageMoves
<1> QED
  BY <1>1, <1>2, <1>6

LEMMA NativeLoopOwns ==
  ASSUME IInv, NativeLoop
  PROVE  Owns(code, stack', heap, thunks, blocker, root)
<1> DEFINE fr == Top
           N == <<>>
           g == [fr EXCEPT !.st = "loop", !.n = 0, !.extra = N]
<1>1. HasArgs("backtrace") /\ stack' = Append(Below, g)
  BY DEF NativeLoop, Replace
<1>2. /\ stack # <<>> /\ Owns(code, stack, heap, thunks, blocker, root)
      /\ IsFrame(code, fr) /\ fr = Last(stack) /\ Below = Front(stack) /\ DOMAIN fr = FrameFields
      /\ fr.st \in CallStages /\ IsTemps(fr.temps, Size(code, fr))
      /\ IsRefs(fr.fn) /\ IsRefs(fr.args) /\ Costless(fr.extra) /\ fr.out = N
  BY <1>1, ArgsTaken
<1>3. FrameIs(g, fr, fr.temps, fr.pc, "loop", fr.fn, fr.args, N, N)
  BY <1>2 DEF FrameIs, FrameFields
<1> HIDE DEF g
<1>4. GoesOn(code, fr, g, "loop", N, N)
  BY <1>2, <1>3, GoesBare, RefsEmpty DEF CallStages
<1>5. SameHeld(fr, N, N)
  <2>1. \A c \in Pos : Count(fr.extra, c) = 0
    BY <1>2 DEF Costless
  <2>2. \A c \in Pos : Count(N, c) = 0
    BY CountEmpty
  <2>3. \A c \in Pos : Count(fr.out, c) = 0
    BY <1>2, <2>2
  <2> QED
    BY <2>1, <2>2, <2>3 DEF SameHeld
<1> HIDE DEF fr, N
<1>6. Owns(code, Append(Front(stack), g), heap, thunks, blocker, root)
  BY <1>2, <1>4, <1>5, StageMoves
<1> QED
  BY <1>1, <1>2, <1>6

\* The frame on top declares thunks, with what it holds as it is.
LEMMA ReadsTop ==
  ASSUME Owns(code, stack, heap, thunks, blocker, root), stack # <<>>
  PROVE  Decoded(State, Rest(code, stack, blocker, root) \o FrameRefs(code, Top))
<1>1. DOMAIN State = {"heap", "thunks", "refs"} /\ State.heap = heap /\ State.thunks = thunks /\ State.refs = <<>>
  BY DEF State
<1> HIDE DEF State
<1> QED
  BY <1>1, Reads DEF Top

LEMMA OneConstant ==
  ASSUME NEW R, NEW v, Decoded(State, R)
  PROVE  /\ Decoded(constant(State, v), R) /\ IsRefs(constant(State, v).refs)
         /\ Len(constant(State, v).refs) = 1
<1> DEFINE s == constant(State, v)
<1>1. Decoded(s, R) /\ \E k \in Pos : s.refs = Append(State.refs, Ref(k))
  BY Constants
<1>2. IsRefs(s.refs)
  BY <1>1 DEF Decoded, IsState
<1> HIDE DEF s
<1>3. PICK k \in Pos : s.refs = Append(<<>>, Ref(k))
  BY <1>1 DEF State
<1>4. Len(s.refs) = 1
  BY <1>3, EmptyIsSeq, AppendSeq
<1> QED
  BY <1>1, <1>2, <1>4 DEF s

LEMMA TakesConstant ==
  ASSUME NEW v, NEW g, Owns(code, stack, heap, thunks, blocker, root), stack # <<>>,
         Top.st \in CallStages, Costless(Top.extra), Top.out = <<>>,
         FrameIs(g, Top, Top.temps, Top.pc, "take", Top.fn, Top.args, <<>>, constant(State, v).refs)
  PROVE  Owns(code, Append(Below, g), constant(State, v).heap, constant(State, v).thunks, blocker, root)
<1> DEFINE fr == Top
           s == constant(State, v)
           N == <<>>
<1>1. IsFrame(code, fr) /\ fr = Last(stack) /\ Below = Front(stack)
  BY Enter DEF Top, Below
<1>2. IsTemps(fr.temps, Size(code, fr)) /\ IsRefs(fr.fn) /\ IsRefs(fr.args)
  BY <1>1, CallFrame
<1>3. Decoded(State, Rest(code, stack, blocker, root) \o FrameRefs(code, fr))
  BY ReadsTop
<1>4. Decoded(s, Rest(code, stack, blocker, root) \o FrameRefs(code, fr)) /\ IsRefs(s.refs) /\ Len(s.refs) = 1
  BY <1>3, OneConstant
<1>5. FrameIs(g, fr, fr.temps, fr.pc, "take", fr.fn, fr.args, N, s.refs)
  OBVIOUS
<1> HIDE DEF s
<1>6. GoesOn(code, fr, g, "take", N, s.refs)
  BY <1>1, <1>2, <1>4, <1>5, GoesBare DEF CallStages
<1>7. MoreHeld(fr, N, s.refs, s.refs)
  <2>1. \A c \in Pos : Count(fr.extra, c) = 0
    BY DEF Costless
  <2>2. \A c \in Pos : Count(N, c) = 0
    BY CountEmpty
  <2>3. \A c \in Pos : Count(fr.out, c) = 0
    BY <2>2
  <2>4. \A c \in Pos : Count(s.refs, c) \in Nat
    BY <1>4, CountNat
  <2> QED
    BY <2>1, <2>2, <2>3, <2>4 DEF MoreHeld
<1> HIDE DEF fr, N
<1>8. Owns(code, Append(Front(stack), g), s.heap, s.thunks, blocker, root)
  BY <1>1, <1>4, <1>6, <1>7, StageGains
<1> QED
  BY <1>1, <1>8 DEF s

LEMMA NativeReturnOwns ==
  ASSUME IInv, NativeReturn
  PROVE  Owns(code, stack', heap', thunks', blocker, root)
<1> DEFINE fr == Top
           v == Apply(NativeFn.f, [k \in DOMAIN Top.args |-> Val(Top.args[k])])
           s == constant(State, v)
           g == [fr EXCEPT !.st = "take", !.out = s.refs, !.extra = <<>>]
<1>1. HasArgs("fn") /\ stack' = Append(Below, g) /\ heap' = s.heap /\ thunks' = s.thunks
  BY DEF NativeReturn, Replace
<1> HIDE DEF v
<1>2. /\ stack # <<>> /\ Owns(code, stack, heap, thunks, blocker, root) /\ DOMAIN fr = FrameFields
      /\ fr.st \in CallStages /\ Costless(fr.extra) /\ fr.out = <<>>
  BY <1>1, ArgsTaken
<1>3. FrameIs(g, fr, fr.temps, fr.pc, "take", fr.fn, fr.args, <<>>, s.refs)
  <2> HIDE DEF s
  <2> QED
    BY <1>2 DEF FrameIs, FrameFields
<1> HIDE DEF g
<1>4. Owns(code, Append(Below, g), s.heap, s.thunks, blocker, root)
  BY <1>2, <1>3, TakesConstant
<1> QED
  BY <1>1, <1>4

LEMMA LoopDoneOwns ==
  ASSUME IInv, LoopDone
  PROVE  Owns(code, stack', heap', thunks', blocker, root)
<1> DEFINE fr == Top
           s == constant(State, 0)
           g == [fr EXCEPT !.st = "take", !.n = 0, !.out = s.refs]
<1>1. Decoding("loop") /\ stack' = Append(Below, g) /\ heap' = s.heap /\ thunks' = s.thunks
  BY DEF LoopDone, Replace
<1>2. /\ stack # <<>> /\ Owns(code, stack, heap, thunks, blocker, root) /\ DOMAIN fr = FrameFields
      /\ IsFrame(code, fr) /\ fr.st = "loop"
  BY <1>1, RunningFrame
<1>3. fr.st \in CallStages
  BY <1>2 DEF CallStages
<1>4. fr.extra = <<>> /\ fr.out = <<>>
  BY <1>2, <1>3, CallFrame DEF StageHolds
<1>5. Costless(fr.extra)
  BY <1>4, EmptyIsCostless
<1>6. FrameIs(g, fr, fr.temps, fr.pc, "take", fr.fn, fr.args, <<>>, s.refs)
  <2> HIDE DEF s
  <2> QED
    BY <1>2, <1>4 DEF FrameIs, FrameFields
<1> HIDE DEF g
<1>7. Owns(code, Append(Below, g), s.heap, s.thunks, blocker, root)
  BY <1>2, <1>3, <1>4, <1>5, <1>6, TakesConstant
<1> QED
  BY <1>1, <1>7

LEMMA LoopNextOwns ==
  ASSUME IInv, LoopNext
  PROVE  Owns(code, stack', heap', thunks, blocker', root)
<1> DEFINE fr == Top
           N == <<>>
           o == fr.out
           e == fr.extra
           xs == o \o e
           g == [fr EXCEPT !.st = "loop", !.out = N, !.extra = N]
<1>1. /\ Decoding("cbvalue") /\ stack' = Append(Below, g) /\ heap' = drop_all(Unblocked, xs) /\ blocker' = N
  BY DEF LoopNext, Got, Replace
<1>2. /\ stack # <<>> /\ fr.st = "cbvalue" /\ Owns(code, stack, Unblocked, thunks, N, root)
      /\ IsFrame(code, fr) /\ fr = Last(stack) /\ Below = Front(stack) /\ DOMAIN fr = FrameFields
  BY <1>1, RunningFrame
<1>3. fr.st \in CallStages
  BY <1>2 DEF CallStages
<1>4. IsTemps(fr.temps, Size(code, fr)) /\ IsRefs(fr.fn) /\ IsRefs(fr.args) /\ IsRefs(e) /\ IsRefs(o)
  BY <1>2, <1>3, CallFrame
<1>5. FrameIs(g, fr, fr.temps, fr.pc, "loop", fr.fn, fr.args, N, N)
  BY <1>2 DEF FrameIs, FrameFields
<1> HIDE DEF g
<1>6. GoesOn(code, fr, g, "loop", N, N)
  BY <1>2, <1>3, <1>4, <1>5, GoesBare, RefsEmpty DEF CallStages
<1>7. \A c \in Pos : Count(N, c) = 0
  BY CountEmpty
<1> HIDE DEF N
<1>8. IsFrame(code, g) /\ Weighs(code, fr, g, N, N)
  BY <1>6, StageCount
<1>9. IsRefs(xs) /\ \A c \in Pos : Count(xs, c) = Count(o, c) + Count(e, c)
  <2> HIDE DEF o, e
  <2> QED
    BY <1>4, RefsConcat, CountSum
<1> HIDE DEF xs
<1>10. \A c \in Pos : FrameCount(code, fr, c) = FrameCount(code, g, c) + Count(xs, c)
  BY <1>7, <1>8, <1>9 DEF Weighs
<1> HIDE DEF fr
<1>11. Owns(code, Append(Front(stack), g), drop_all(Unblocked, xs), thunks, N, root)
  BY <1>2, <1>8, <1>9, <1>10, Sheds
<1> QED
  BY <1>1, <1>2, <1>11

LEMMA LoopCallOwns ==
  ASSUME IInv, LoopCall
  PROVE  Owns(code, stack', heap', thunks', blocker, root)
<1> DEFINE fr == Top
           u == Val(fr.args[1])
           vs == <<stack[Len(stack) - fr.n].fun + 1, Val(fr.args[2])>>
           s == DeclareConstants(State, vs)
           rs == s.refs
           g == [fr EXCEPT !.st = "callback", !.extra = rs]
           f == CFrame(u, rs)
           N == <<>>
           S == Append(Below, g)
           R == Rest(code, stack, blocker, root) \o FrameRefs(code, fr)
<1>1. /\ Decoding("loop") /\ u \in DOMAIN code /\ code[u].kind = "c" /\ Len(code[u].args) = 2
      /\ heap' = clone_all(s.heap, rs) /\ thunks' = s.thunks /\ stack' = Below \o <<g, f>>
  BY DEF LoopCall, DeclareConstants
<1>2. /\ IsCode(code) /\ stack # <<>> /\ fr.st = "loop" /\ Owns(code, stack, heap, thunks, blocker, root)
      /\ IsFrame(code, fr) /\ fr = Last(stack) /\ Below = Front(stack) /\ DOMAIN fr = FrameFields
  BY <1>1, RunningFrame
<1>3. fr.st \in CallStages
  BY <1>2 DEF CallStages
<1>4. IsTemps(fr.temps, Size(code, fr)) /\ IsRefs(fr.fn) /\ IsRefs(fr.args) /\ fr.extra = N /\ fr.out = N
  BY <1>2, <1>3, CallFrame DEF StageHolds
<1>5. Decoded(State, R)
  BY <1>2, ReadsTop
<1>6. IsSeq(vs) /\ Len(vs) = 2
  <2> DEFINE x == stack[Len(stack) - fr.n].fun + 1
             y == Val(fr.args[2])
  <2> HIDE DEF x, y
  <2>1. <<x, y>> \in Seq({x, y}) /\ Len(<<x, y>>) = 2
    OBVIOUS
  <2>2. IsSeq(<<x, y>>)
    BY <2>1, SeqIs
  <2> QED
    BY <2>1, <2>2 DEF x, y
<1> HIDE DEF vs, R
<1>7. Decoded(s, R) /\ IsRefs(rs) /\ Len(rs) = 2
  <2>1. Decoded(s, R) /\ Extends(s, State, vs)
    BY <1>5, <1>6, DeclaresConstants
  <2>2. Len(State.refs) = 0
    BY EmptyIsSeq DEF State
  <2> QED
    BY <1>6, <2>1, <2>2 DEF Extends, Decoded, IsState
<1> HIDE DEF s
<1>8. g.st = "callback" /\ FrameIs(g, fr, fr.temps, fr.pc, "callback", fr.fn, fr.args, rs, N)
  <2> HIDE DEF rs
  <2> QED
    BY <1>2, <1>4 DEF FrameIs, FrameFields
<1> HIDE DEF g, rs
<1>9. StageHolds("callback", g.n, fr.fn, rs, N) /\ "callback" \in CallStages
  BY DEF StageHolds, CallStages
<1>10. GoesOn(code, fr, g, "callback", rs, N)
  BY <1>2, <1>3, <1>4, <1>7, <1>8, <1>9, RefsEmpty DEF Goes, GoesOn
<1>11. \A c \in Pos : Count(N, c) = 0
  BY CountEmpty
<1> HIDE DEF N
<1>12. MoreHeld(fr, rs, N, rs)
  <2>1. \A c \in Pos : Count(rs, c) \in Nat
    BY <1>7, CountNat
  <2>2. \A c \in Pos : Count(fr.extra, c) = 0 /\ Count(fr.out, c) = 0
    BY <1>4, <1>11
  <2> QED
    BY <1>11, <2>1, <2>2 DEF MoreHeld
<1>13. IsFrame(code, g) /\ Weighs(code, fr, g, rs, N)
  BY <1>10, StageCount
<1>14. \A c \in Pos : Count(rs, c) <= FrameCount(code, g, c)
  BY <1>4, <1>11, <1>13 DEF Weighs
<1>15. Owns(code, S, s.heap, s.thunks, blocker, root)
  <2>1. MoreHeld(fr, rs, N, s.refs)
    BY <1>12 DEF rs
  <2>2. Decoded(s, Rest(code, stack, blocker, root) \o FrameRefs(code, fr))
    BY <1>7 DEF R
  <2> HIDE DEF fr
  <2>3. Owns(code, Append(Front(stack), g), s.heap, s.thunks, blocker, root)
    BY <1>2, <1>10, <2>1, <2>2, StageGains
  <2> QED
    BY <1>2, <2>3
<1>16. IsFrame(code, f) /\ \A c \in Pos : FrameCount(code, f, c) = Count(rs, c)
  <2> HIDE DEF u
  <2> QED
    BY <1>1, <1>2, <1>7, Fresh
<1>17. IsSeq(Below)
  BY <1>2, Enter DEF IsStack
<1>18. S # <<>> /\ Last(S) = g /\ stack' = Append(S, f)
  BY <1>1, <1>17, TwoFrames, AppendSeq, FrontOfAppend
<1> HIDE DEF f, S
<1>19. Owns(code, Append(S, f), clone_all(s.heap, rs), s.thunks, blocker, root)
  <2>1. Last(S).st \in {"call", "callback"}
    BY <1>8, <1>18
  <2>2. \A c \in Pos : Count(rs, c) <= FrameCount(code, Last(S), c)
    BY <1>14, <1>18
  <2> QED
    BY <1>7, <1>15, <1>16, <1>18, <2>1, <2>2, Pushes
<1> QED
  BY <1>1, <1>18, <1>19

\* A thunk that depends on references twice, the frame keeping its own.
LEMMA DeclaresTwice ==
  ASSUME NEW s, NEW R, NEW xs, NEW d, NEW op, NEW f, Decoded(s, R), s.refs = <<>>, IsRefs(xs), Within(xs, R),
         DOMAIN d = {"heap", "thunks", "refs"}, d.heap = clone_all(clone_all(s.heap, xs), xs),
         d.thunks = s.thunks, d.refs = <<>>
  PROVE  LET t == declare(d, Thunk(op, f, xs, <<>>, xs, 0))
         IN Decoded(t, R) /\ \E k \in Pos : t.refs = Append(<<>>, Ref(k))
<1> DEFINE N == <<>>
           th == Thunk(op, f, xs, N, xs, 0)
           H == Held(R, s.thunks, N)
           H1 == H \o xs
           H2 == H1 \o xs
           E == Holds(th)
<1>1. IsRefs(R) /\ IsThunks(s.thunks) /\ IsPos(s.thunks) /\ Balanced(s.heap, H)
  BY DEF Decoded, IsState, IsThunks
<1>2. IsRefs(N) /\ \A c \in Pos : Count(N, c) = 0
  BY RefsEmpty, CountEmpty
<1>3. d.refs = N /\ d.heap = clone_all(clone_all(s.heap, xs), xs) /\ d.thunks = s.thunks
  OBVIOUS
<1> HIDE DEF N
<1>4. /\ IsRefs(H)
      /\ \A c \in Pos : /\ Count(H, c) = (Count(R, c) + Count(RefSeq(s.thunks), c)) + Count(N, c)
                        /\ Count(R, c) \in Nat /\ Count(RefSeq(s.thunks), c) \in Nat
  BY <1>1, <1>2, HeldCount
<1>5. \A c \in Pos : Count(xs, c) \in Nat
  BY CountNat
<1>6. Within(xs, H)
  BY <1>2, <1>4 DEF Within
<1> HIDE DEF H
<1>7. /\ Balanced(clone_all(s.heap, xs), H1) /\ IsRefs(H1)
      /\ \A c \in Pos : Count(H1, c) = Count(H, c) + Count(xs, c) /\ Count(H, c) \in Nat
  BY <1>1, <1>4, <1>6, BalancedCloneAll, RefsConcat, CountSum, CountNat
<1> HIDE DEF H1
<1>8. Within(xs, H1)
  BY <1>5, <1>7 DEF Within
<1>9. /\ Balanced(d.heap, H2)
      /\ \A c \in Pos : Count(H2, c) = Count(H1, c) + Count(xs, c)
  BY <1>3, <1>7, <1>8, BalancedCloneAll, CountSum
<1> HIDE DEF H2
<1>10. IsThunk(th) /\ E = (xs \o N) \o xs
  BY <1>2, ThunkIs
<1>11. IsRefs(E) /\ \A c \in Pos : Count(E, c) = (Count(xs, c) + Count(N, c)) + Count(xs, c)
  <2>1. IsRefs(N)
    BY <1>2
  <2>2. /\ IsRefs((xs \o N) \o xs)
        /\ \A c \in Pos : Count((xs \o N) \o xs, c) = (Count(xs, c) + Count(N, c)) + Count(xs, c)
    BY <2>1, ThreeRefs
  <2> QED
    BY <1>10, <2>2
<1> HIDE DEF E
<1>12. IsRefs(H \o E) /\ \A c \in Pos : Count(H \o E, c) = Count(H, c) + Count(E, c)
  BY <1>4, <1>11, RefsConcat, CountSum
<1>13. SameCount(H2, H \o E)
  BY <1>2, <1>5, <1>7, <1>9, <1>11, <1>12 DEF SameCount
<1>14. Balanced(d.heap, H \o E)
  BY <1>9, <1>12, <1>13, Rebalance
<1>15. Balanced(d.heap, Held(R, d.thunks, d.refs) \o Holds(th))
  BY <1>3, <1>14 DEF H, E
<1>16. IsState(d)
  <2>1. IsThunks(d.thunks) /\ IsRefs(d.refs)
    BY <1>1, <1>2, <1>3
  <2> QED
    BY <2>1 DEF IsState
<1> HIDE DEF th
<1>17. Decoded(declare(d, th), R) /\ \E k \in Pos : declare(d, th).refs = Append(d.refs, Ref(k))
  BY <1>1, <1>10, <1>15, <1>16, Declares
<1> QED
  BY <1>3, <1>17 DEF th, N

LEMMA CallCompOwns ==
  ASSUME IInv, CallComp
  PROVE  Owns(code, stack', heap', thunks', blocker', root)
<1> DEFINE N == <<>>
           k == code[FnAddr].f
           op == CompOp(code[FnAddr], Top.args)
           h0 == AfterLookup(Unblocked)
           h == clone_all(clone_all(h0, Top.args), Top.args)
           d == [State EXCEPT !.heap = h]
           s == declare(d, Thunk(op, k, Top.args, N, Top.args, 0))
           g1 == [Looked(Top) EXCEPT !.st = "call"]
           g == [Looked(Top) EXCEPT !.st = "take", !.out = s.refs]
           S == Append(Below, g1)
           z == [heap |-> h0, thunks |-> thunks, refs |-> N]
<1>1. /\ Decoding("func") /\ heap' = s.heap /\ thunks' = s.thunks /\ blocker' = N /\ stack' = Append(Below, g)
  BY DEF CallComp, Got, Replace
<1>2. /\ IsCode(code) /\ stack # <<>> /\ Top.st = "func" /\ Owns(code, stack, Unblocked, thunks, N, root)
      /\ IsFrame(code, Top) /\ Below = Front(stack) /\ DOMAIN Top = FrameFields
  BY <1>1, RunningFrame
<1>3. Top.extra = N /\ Top.out = N
  BY <1>2, CallFrame DEF CallStages, StageHolds
<1>4. FrameIs(g1, Top, Top.temps, Top.pc, "call", KeptFn, Top.args, N, N)
  <2>1. DOMAIN g1 = FrameFields /\ g1.st = "call" /\ g1.extra = N /\ g1.out = N
    BY <1>2, <1>3 DEF Looked, FrameFields
  <2>2. \A x \in FrameFields \ {"st", "extra", "out", "n"} : g1[x] = Looked(Top)[x]
    BY <1>2 DEF Looked, FrameFields
  <2> QED
    BY <1>2, <2>1, <2>2, LookedIs
<1>5. StageHolds("call", g1.n, KeptFn, N, N) /\ "call" \in CallStages
  BY DEF StageHolds, CallStages
<1>6. Costless(N)
  BY EmptyIsCostless
<1>7. FrameIs(g, g1, g1.temps, g1.pc, "take", g1.fn, g1.args, N, s.refs) /\ g1.args = Top.args
  <2> HIDE DEF s
  <2>1. /\ DOMAIN Looked(Top) = FrameFields
        /\ Looked(Top).extra = N /\ Looked(Top).args = Top.args
    BY <1>2, <1>3 DEF Looked, FrameFields
  <2> HIDE DEF N
  <2> QED
    BY <2>1 DEF FrameIs, FrameFields
<1> HIDE DEF g, g1, h0
<1>8. /\ Owns(code, S, h0, thunks, N, root) /\ IsFrame(code, g1) /\ IsRefs(Top.args)
      /\ \A c \in Pos : Count(Top.args, c) <= FrameCount(code, g1, c)
  <2> HIDE DEF N
  <2> QED
    BY <1>2, <1>4, <1>5, <1>6, LooksUp DEF N, h0
<1>9. S # <<>> /\ Last(S) = g1 /\ Front(S) = Below
  <2>1. IsSeq(Below)
    BY <1>2, Enter DEF IsStack
  <2> QED
    BY <2>1, AppendSeq, FrontOfAppend
<1> DEFINE X == Rest(code, S, N, root)
           F == FrameRefs(code, g1)
           R == X \o F
<1> HIDE DEF S
<1>10. Decoded(z, R)
  BY <1>8, <1>9, Reads
<1>11. Within(Top.args, R)
  <2>1. IsRefs(X)
    BY <1>8, <1>9, TopCount
  <2>2. IsRefs(F) /\ \A c \in Pos : Count(F, c) = FrameCount(code, g1, c)
    BY <1>8, FrameSum DEF IsFrame
  <2> HIDE DEF X, F
  <2>3. \A c \in Pos : Count(R, c) = Count(X, c) + Count(F, c) /\ Count(X, c) \in Nat /\ Count(F, c) \in Nat
    BY <2>1, <2>2, CountSum, CountNat
  <2>4. \A c \in Pos : Count(Top.args, c) \in Nat
    BY <1>8, CountNat
  <2> QED
    BY <1>8, <2>2, <2>3, <2>4 DEF Within
<1>12. /\ DOMAIN d = {"heap", "thunks", "refs"} /\ d.heap = h /\ d.thunks = thunks /\ d.refs = <<>>
       /\ z.heap = h0 /\ z.thunks = thunks /\ z.refs = <<>>
  BY DEF State
<1> HIDE DEF d, z, R
<1>13. Decoded(s, R) /\ \E j \in Pos : s.refs = Append(<<>>, Ref(j))
  <2> DEFINE xs == Top.args
  <2>1. IsRefs(xs) /\ Within(xs, R) /\ d.heap = clone_all(clone_all(z.heap, xs), xs) /\ d.thunks = z.thunks
    BY <1>8, <1>11, <1>12
  <2> HIDE DEF xs, k, op
  <2>2. LET t == declare(d, Thunk(op, k, xs, <<>>, xs, 0))
        IN Decoded(t, R) /\ \E j \in Pos : t.refs = Append(<<>>, Ref(j))
    BY <1>10, <1>12, <2>1, DeclaresTwice
  <2> QED
    BY <2>2 DEF xs
<1> HIDE DEF s
<1>14. IsRefs(s.refs) /\ Len(s.refs) = 1
  BY <1>13, EmptyIsSeq, AppendSeq DEF Decoded, IsState
<1>15. /\ g1.st \in CallStages /\ IsTemps(g1.temps, Size(code, g1)) /\ IsRefs(g1.fn) /\ IsRefs(g1.args)
       /\ g1.extra = N /\ g1.out = N
  BY <1>4, <1>5, <1>8, CallFrame DEF FrameIs
<1>16. GoesOn(code, g1, g, "take", N, s.refs)
  BY <1>7, <1>8, <1>14, <1>15, GoesBare DEF CallStages
<1>17. MoreHeld(g1, N, s.refs, s.refs)
  <2>1. \A c \in Pos : Count(N, c) = 0
    BY CountEmpty
  <2>2. \A c \in Pos : Count(s.refs, c) \in Nat
    BY <1>14, CountNat
  <2> HIDE DEF N
  <2> QED
    BY <1>15, <2>1, <2>2 DEF MoreHeld
<1> HIDE DEF N
<1>18. Owns(code, Append(Front(S), g), s.heap, s.thunks, N, root)
  <2>1. Decoded(s, Rest(code, S, N, root) \o FrameRefs(code, g1))
    BY <1>13 DEF R
  <2> QED
    BY <1>8, <1>9, <1>16, <1>17, <2>1, StageGains
<1> QED
  BY <1>1, <1>9, <1>18

-----------------------------------------------------------------------------
(* The operands of a call, and its result                                  *)

LEMMA DecodedSame ==
  ASSUME NEW s, NEW R, NEW Q, Decoded(s, R), IsRefs(Q), SameCount(R, Q)
  PROVE  Decoded(s, Q)
<1> DEFINE th == s.thunks
           rs == s.refs
           A == Held(R, th, rs)
           B == Held(Q, th, rs)
<1>1. IsState(s) /\ IsRefs(R) /\ IsThunks(th) /\ IsRefs(rs) /\ Balanced(s.heap, A)
  BY DEF Decoded, IsState
<1>2. IsPos(th)
  BY <1>1 DEF IsThunks
<1> HIDE DEF th, rs
<1>3. \A c \in Pos : Count(A, c) = (Count(R, c) + Count(RefSeq(th), c)) + Count(rs, c)
  BY <1>1, <1>2, HeldCount
<1>4. IsRefs(B) /\ \A c \in Pos : Count(B, c) = (Count(Q, c) + Count(RefSeq(th), c)) + Count(rs, c)
  BY <1>1, <1>2, HeldCount
<1> HIDE DEF A, B
<1>5. SameCount(A, B)
  BY <1>3, <1>4 DEF SameCount
<1>6. Balanced(s.heap, B)
  BY <1>1, <1>4, <1>5, Rebalance
<1> QED
  BY <1>1, <1>6 DEF Decoded, B, th, rs

\* A frame that decodes holds its locals.
LEMMA DecodingFrame ==
  ASSUME NEW cd, NEW fr, IsFrame(cd, fr), fr.st = "decode"
  PROVE  \A c \in Pos : /\ FrameCount(cd, fr, c) = Count(Locals(fr.temps, Size(cd, fr)), c)
                        /\ Count(Locals(fr.temps, Size(cd, fr)), c) \in Nat
<1> DEFINE N == <<>>
           L == Locals(fr.temps, Size(cd, fr))
<1>1. fr.fn = N /\ fr.args = N /\ fr.extra = N /\ fr.out = N
  BY DEF IsFrame, AtStage
<1>2. \A c \in Pos : Count(N, c) = 0
  BY CountEmpty
<1>3. \A c \in Pos : /\ FrameCount(cd, fr, c) = (((Count(L, c) + Count(N, c)) + Count(N, c)) + Count(N, c)) + Count(N, c)
                     /\ Count(L, c) \in Nat
  BY <1>1, FrameParts
<1> QED
  BY <1>2, <1>3

LEMMA DecodeHeldOwns ==
  ASSUME IInv, DecodeHeld
  PROVE  Owns(code, stack', heap', thunks', blocker, root)
<1> DEFINE ops == {"call", "invoke", "condbr", "switch"}
           fr == Top
           X == Elsewhere(code, Below, blocker, root)
           n == Size(code, fr)
           L == Locals(fr.temps, n)
           s == decode_operands(State, fr, I.operands)
           rs == s.refs
           fn == <<Head(rs)>>
           args == Tail(rs)
           st == IF I.op \in {"call", "invoke"} THEN "func" ELSE "cond"
           g == [fr EXCEPT !.fn = fn, !.args = args, !.st = st]
           N == <<>>
           F == FrameRefs(code, fr)
<1>1. AtCode(ops) /\ stack' = Append(Below, g) /\ heap' = s.heap /\ thunks' = s.thunks
  BY DEF DecodeHeld, Replace
<1>2. /\ IsCode(code) /\ Owns(code, stack, heap, thunks, blocker, root) /\ stack # <<>>
      /\ IsFrame(code, fr) /\ IsRefs(X) /\ n \in Nat /\ IsTemps(fr.temps, n)
      /\ fr.st = "decode" /\ fr.pc # 0 /\ I.op \in ops
      /\ fr.fn = N /\ fr.args = N /\ fr.extra = N /\ fr.out = N
      /\ Decoded(s, X \o L) /\ Len(rs) = Len(I.operands)
  BY <1>1, DecodesOperands
<1>3. I = InstrOf(code, fr) /\ IsInstr(I, n)
  BY <1>2, AtInstr
<1>4. HasOperands(I) /\ IsSeq(I.operands)
  BY <1>3 DEF IsInstr
<1>5. IsRefs(rs) /\ IsSeq(rs) /\ Len(rs) >= 1 /\ (I.op \in {"condbr", "switch"} => Len(rs) = 1)
  <2>1. IsRefs(rs) /\ IsSeq(rs)
    BY <1>2 DEF Decoded, IsState, IsRefs
  <2>2. I.op \in {"call", "invoke"} => Len(I.operands) >= 1
    BY <1>4 DEF HasOperands
  <2>3. I.op \in {"condbr", "switch"} => Len(I.operands) = 1
    BY <1>4 DEF HasOperands
  <2> QED
    <3>1. I.op \in {"call", "invoke"} \/ I.op \in {"condbr", "switch"}
      BY <1>2
    <3>2. Len(rs) = Len(I.operands)
      BY <1>2
    <3>3. Len(rs) >= 1 /\ (I.op \in {"condbr", "switch"} => Len(rs) = 1)
      <4> DEFINE l == Len(rs)
                 m == Len(I.operands)
                 a == I.op \in {"call", "invoke"}
                 b == I.op \in {"condbr", "switch"}
      <4>1. (a => m >= 1) /\ (b => m = 1) /\ (a \/ b) /\ l = m
        BY <2>2, <2>3, <3>1, <3>2
      <4> HIDE DEF l, m, a, b
      <4>2. l >= 1 /\ (b => l = 1)
        BY <4>1
      <4> QED
        BY <4>2 DEF l, b
    <3> QED
      BY <2>1, <3>3
<1> HIDE DEF s
<1>6. rs # <<>> /\ Len(rs) \in Nat
  BY <1>5, SeqFacts
<1> HIDE DEF rs
<1>7. /\ IsSeq(args) /\ Len(args) = Len(rs) - 1 /\ Head(rs) = rs[1]
      /\ \A i \in 1..Len(rs) - 1 : args[i] = rs[i + 1]
  BY <1>5, <1>6, TailSeq
<1>8. IsRefs(fn) /\ IsRefs(args)
  <2>1. \A i \in 1..Len(rs) : rs[i].cell \in Nat
    BY <1>5 DEF IsRefs
  <2>2. 1 \in 1..Len(rs) /\ \A i \in 1..Len(rs) - 1 : i + 1 \in 1..Len(rs)
    BY <1>5, <1>6
  <2>3. rs[1].cell \in Nat /\ \A i \in 1..Len(rs) - 1 : args[i].cell \in Nat
    <3> HIDE DEF args
    <3> QED
      BY <1>7, <2>1, <2>2
  <2>4. IsRefs(<<rs[1]>>)
    BY <2>3, RefsOne
  <2> HIDE DEF args
  <2> QED
    BY <1>7, <2>3, <2>4 DEF IsRefs
<1>9. \A c \in Pos : Count(rs, c) = Count(fn, c) + Count(args, c)
  BY <1>5, <1>6, CountTail, CountOne
<1>10. I.op \in {"condbr", "switch"} => args = N
  <2>1. IsSeq(args) /\ Len(args) = Len(rs) - 1
    BY <1>7
  <2> HIDE DEF args
  <2>2. Len(args) = 0 => args = N
    BY <2>1, SeqFacts
  <2> QED
    BY <1>5, <2>1, <2>2
<1>11. Len(fn) = 1
  OBVIOUS
<1> HIDE DEF fn, args
<1>12. FrameIs(g, fr, fr.temps, fr.pc, st, fn, args, N, N)
  <2>1. DOMAIN fr = FrameFields
    BY <1>2 DEF IsFrame
  <2> HIDE DEF st
  <2> QED
    BY <1>2, <2>1 DEF FrameIs, FrameFields
<1>13. fr.pc \in 0..Len(BlockOf(code, fr).code) /\ fr.pc >= 1
  <2>1. fr.pc \in 0..Len(BlockOf(code, fr).code)
    BY <1>2 DEF IsFrame, Placed
  <2> QED
    BY <1>2, <2>1
<1>14. IsRefs(N) /\ \A c \in Pos : Count(N, c) = 0
  BY RefsEmpty, CountEmpty
<1>15. g.st = st /\ g.fn = fn /\ g.args = args /\ g.extra = <<>> /\ g.out = <<>> /\ g.pc >= 1
  BY <1>12, <1>13 DEF FrameIs
<1> HIDE DEF g, N, st
<1>16. /\ DOMAIN g = FrameFields /\ Placed(code, g) /\ HasRefs(code, g) /\ InstrOf(code, g) = I
       /\ \A c \in Pos : FrameCount(code, g, c) = (((Count(L, c) + Count(fn, c)) + Count(args, c)) + Count(N, c)) + Count(N, c)
  <2> DEFINE pc == fr.pc
  <2>1. FrameIs(g, fr, fr.temps, pc, st, fn, args, N, N) /\ pc \in 0..Len(BlockOf(code, fr).code)
    BY <1>12, <1>13
  <2>2. IsFrame(code, fr) /\ IsTemps(fr.temps, Size(code, fr)) /\ IsRefs(fn) /\ IsRefs(args) /\ IsRefs(N)
    BY <1>2, <1>8, <1>14
  <2> HIDE DEF pc
  <2>3. /\ DOMAIN g = FrameFields /\ Placed(code, g) /\ HasRefs(code, g) /\ (pc = fr.pc => InstrOf(code, g) = InstrOf(code, fr))
        /\ \A c \in Pos : FrameCount(code, g, c) = (((Count(Locals(fr.temps, Size(code, fr)), c) + Count(fn, c)) + Count(args, c))
                                                     + Count(N, c)) + Count(N, c)
    <3> HIDE DEF fr
    <3> QED
      BY <2>1, <2>2, FrameMoves
  <2> QED
    BY <1>3, <2>3 DEF pc
<1>17. AtStage(code, g)
  <2>1. CASE I.op \in {"call", "invoke"}
    BY <1>11, <1>15, <1>16, <2>1 DEF AtStage, st
  <2>2. CASE I.op \in {"condbr", "switch"}
    BY <1>10, <1>11, <1>15, <1>16, <2>2 DEF AtStage, st, N
  <2> QED
    BY <1>2, <2>1, <2>2
<1>18. IsFrame(code, g)
  BY <1>16, <1>17 DEF IsFrame
<1>19. \A c \in Pos : FrameCount(code, fr, c) = Count(L, c) /\ Count(L, c) \in Nat
  BY <1>2, DecodingFrame
<1>20. \A c \in Pos : FrameCount(code, g, c) = FrameCount(code, fr, c) + Count(rs, c)
  <2>1. \A c \in Pos : Count(fn, c) \in Nat /\ Count(args, c) \in Nat
    BY <1>8, CountNat
  <2> QED
    BY <1>9, <1>14, <1>16, <1>19, <2>1
<1>21. Decoded(s, X \o F)
  <2>1. IsRefs(F) /\ \A c \in Pos : Count(F, c) = FrameCount(code, fr, c)
    BY <1>2, FrameSum DEF IsFrame
  <2>2. IsRefs(L)
    BY <1>2, LocalsRefs
  <2> HIDE DEF F, L, X
  <2>3. /\ IsRefs(X \o F) /\ \A c \in Pos : Count(X \o F, c) = Count(X, c) + Count(F, c)
        /\ \A c \in Pos : Count(X \o L, c) = Count(X, c) + Count(L, c)
    BY <1>2, <2>1, <2>2, RefsConcat, CountSum
  <2>4. SameCount(X \o L, X \o F)
    BY <1>19, <2>1, <2>3 DEF SameCount
  <2> QED
    BY <1>2, <2>3, <2>4, DecodedSame
<1>22. Owns(code, Append(Front(stack), g), s.heap, s.thunks, blocker, root)
  <2>1. Decoded(s, Rest(code, stack, blocker, root) \o FrameRefs(code, Last(stack)))
    BY <1>21 DEF Rest, X, Top, Below
  <2>2. \A c \in Pos : FrameCount(code, g, c) = FrameCount(code, Last(stack), c) + Count(s.refs, c)
    BY <1>20 DEF Top, rs
  <2> QED
    BY <1>2, <1>18, <2>1, <2>2, Gains
<1> QED
  BY <1>1, <1>22 DEF Below

\* A delivered result is assigned, callee and arguments staying where they are.
LEMMA TakesResult ==
  ASSUME NEW dest \in 0..(Size(code, Top) - 1) \cup {NoLocal}, NEW a, NEW g,
         Owns(code, stack, heap, thunks, blocker, root), stack # <<>>, Top.st = "take",
         a = assigned(heap, Top.temps, dest, Top.out[1]),
         FrameIs(g, Top, a.temps, Top.pc, "call", Top.fn, Top.args, <<>>, <<>>)
  PROVE  /\ Owns(code, Append(Below, g), a.heap, thunks, blocker, root)
         /\ IsFrame(code, g) /\ IsTemps(a.temps, Size(code, Top))
         /\ \A c \in Pos : FrameCount(code, g, c)
                             = (Count(Locals(a.temps, Size(code, Top)), c) + Count(Top.fn, c)) + Count(Top.args, c)
<1> DEFINE fr == Top
           n == Size(code, fr)
           L == Locals(fr.temps, n)
           M == Locals(a.temps, n)
           X == Rest(code, stack, blocker, root)
           u == RefSeq(thunks)
           fn == fr.fn
           args == fr.args
           x == fr.out[1]
           o == <<x>>
           N == <<>>
           V == (X \o u) \o fn
           Y == V \o args
           P == Around(X, code, fr, thunks)
<1>1. /\ IsRefs(X) /\ IsFrame(code, fr) /\ IsThunks(thunks) /\ Balanced(heap, P)
      /\ \A c \in Pos : /\ Count(P, c) = (Count(X, c) + FrameCount(code, fr, c)) + Count(u, c)
                        /\ Count(X, c) \in Nat /\ Count(u, c) \in Nat
  BY TopCount DEF Top
<1>2. fr.st \in CallStages
  BY DEF CallStages
<1>3. /\ IsTemps(fr.temps, n) /\ IsRefs(fn) /\ IsRefs(args) /\ fr.extra = N /\ IsRefs(fr.out) /\ Len(fr.out) = 1
  BY <1>1, <1>2, CallFrame DEF StageHolds
<1>4. fr.out = o /\ x.cell \in Nat
  <2> DEFINE q == fr.out
  <2>1. IsRefs(q) /\ Len(q) = 1
    BY <1>3
  <2> HIDE DEF q
  <2>2. q = <<q[1]>> /\ q[1].cell \in Nat
    BY <2>1, SingleSeq DEF IsRefs
  <2> QED
    BY <2>2 DEF q
<1>5. IsRefs(N) /\ \A c \in Pos : Count(N, c) = 0
  BY RefsEmpty, CountEmpty
<1>6. n \in Nat /\ \A c \in Pos : /\ FrameCount(code, fr, c) = (((Count(L, c) + Count(fn, c)) + Count(args, c)) + Count(N, c)) + Count(o, c)
                                  /\ Count(L, c) \in Nat /\ Count(fn, c) \in Nat /\ Count(args, c) \in Nat /\ Count(o, c) \in Nat
  BY <1>1, <1>3, <1>4, FrameParts
<1>7. IsRefs(u) /\ IsRefs(L) /\ IsRefs(o)
  BY <1>1, <1>3, <1>4, <1>6, RefSeqRefs, LocalsRefs, RefsOne DEF IsThunks
<1> HIDE DEF L, u, o, fn, args, X, P
<1>8. IsRefs(V) /\ \A c \in Pos : Count(V, c) = (Count(X, c) + Count(u, c)) + Count(fn, c)
  BY <1>1, <1>3, <1>7, ThreeRefs
<1> HIDE DEF V
<1>9. IsRefs(Y) /\ \A c \in Pos : Count(Y, c) = Count(V, c) + Count(args, c)
  BY <1>3, <1>8, RefsConcat, CountSum
<1> HIDE DEF Y
<1>10. /\ IsRefs((Y \o L) \o o)
       /\ \A c \in Pos : Count((Y \o L) \o o, c) = (Count(Y, c) + Count(L, c)) + Count(o, c)
  BY <1>7, <1>9, ThreeRefs
<1> DEFINE Q == (Y \o L) \o o
<1> HIDE DEF Q, N
<1>11. SameCount(P, Q)
  BY <1>1, <1>5, <1>6, <1>8, <1>9, <1>10 DEF SameCount, Q
<1>12. Balanced(heap, Q)
  BY <1>1, <1>10, <1>11, Rebalance DEF Q
<1>13. Balanced(heap, (Y \o Locals(fr.temps, n)) \o <<x>>)
  BY <1>12 DEF Q, L, o
<1>14. IsTemps(a.temps, n) /\ Balanced(a.heap, Y \o M)
  <2> DEFINE b == assigned(heap, fr.temps, dest, x)
  <2>1. dest \in 0..(n - 1) \cup {NoLocal} /\ a = b
    OBVIOUS
  <2>2. n \in Nat /\ x.cell \in Nat /\ IsTemps(fr.temps, n) /\ IsRefs(Y)
    BY <1>3, <1>4, <1>6, <1>9
  <2>3. IsTemps(b.temps, n) /\ Balanced(b.heap, Y \o Locals(b.temps, n))
    <3> HIDE DEF n, fr, x
    <3> QED
      BY <1>13, <2>1, <2>2, Assigns
  <2> HIDE DEF b
  <2> QED
    BY <2>1, <2>3
<1>15. IsRefs(M) /\ \A c \in Pos : Count(M, c) \in Nat
  BY <1>6, <1>14, LocalsRefs
<1>16. /\ IsFrame(code, g)
       /\ \A c \in Pos : FrameCount(code, g, c) = (((Count(M, c) + Count(fn, c)) + Count(args, c)) + Count(N, c)) + Count(N, c)
  <2>1. FrameIs(g, fr, a.temps, fr.pc, "call", fn, args, N, N) /\ StageHolds("call", g.n, fn, N, N) /\ "call" \in CallStages
    BY DEF fn, args, N, StageHolds, CallStages
  <2>2. Goes(code, fr, g, a.temps, "call", fn, args, N, N)
    BY <1>1, <1>2, <1>3, <1>5, <1>14, <2>1 DEF Goes
  <2>3. IsFrame(code, g) /\ Has(code, fr, g, a.temps, fn, args, N, N)
    <3> HIDE DEF fr
    <3> QED
      BY <2>2, Restage
  <2> QED
    BY <2>3 DEF Has
<1> HIDE DEF M
<1>17. \A c \in Pos : FrameCount(code, g, c) = (Count(M, c) + Count(fn, c)) + Count(args, c)
  BY <1>5, <1>6, <1>15, <1>16
<1>18. \A c \in Pos : Count(Y \o M, c) = Count(Y, c) + Count(M, c)
  BY <1>9, <1>15, CountSum
<1> DEFINE Z == Y \o M
<1> HIDE DEF Z
<1>19. \A c \in Pos : Count(Z, c) = (Count(X, c) + FrameCount(code, g, c)) + Count(u, c)
  BY <1>1, <1>6, <1>8, <1>9, <1>15, <1>17, <1>18 DEF Z
<1>20. Owns(code, Append(Front(stack), g), a.heap, thunks, blocker, root)
  <2>1. Balanced(a.heap, Z) /\ IsFrame(code, g) /\ IsThunks(thunks)
    BY <1>1, <1>14, <1>16 DEF Z
  <2>2. \A c \in Pos : Count(Z, c) = (Count(Rest(code, stack, blocker, root), c) + FrameCount(code, g, c)) + Count(RefSeq(thunks), c)
    BY <1>19 DEF X, u
  <2> QED
    BY <2>1, <2>2, Turns
<1> QED
  BY <1>14, <1>16, <1>17, <1>20 DEF M, fn, args, Below

LEMMA TakeSheds ==
  ASSUME NEW cd, NEW B, NEW g1, NEW g, NEW h, NEW th, NEW bl, NEW rt, NEW l, NEW fn, NEW args,
         Owns(cd, Append(B, g1), h, th, bl, rt), IsSeq(B), IsFrame(cd, g), IsRefs(l), IsRefs(fn), IsRefs(args),
         \A c \in Pos : FrameCount(cd, g1, c) = (Count(l, c) + Count(fn, c)) + Count(args, c),
         \A c \in Pos : FrameCount(cd, g, c) = Count(l, c)
  PROVE  Owns(cd, Append(B, g), drop_all(h, fn \o args), th, bl, rt)
<1> DEFINE S == Append(B, g1)
           xs == fn \o args
<1>1. S # <<>> /\ Last(S) = g1 /\ Front(S) = B
  BY AppendSeq, FrontOfAppend
<1>2. Owns(cd, S, h, th, bl, rt)
  OBVIOUS
<1>3. IsRefs(xs) /\ \A c \in Pos : Count(xs, c) = Count(fn, c) + Count(args, c)
  BY RefsConcat, CountSum
<1> HIDE DEF S, xs
<1>4. \A c \in Pos : Count(l, c) \in Nat /\ Count(fn, c) \in Nat /\ Count(args, c) \in Nat
  BY CountNat
<1>5. \A c \in Pos : FrameCount(cd, Last(S), c) = FrameCount(cd, g, c) + Count(xs, c)
  BY <1>1, <1>3, <1>4
<1>6. Owns(cd, Append(Front(S), g), drop_all(h, xs), th, bl, rt)
  BY <1>1, <1>2, <1>3, <1>5, Sheds
<1> QED
  BY <1>1, <1>6 DEF xs

LEMMA TakeOwns ==
  ASSUME IInv, Take
  PROVE  Owns(code, stack', heap', thunks, blocker, root)
<1> DEFINE a == assigned(heap, Top.temps, I.dest, Top.out[1])
           N == <<>>
           f == [Top EXCEPT !.temps = a.temps, !.st = "decode", !.fn = N, !.args = N, !.n = 0, !.out = N]
           g == IF I.op = "invoke" THEN JumpTo(f, I.targets[1]) ELSE [f EXCEPT !.pc = @ + 1]
           g1 == [Top EXCEPT !.temps = a.temps, !.st = "call", !.out = N]
           fn == Top.fn
           args == Top.args
           xs == fn \o args
           S == Append(Below, g1)
           n == Size(code, Top)
<1>1. Decoding("take") /\ stack' = Append(Below, g) /\ heap' = drop_all(a.heap, xs)
  BY DEF Take, Replace
<1>2. /\ IsCode(code) /\ stack # <<>> /\ Top.st = "take" /\ Owns(code, stack, heap, thunks, blocker, root)
      /\ IsFrame(code, Top) /\ Top = Last(stack) /\ Below = Front(stack) /\ DOMAIN Top = FrameFields
  BY <1>1, RunningFrame
<1>3. Top.st \in CallStages
  BY <1>2 DEF CallStages
<1>4. IsRefs(fn) /\ IsRefs(args) /\ Top.extra = N /\ Top.pc # 0 /\ InstrOf(code, Top).op \in {"call", "invoke"}
  BY <1>2, <1>3, CallFrame DEF StageHolds
<1>5. /\ I = InstrOf(code, Top) /\ IsInstr(I, n)
      /\ I.op \in PlainOps => Top.pc + 1 \in 0..Len(BlockOf(code, Top).code)
      /\ I.op \in TermOps => IsTerm(I, n, Len(code[Top.fun].blocks))
  BY <1>2, <1>4, AtInstr
<1>6. I.dest \in 0..(n - 1) \cup {NoLocal} /\ I.op \in {"call", "invoke"}
  BY <1>4, <1>5 DEF IsInstr
<1>7. FrameIs(g1, Top, a.temps, Top.pc, "call", fn, args, N, N)
  <2> HIDE DEF a
  <2> QED
    BY <1>2, <1>4 DEF FrameIs, FrameFields
<1>10. n \in Nat
  BY <1>2, FrameParts
<1>11. /\ Owns(code, S, a.heap, thunks, blocker, root) /\ IsFrame(code, g1) /\ IsTemps(a.temps, n)
       /\ \A c \in Pos : FrameCount(code, g1, c) = (Count(Locals(a.temps, n), c) + Count(fn, c)) + Count(args, c)
  <2> DEFINE d == I.dest
  <2>1. d \in 0..(n - 1) \cup {NoLocal} /\ a = assigned(heap, Top.temps, d, Top.out[1])
    BY <1>6
  <2> HIDE DEF a, d, g1
  <2>2. FrameIs(g1, Top, a.temps, Top.pc, "call", Top.fn, Top.args, <<>>, <<>>)
    BY <1>7
  <2>3. Owns(code, stack, heap, thunks, blocker, root) /\ stack # <<>> /\ Top.st = "take"
    BY <1>2
  <2> QED
    BY <2>1, <2>2, <2>3, TakesResult
<1>8. CASE I.op = "invoke"
  <2> DEFINE t == I.targets[1]
  <2>1. JumpIs(g, g1, a.temps, t)
    <3> HIDE DEF a, t
    <3>1. g = JumpTo(f, t)
      BY <1>8 DEF t
    <3> HIDE DEF g
    <3> QED
      BY <1>2, <1>4, <3>1 DEF JumpIs, JumpTo, FrameFields
  <2>2. t \in 0..(Len(code[Top.fun].blocks) - 1)
    <3>1. IsTerm(I, n, Len(code[Top.fun].blocks))
      BY <1>5, <1>8 DEF TermOps
    <3>2. IsSeq(I.targets) /\ Len(I.targets) >= 1
      BY <1>8, <3>1 DEF IsTerm
    <3>3. Len(I.targets) \in Nat
      BY <3>2, SeqFacts
    <3>4. 1 \in 1..Len(I.targets)
      BY <3>2, <3>3
    <3> QED
      BY <3>1, <3>4, TargetAt
  <2> HIDE DEF t, g, g1
  <2>3. /\ Owns(code, S, a.heap, thunks, blocker, root) /\ IsFrame(code, g1) /\ IsTemps(a.temps, n)
        /\ \A c \in Pos : FrameCount(code, g1, c) = (Count(Locals(a.temps, n), c) + Count(fn, c)) + Count(args, c)
    BY <1>11
  <2>4. g1.fun = Top.fun /\ Size(code, g1) = n
    BY <1>7 DEF FrameIs, Size
  <2> HIDE DEF a, n
  <2>5. IsFrame(code, g) /\ \A c \in Pos : FrameCount(code, g, c) = Count(Locals(a.temps, n), c)
    <3>1. IsTemps(a.temps, Size(code, g1)) /\ t \in 0..(Len(code[g1.fun].blocks) - 1)
      BY <2>2, <2>3, <2>4
    <3>2. IsFrame(code, g) /\ \A c \in Pos : FrameCount(code, g, c) = Count(Locals(a.temps, Size(code, g1)), c)
      BY <1>2, <2>1, <2>3, <3>1, FrameJumps
    <3> QED
      BY <2>4, <3>2
  <2>6. IsSeq(Below)
    BY <1>2, Enter DEF IsStack
  <2>7. IsRefs(Locals(a.temps, n))
    BY <1>10, <2>3, LocalsRefs
  <2> DEFINE l == Locals(a.temps, n)
  <2> HIDE DEF l, fn, args
  <2>8. Owns(code, Append(Below, g), drop_all(a.heap, fn \o args), thunks, blocker, root)
    <3>1. IsRefs(l) /\ IsRefs(fn) /\ IsRefs(args) /\ IsFrame(code, g)
      BY <1>4, <2>5, <2>7 DEF l
    <3>2. \A c \in Pos : FrameCount(code, g1, c) = (Count(l, c) + Count(fn, c)) + Count(args, c)
      BY <2>3 DEF l
    <3>3. \A c \in Pos : FrameCount(code, g, c) = Count(l, c)
      BY <2>5 DEF l
    <3> QED
      BY <2>3, <2>6, <3>1, <3>2, <3>3, TakeSheds
  <2> QED
    BY <1>1, <2>8 DEF a
<1>9. CASE I.op # "invoke"
  <2>1. FrameIs(g, g1, a.temps, Top.pc + 1, "decode", N, N, N, N)
    <3> HIDE DEF a
    <3>1. g = [f EXCEPT !.pc = @ + 1]
      BY <1>9
    <3> HIDE DEF g
    <3> QED
      BY <1>2, <1>4, <3>1 DEF FrameIs, FrameFields
  <2>2. Top.pc + 1 \in 0..Len(BlockOf(code, Top).code)
    BY <1>5, <1>6, <1>9 DEF PlainOps
  <2> HIDE DEF g, g1
  <2>3. /\ Owns(code, S, a.heap, thunks, blocker, root) /\ IsFrame(code, g1) /\ IsTemps(a.temps, n)
        /\ \A c \in Pos : FrameCount(code, g1, c) = (Count(Locals(a.temps, n), c) + Count(fn, c)) + Count(args, c)
    BY <1>11
  <2>4. g1.fun = Top.fun /\ Size(code, g1) = n /\ BlockOf(code, g1) = BlockOf(code, Top)
    BY <1>7 DEF FrameIs, Size, BlockOf
  <2> HIDE DEF a, n
  <2>5. IsFrame(code, g) /\ \A c \in Pos : FrameCount(code, g, c) = Count(Locals(a.temps, n), c)
    <3> DEFINE pc == Top.pc + 1
    <3>1. IsTemps(a.temps, Size(code, g1)) /\ pc \in 0..Len(BlockOf(code, g1).code)
      BY <2>2, <2>3, <2>4
    <3>2. FrameIs(g, g1, a.temps, pc, "decode", <<>>, <<>>, <<>>, <<>>)
      BY <2>1
    <3> HIDE DEF pc
    <3>3. IsFrame(code, g) /\ \A c \in Pos : FrameCount(code, g, c) = Count(Locals(a.temps, Size(code, g1)), c)
      BY <2>3, <3>1, <3>2, FrameDecodes
    <3> QED
      BY <2>4, <3>3
  <2>6. IsSeq(Below)
    BY <1>2, Enter DEF IsStack
  <2>7. IsRefs(Locals(a.temps, n))
    BY <1>10, <2>3, LocalsRefs
  <2> DEFINE l == Locals(a.temps, n)
  <2> HIDE DEF l, fn, args
  <2>8. Owns(code, Append(Below, g), drop_all(a.heap, fn \o args), thunks, blocker, root)
    <3>1. IsRefs(l) /\ IsRefs(fn) /\ IsRefs(args) /\ IsFrame(code, g)
      BY <1>4, <2>5, <2>7 DEF l
    <3>2. \A c \in Pos : FrameCount(code, g1, c) = (Count(l, c) + Count(fn, c)) + Count(args, c)
      BY <2>3 DEF l
    <3>3. \A c \in Pos : FrameCount(code, g, c) = Count(l, c)
      BY <2>5 DEF l
    <3> QED
      BY <2>3, <2>6, <3>1, <3>2, <3>3, TakeSheds
  <2> QED
    BY <1>1, <2>8 DEF a
<1> QED
  BY <1>8, <1>9

-----------------------------------------------------------------------------
(* A frame is done                                                         *)

\* The frame on top goes, with all it holds.
LEMMA Pops ==
  ASSUME NEW cd, NEW st, NEW h, NEW th, NEW bl, NEW rt, NEW xs, Owns(cd, st, h, th, bl, rt), st # <<>>,
         IsRefs(xs), \A c \in Pos : Count(xs, c) = FrameCount(cd, Last(st), c)
  PROVE  Owns(cd, Front(st), drop_all(h, xs), th, bl, rt)
<1> DEFINE B == Front(st)
           P == Outside(cd, st, th, bl, rt)
           Q == Outside(cd, B, th, bl, rt)
<1>1. IsStack(cd, st) /\ IsRoot(st, rt) /\ IsThunks(th) /\ IsRefs(bl) /\ Balanced(h, P)
  BY DEF Owns
<1>2. RootRefs(bl, rt) /\ HaveRefs(cd, st) /\ IsStack(cd, B)
  BY <1>1, StackHasRefs, StackSplit DEF RootRefs, IsRoot
<1>3. \A c \in Pos : Count(P, c) = (Count(StackRefs(cd, st), c) + OthersCount(bl, rt, c)) + Count(RefSeq(th), c)
  BY <1>1, <1>2, OutsideRefs
<1>4. HaveRefs(cd, B) /\ HasRefs(cd, Last(st))
      /\ \A c \in Pos : Count(StackRefs(cd, st), c) = Count(StackRefs(cd, B), c) + FrameCount(cd, Last(st), c)
  BY <1>2, StackTop
<1> HIDE DEF B, P
<1>5. /\ IsRefs(Q)
      /\ \A c \in Pos :
           /\ Count(Q, c) = (Count(StackRefs(cd, B), c) + OthersCount(bl, rt, c)) + Count(RefSeq(th), c)
           /\ Count(StackRefs(cd, B), c) \in Nat /\ OthersCount(bl, rt, c) \in Nat
           /\ Count(RefSeq(th), c) \in Nat
  BY <1>1, <1>2, <1>4, OutsideRefs
<1> HIDE DEF Q
<1>6. IsRefs(Q \o xs) /\ \A c \in Pos : Count(Q \o xs, c) = Count(Q, c) + Count(xs, c) /\ Count(xs, c) \in Nat
  BY <1>5, RefsConcat, CountSum, CountNat
<1>7. SameCount(P, Q \o xs)
  BY <1>3, <1>4, <1>5, <1>6 DEF SameCount
<1>8. Balanced(h, Q \o xs)
  BY <1>1, <1>6, <1>7, Rebalance
<1>9. Balanced(drop_all(h, xs), Q)
  BY <1>5, <1>8, BalancedDropAll
<1>10. IsRoot(B, rt)
  BY <1>1 DEF IsRoot
<1> QED
  BY <1>1, <1>2, <1>9, <1>10 DEF Owns, Q, B

LEMMA TempsAre ==
  ASSUME IsFrame(code, Top)
  PROVE  TempRefs(Top) = Locals(Top.temps, Size(code, Top)) /\ IsRefs(TempRefs(Top))
<1>1. TempRefs(Top) = TempsOf(code, Top)
  BY DEF TempRefs, TempsOf, Temps
<1>2. HasRefs(code, Top)
  BY DEF IsFrame
<1> QED
  BY <1>1, <1>2, FrameNat

LEMMA UnwindOwns ==
  ASSUME IInv, Unwind
  PROVE  Owns(code, stack', heap', thunks, blocker, root')
<1> DEFINE fn == Top.fn
           args == Top.args
           e == Top.extra
           T == TempRefs(Top)
           N == <<>>
           xs == fn \o args \o e \o T
           h == drop_all(heap, xs)
<1>1. /\ Decoding("err") /\ heap' = h
      /\ stack' = IF Below = <<>> THEN <<>> ELSE Append(Front(Below), [Last(Below) EXCEPT !.st = "err"])
      /\ root' = IF Below = <<>> THEN [root EXCEPT !.st = "err"] ELSE root
  BY DEF Unwind
<1>2. /\ stack # <<>> /\ Top.st = "err" /\ Owns(code, stack, heap, thunks, blocker, root)
      /\ IsFrame(code, Top) /\ Top = Last(stack) /\ Below = Front(stack)
  BY <1>1, RunningFrame
<1>3. Top.st \in CallStages
  BY <1>2 DEF CallStages
<1>4. IsRefs(fn) /\ IsRefs(args) /\ IsRefs(e) /\ Top.out = N
  BY <1>2, <1>3, CallFrame DEF StageHolds
<1>5. T = Locals(Top.temps, Size(code, Top)) /\ IsRefs(T)
  BY <1>2, TempsAre
<1>6. \A c \in Pos : /\ FrameCount(code, Top, c) = (((Count(T, c) + Count(fn, c)) + Count(args, c)) + Count(e, c)) + Count(N, c)
                     /\ Count(T, c) \in Nat /\ Count(fn, c) \in Nat /\ Count(args, c) \in Nat /\ Count(e, c) \in Nat
  BY <1>2, <1>4, <1>5, FrameParts
<1>7. \A c \in Pos : Count(N, c) = 0
  BY CountEmpty
<1> HIDE DEF fn, args, e, T, N
<1>8. IsRefs(xs) /\ \A c \in Pos : Count(xs, c) = ((Count(fn, c) + Count(args, c)) + Count(e, c)) + Count(T, c)
  <2> DEFINE y == fn \o args
             z == y \o e
  <2>1. IsRefs(y) /\ \A c \in Pos : Count(y, c) = Count(fn, c) + Count(args, c)
    BY <1>4, RefsConcat, CountSum
  <2> HIDE DEF y
  <2>2. IsRefs(z) /\ \A c \in Pos : Count(z, c) = Count(y, c) + Count(e, c)
    BY <1>4, <2>1, RefsConcat, CountSum
  <2> HIDE DEF z
  <2>3. IsRefs(z \o T) /\ \A c \in Pos : Count(z \o T, c) = Count(z, c) + Count(T, c)
    BY <1>5, <2>2, RefsConcat, CountSum
  <2> QED
    BY <2>1, <2>2, <2>3 DEF z, y
<1> HIDE DEF xs
<1>9. \A c \in Pos : Count(xs, c) = FrameCount(code, Top, c)
  BY <1>6, <1>7, <1>8
<1>10. Owns(code, Below, h, thunks, blocker, root)
  BY <1>2, <1>8, <1>9, Pops
<1> HIDE DEF h
<1>11. CASE Below = <<>>
  <2> DEFINE rt == [root EXCEPT !.st = "err"]
  <2>1. IsRoot(stack, root)
    BY <1>2, Enter
  <2>2. DOMAIN rt = {"st", "deps", "out"} /\ rt.st = "err" /\ rt.deps = root.deps /\ rt.out = root.out
    BY <2>1 DEF IsRoot
  <2> HIDE DEF rt
  <2>3. IsRoot(<<>>, rt)
    BY <2>1, <2>2 DEF IsRoot
  <2>4. Outside(code, <<>>, thunks, blocker, rt) = Outside(code, <<>>, thunks, blocker, root)
    BY <2>2 DEF Outside, Others
  <2>5. Owns(code, <<>>, h, thunks, blocker, rt)
    BY <1>10, <1>11, <2>3, <2>4 DEF Owns
  <2> QED
    BY <1>1, <1>11, <2>5 DEF rt
<1>12. CASE Below # <<>>
  <2> DEFINE p == Last(Below)
             g == [p EXCEPT !.st = "err"]
  <2>1. IsFrame(code, p) /\ p.st \in {"call", "callback"}
    <3>1. IsStack(code, Below) /\ Lowered(Below)
      BY <1>2, Enter
    <3>2. IsSeq(Below) /\ Len(Below) \in Nat
      BY <3>1, SeqFacts DEF IsStack
    <3>3. p = Below[Len(Below)] /\ Len(Below) >= 1
      BY <1>12, <3>2, FrontSeq
    <3>4. Len(Below) \in 1..Len(Below)
      BY <3>2, <3>3
    <3>5. IsFrame(code, Below[Len(Below)]) /\ Below[Len(Below)].st \in {"call", "callback"}
      BY <3>1, <3>4 DEF IsStack, Lowered
    <3> QED
      BY <3>3, <3>5
  <2> HIDE DEF p
  <2>2. p.st \in CallStages
    BY <2>1 DEF CallStages
  <2>3. /\ IsTemps(p.temps, Size(code, p)) /\ IsRefs(p.fn) /\ IsRefs(p.args) /\ IsRefs(p.extra) /\ IsRefs(p.out)
        /\ DOMAIN p = FrameFields /\ p.out = <<>>
    BY <2>1, <2>2, CallFrame DEF StageHolds
  <2>4. FrameIs(g, p, p.temps, p.pc, "err", p.fn, p.args, p.extra, p.out)
    BY <2>3 DEF FrameIs, FrameFields
  <2> HIDE DEF g
  <2>5. StageHolds("err", g.n, p.fn, p.extra, p.out) /\ "err" \in CallStages
    BY <2>3 DEF StageHolds, CallStages
  <2>6. GoesOn(code, p, g, "err", p.extra, p.out)
    BY <2>1, <2>2, <2>3, <2>4, <2>5 DEF Goes, GoesOn
  <2>7. SameHeld(p, p.extra, p.out)
    BY DEF SameHeld
  <2>8. Owns(code, Append(Front(Below), g), h, thunks, blocker, root)
    <3>1. p = Last(Below)
      BY DEF p
    <3> QED
      BY <1>10, <1>12, <2>6, <2>7, <3>1, StageMoves
  <2> QED
    BY <1>1, <1>12, <2>8 DEF g, p
<1> QED
  BY <1>11, <1>12

\* The frame below the one that has returned gets the references rs.
LEMMA Delivers ==
  ASSUME NEW cd, NEW B, NEW h, NEW th, NEW bl, NEW rt, NEW rs, NEW g,
         IsStack(cd, B), B # <<>>, IsThunks(th), RootRefs(bl, rt), IsRoot(B, rt), IsRefs(rs),
         Balanced(h, Held(Elsewhere(cd, B, bl, rt), th, rs)), IsFrame(cd, g),
         \A c \in Pos : FrameCount(cd, g, c) = FrameCount(cd, Last(B), c) + Count(rs, c)
  PROVE  Owns(cd, Append(Front(B), g), h, th, bl, rt)
<1> DEFINE F == Front(B)
           p == Last(B)
           X == Elsewhere(cd, B, bl, rt)
           Y == Elsewhere(cd, F, bl, rt)
           Q == Held(X, th, rs)
<1>1. IsStack(cd, F) /\ Lowered(F) /\ IsFrame(cd, p)
  BY StackSplit
<1>2. HaveRefs(cd, B) /\ IsPos(th) /\ HasRefs(cd, g) /\ HasRefs(cd, p)
  BY <1>1, StackHasRefs DEF IsThunks, IsFrame
<1>3. \A c \in Pos : Count(StackRefs(cd, B), c) = Count(StackRefs(cd, F), c) + FrameCount(cd, p, c)
  BY <1>2, StackTop
<1>4. /\ IsRefs(X)
      /\ \A c \in Pos : Count(X, c) = Count(StackRefs(cd, B), c) + OthersCount(bl, rt, c)
  BY ElsewhereRefs
<1>5. \A c \in Pos : FrameCount(cd, g, c) = FrameCount(cd, p, c) + Count(rs, c)
  OBVIOUS
<1>6. Balanced(h, Q)
  OBVIOUS
<1> HIDE DEF F, p, X
<1>7. /\ IsRefs(Y)
      /\ \A c \in Pos : /\ Count(Y, c) = Count(StackRefs(cd, F), c) + OthersCount(bl, rt, c)
                        /\ Count(StackRefs(cd, F), c) \in Nat /\ OthersCount(bl, rt, c) \in Nat
  BY <1>1, ElsewhereRefs
<1>8. \A c \in Pos : /\ Count(Q, c) = (Count(X, c) + Count(RefSeq(th), c)) + Count(rs, c)
                     /\ Count(RefSeq(th), c) \in Nat /\ Count(rs, c) \in Nat
  BY <1>2, <1>4, HeldCount
<1>9. \A c \in Pos : FrameCount(cd, p, c) \in Nat
  BY <1>2, FrameNat
<1> HIDE DEF Q, Y
<1>10. \A c \in Pos : Count(Q, c) = (Count(Y, c) + FrameCount(cd, g, c)) + Count(RefSeq(th), c)
  BY <1>3, <1>4, <1>5, <1>7, <1>8, <1>9
<1>11. Balanced(h, Around(Y, cd, g, th))
  BY <1>2, <1>6, <1>7, <1>10, Arrange
<1>12. IsRoot(Append(F, g), rt)
  BY <1>1, StackJoin DEF IsRoot
<1> QED
  BY <1>1, <1>11, <1>12, Leave DEF Y, F

\* The thread gets the references rs of the first call.
LEMMA DeliversRoot ==
  ASSUME NEW cd, NEW h, NEW th, NEW bl, NEW rt, NEW r1, NEW rs,
         IsThunks(th), RootRefs(bl, rt), rt.out = <<>>, IsRefs(rs), Len(rs) = 1,
         DOMAIN r1 = {"st", "deps", "out"}, r1.st = "value", r1.deps = rt.deps, r1.out = rs,
         Balanced(h, Held(Elsewhere(cd, <<>>, bl, rt), th, rs))
  PROVE  Owns(cd, <<>>, h, th, bl, r1)
<1> DEFINE N == <<>>
           X == Elsewhere(cd, N, bl, rt)
           Q == Held(X, th, rs)
           O == Outside(cd, N, th, bl, r1)
<1>1. IsStack(cd, N) /\ HaveRefs(cd, N)
  <2>1. IsSeq(N) /\ 1..Len(N) = {} /\ 1..Len(N) - 1 = {}
    BY EmptyIsSeq
  <2>2. IsStack(cd, N)
    BY <2>1 DEF IsStack
  <2> QED
    BY <2>2, StackHasRefs
<1>2. RootRefs(bl, r1)
  BY DEF RootRefs
<1>3. IsRoot(N, r1)
  BY DEF IsRoot, RootRefs
<1>4. \A c \in Pos : Count(rt.out, c) = 0 /\ Count(rt.deps, c) = Count(r1.deps, c) /\ Count(r1.out, c) = Count(rs, c)
  BY CountEmpty
<1>5. Balanced(h, Q) /\ IsPos(th) /\ IsRefs(bl)
  BY DEF IsThunks, RootRefs
<1> HIDE DEF N
<1>6. /\ IsRefs(X)
      /\ \A c \in Pos : /\ Count(X, c) = Count(StackRefs(cd, N), c) + OthersCount(bl, rt, c)
                        /\ Count(StackRefs(cd, N), c) \in Nat
  BY <1>1, ElsewhereRefs
<1> HIDE DEF X
<1>7. \A c \in Pos : /\ Count(Q, c) = (Count(X, c) + Count(RefSeq(th), c)) + Count(rs, c)
                     /\ Count(RefSeq(th), c) \in Nat /\ Count(rs, c) \in Nat
  BY <1>5, <1>6, HeldCount
<1>8. /\ IsRefs(O)
      /\ \A c \in Pos : Count(O, c) = (Count(StackRefs(cd, N), c) + OthersCount(bl, r1, c)) + Count(RefSeq(th), c)
  BY <1>1, <1>2, OutsideRefs
<1>9. \A c \in Pos : Count(bl, c) \in Nat /\ Count(rt.deps, c) \in Nat
  BY OthersRefs
<1>10. \A c \in Pos : /\ OthersCount(bl, r1, c) = OthersCount(bl, rt, c) + Count(rs, c)
                      /\ OthersCount(bl, rt, c) \in Nat
  BY <1>4, <1>7, <1>9 DEF OthersCount
<1> HIDE DEF Q, O
<1>11. SameCount(Q, O)
  BY <1>6, <1>7, <1>8, <1>10 DEF SameCount
<1>12. Balanced(h, O)
  BY <1>5, <1>8, <1>11, Rebalance
<1> QED
  BY <1>1, <1>3, <1>5, <1>12 DEF Owns, O, N

LEMMA DeliveredGoesOn ==
  ASSUME NEW cd, NEW p, NEW rs, IsFrame(cd, p), p.st \in {"call", "callback"}, IsRefs(rs), Len(rs) = 1
  PROVE  /\ IsFrame(cd, Delivered(p, rs))
         /\ \A c \in Pos : FrameCount(cd, Delivered(p, rs), c) = FrameCount(cd, p, c) + Count(rs, c)
<1> DEFINE g == Delivered(p, rs)
           st == IF p.st = "callback" THEN "cbvalue" ELSE "take"
<1>1. p.st \in CallStages
  BY DEF CallStages
<1>2. /\ IsTemps(p.temps, Size(cd, p)) /\ IsRefs(p.fn) /\ IsRefs(p.args) /\ IsRefs(p.extra) /\ IsRefs(p.out)
      /\ DOMAIN p = FrameFields /\ StageHolds(p.st, p.n, p.fn, p.extra, p.out)
  BY <1>1, CallFrame
<1>3. p.out = <<>> /\ (p.st = "call" => p.extra = <<>>)
  BY <1>2 DEF StageHolds
<1>4. FrameIs(g, p, p.temps, p.pc, st, p.fn, p.args, p.extra, rs)
  BY <1>2 DEF FrameIs, FrameFields, Delivered
<1> HIDE DEF g
<1>5. StageHolds(st, g.n, p.fn, p.extra, rs) /\ st \in CallStages
  BY <1>3 DEF StageHolds, CallStages
<1> HIDE DEF st
<1>6. GoesOn(cd, p, g, st, p.extra, rs)
  BY <1>1, <1>2, <1>4, <1>5 DEF Goes, GoesOn
<1>7. IsFrame(cd, g) /\ Weighs(cd, p, g, p.extra, rs)
  BY <1>6, StageCount
<1>8. \A c \in Pos : Count(p.out, c) = 0
  BY <1>3, CountEmpty
<1>9. \A c \in Pos : FrameCount(cd, g, c) = FrameCount(cd, p, c) + Count(rs, c)
  <2> DEFINE e == p.extra
             o == p.out
  <2>1. \A c \in Pos : /\ FrameCount(cd, p, c) + (Count(e, c) + Count(rs, c))
                             = FrameCount(cd, g, c) + (Count(e, c) + Count(o, c))
                       /\ FrameCount(cd, p, c) \in Nat /\ FrameCount(cd, g, c) \in Nat
                       /\ Count(e, c) \in Nat /\ Count(rs, c) \in Nat
    BY <1>7 DEF Weighs
  <2>2. \A c \in Pos : Count(o, c) = 0
    BY <1>8
  <2> HIDE DEF e, o
  <2> QED
    BY <2>1, <2>2
<1> QED
  BY <1>7, <1>9 DEF g

LEMMA DecodeRetOwns ==
  ASSUME IInv, DecodeRet
  PROVE  Owns(code, stack', heap', thunks', blocker, root')
<1> DEFINE X == Elsewhere(code, Below, blocker, root)
           n == Size(code, Top)
           L == Locals(Top.temps, n)
           s == decode_operands(State, Top, I.operands)
           T == TempRefs(Top)
           h == drop_all(s.heap, T)
           rs == s.refs
           th == s.thunks
           Q == Held(X, th, rs)
           r1 == [root EXCEPT !.st = "value", !.out = s.refs]
<1>1. AtCode({"ret"})
  BY DEF DecodeRet
<1>2. /\ heap' = h /\ thunks' = th
      /\ Below = <<>> => stack' = <<>> /\ root' = r1
      /\ Below # <<>> => stack' = Append(Front(Below), Delivered(Last(Below), rs)) /\ root' = root
  BY DEF DecodeRet
<1>3. /\ IsCode(code) /\ Owns(code, stack, heap, thunks, blocker, root) /\ stack # <<>>
      /\ IsFrame(code, Top) /\ IsRefs(X) /\ n \in Nat /\ IsTemps(Top.temps, n)
      /\ Top.pc # 0 /\ I.op \in {"ret"}
      /\ Decoded(s, X \o L) /\ Len(s.refs) = Len(I.operands)
  BY <1>1, DecodesOperands
<1>4. T = L /\ IsRefs(L)
  BY <1>3, TempsAre
<1>5. Len(I.operands) = 1
  <2>1. IsInstr(I, n)
    BY <1>3, AtInstr
  <2>2. HasOperands(I)
    BY <2>1 DEF IsInstr
  <2> QED
    BY <1>3, <2>2 DEF HasOperands
<1>6. IsStack(code, Below) /\ Lowered(Below) /\ RootRefs(blocker, root) /\ IsRoot(stack, root)
  BY <1>3, Enter DEF Below
<1> HIDE DEF X, L, s, T
<1>7. IsThunks(th) /\ IsPos(th) /\ IsRefs(rs) /\ Len(rs) = 1 /\ Balanced(s.heap, Held(X \o L, th, rs))
  BY <1>3, <1>5 DEF Decoded, IsState, IsThunks
<1>8. Balanced(h, Q)
  <2> DEFINE R == X \o L
             P == Held(R, th, rs)
             h0 == s.heap
  <2>1. Balanced(h0, P) /\ h = drop_all(h0, L)
    BY <1>4, <1>7
  <2>2. IsRefs(R) /\ \A c \in Pos : Count(R, c) = Count(X, c) + Count(L, c) /\ Count(L, c) \in Nat
    BY <1>3, <1>4, RefsConcat, CountSum, CountNat
  <2> HIDE DEF R, h0, rs, th, h
  <2>3. \A c \in Pos : Count(P, c) = (Count(R, c) + Count(RefSeq(th), c)) + Count(rs, c)
    BY <1>7, <2>2, HeldCount
  <2>4. /\ IsRefs(Q)
        /\ \A c \in Pos : /\ Count(Q, c) = (Count(X, c) + Count(RefSeq(th), c)) + Count(rs, c)
                          /\ Count(X, c) \in Nat /\ Count(RefSeq(th), c) \in Nat /\ Count(rs, c) \in Nat
    BY <1>3, <1>7, HeldCount
  <2> HIDE DEF Q, P
  <2>5. IsRefs(Q \o L) /\ \A c \in Pos : Count(Q \o L, c) = Count(Q, c) + Count(L, c)
    BY <1>4, <2>4, RefsConcat, CountSum
  <2>6. SameCount(P, Q \o L)
    BY <2>2, <2>3, <2>4, <2>5 DEF SameCount
  <2>7. Balanced(h0, Q \o L)
    BY <2>1, <2>5, <2>6, Rebalance
  <2> QED
    BY <1>4, <2>1, <2>4, <2>7, BalancedDropAll
<1>9. DOMAIN r1 = {"st", "deps", "out"} /\ r1.st = "value" /\ r1.deps = root.deps /\ r1.out = rs
  BY <1>6 DEF IsRoot
<1>10. root.out = <<>> /\ root.st = "call"
  BY <1>3, <1>6 DEF IsRoot
<1> HIDE DEF h, th, rs, r1, Q
<1>11. CASE Below = <<>>
  <2>1. Balanced(h, Held(Elsewhere(code, <<>>, blocker, root), th, rs))
    BY <1>8, <1>11 DEF Q, X
  <2>2. Owns(code, <<>>, h, th, blocker, r1)
    BY <1>6, <1>7, <1>9, <1>10, <2>1, DeliversRoot
  <2> QED
    BY <1>2, <1>11, <2>2
<1>12. CASE Below # <<>>
  <2> DEFINE B == Below
             p == Last(B)
             g == Delivered(p, rs)
  <2>1. IsFrame(code, p) /\ p.st \in {"call", "callback"}
    <3>1. IsSeq(B) /\ Len(B) \in Nat
      BY <1>6, SeqFacts DEF IsStack
    <3>2. p = B[Len(B)] /\ Len(B) >= 1
      BY <1>12, <3>1, FrontSeq
    <3>3. Len(B) \in 1..Len(B)
      BY <3>1, <3>2
    <3>4. IsFrame(code, B[Len(B)]) /\ B[Len(B)].st \in {"call", "callback"}
      BY <1>6, <3>3 DEF IsStack, Lowered
    <3> QED
      BY <3>2, <3>4
  <2> HIDE DEF p
  <2>2. IsFrame(code, g) /\ \A c \in Pos : FrameCount(code, g, c) = FrameCount(code, p, c) + Count(rs, c)
    BY <1>7, <2>1, DeliveredGoesOn
  <2>3. IsRoot(B, root)
    BY <1>6, <1>10 DEF IsRoot
  <2>4. Balanced(h, Held(Elsewhere(code, B, blocker, root), th, rs))
    BY <1>8 DEF Q, X
  <2>5. B # <<>> /\ IsStack(code, B) /\ p = Last(B)
    BY <1>6, <1>12 DEF p
  <2> HIDE DEF B, g
  <2>6. Owns(code, Append(Front(B), g), h, th, blocker, root)
    BY <1>6, <1>7, <2>2, <2>3, <2>4, <2>5, Delivers
  <2> QED
    BY <1>2, <1>12, <2>6 DEF g, p, B
<1> QED
  BY <1>11, <1>12

-----------------------------------------------------------------------------
(* The phis of a block                                                     *)

\* What is left of a sequence after i of its elements.
Suffix(xs, i) == [k \in 1..(Len(xs) - i) |-> xs[k + i]]

LEMMA SuffixStep ==
  ASSUME NEW xs, IsRefs(xs)
  PROVE  /\ Suffix(xs, 0) = xs /\ Suffix(xs, Len(xs)) = <<>>
         /\ \A i \in 0..Len(xs) : IsRefs(Suffix(xs, i))
         /\ \A i \in 1..Len(xs) : \A c \in Pos :
              Count(Suffix(xs, i - 1), c) = Once(xs[i], c) + Count(Suffix(xs, i), c)
<1> DEFINE n == Len(xs)
<1>1. n \in Nat /\ IsSeq(xs) /\ xs = [i \in 1..n |-> xs[i]]
  BY SeqFacts DEF IsRefs
<1>2. ASSUME NEW i \in 0..n
      PROVE  /\ IsRefs(Suffix(xs, i)) /\ Len(Suffix(xs, i)) = n - i
             /\ \A k \in 1..(n - i) : Suffix(xs, i)[k] = xs[k + i]
  <2> DEFINE p == Suffix(xs, i)
             m == n - i
  <2>1. m \in Nat /\ p = [k \in 1..m |-> p[k]] /\ (\A k \in 1..m : p[k] = xs[k + i])
    BY <1>1 DEF Suffix
  <2>2. \A k \in 1..m : k + i \in 1..n
    BY <1>1
  <2> HIDE DEF p, m, n
  <2>3. IsSeq(p) /\ Len(p) = m
    BY <2>1, FunSeq
  <2>4. \A k \in 1..m : p[k].cell \in Nat
    BY <2>1, <2>2 DEF IsRefs, n
  <2> QED
    BY <2>1, <2>3, <2>4 DEF IsRefs, p, m
<1>3. Suffix(xs, 0) = xs
  <2>1. IsSeq(Suffix(xs, 0)) /\ Len(Suffix(xs, 0)) = n /\ \A k \in 1..n : Suffix(xs, 0)[k] = xs[k]
    BY <1>1, <1>2 DEF IsRefs
  <2> QED
    BY <1>1, <2>1, EqualSeq
<1>4. Suffix(xs, n) = <<>>
  <2>1. n \in 0..n /\ n - n = 0
    BY <1>1
  <2>2. IsSeq(Suffix(xs, n)) /\ Len(Suffix(xs, n)) = 0
    BY <1>2, <2>1 DEF IsRefs
  <2> QED
    BY <2>2, SeqFacts
<1>5. ASSUME NEW i \in 1..n, NEW c \in Pos
      PROVE  Count(Suffix(xs, i - 1), c) = Once(xs[i], c) + Count(Suffix(xs, i), c)
  <2> DEFINE p == Suffix(xs, i - 1)
             q == Suffix(xs, i)
  <2>1. i \in 0..n /\ i - 1 \in 0..n /\ i \in Nat
    BY <1>1
  <2>2. /\ IsSeq(p) /\ Len(p) = n - (i - 1) /\ (\A k \in 1..(n - (i - 1)) : p[k] = xs[k + (i - 1)])
        /\ IsSeq(q) /\ Len(q) = n - i /\ (\A k \in 1..(n - i) : q[k] = xs[k + i])
    BY <1>2, <2>1 DEF IsRefs
  <2> HIDE DEF p, q, n
  <2>3. /\ n - (i - 1) >= 1 /\ 1 \in 1..(n - (i - 1)) /\ 1 + (i - 1) = i
        /\ (n - (i - 1)) - 1 = n - i
        /\ \A k \in 1..(n - i) : k + 1 \in 1..(n - (i - 1)) /\ (k + 1) + (i - 1) = k + i
    BY <1>1, <2>1
  <2>4. p # <<>>
    <3>1. Len(p) # 0
      BY <2>2, <2>3
    <3> QED
      BY <2>2, <3>1, SeqFacts
  <2>5. /\ IsSeq(Tail(p)) /\ Len(Tail(p)) = Len(p) - 1 /\ Head(p) = p[1]
        /\ \A k \in 1..Len(p) - 1 : Tail(p)[k] = p[k + 1]
    BY <2>2, <2>4, TailSeq
  <2>6. Tail(p) = q
    <3> DEFINE t == Tail(p)
    <3>1. IsSeq(t) /\ Len(t) = n - i /\ \A k \in 1..(n - i) : t[k] = p[k + 1]
      BY <2>2, <2>3, <2>5
    <3> HIDE DEF t
    <3>2. \A k \in 1..(n - i) : t[k] = q[k]
      BY <2>2, <2>3, <3>1
    <3>3. t = q
      BY <2>2, <3>1, <3>2, EqualSeq
    <3> QED
      BY <3>3 DEF t
  <2>7. Head(p) = xs[i]
    BY <2>2, <2>3, <2>5
  <2>8. Count(p, c) = Once(Head(p), c) + Count(Tail(p), c)
    BY <2>2, <2>4, CountTail
  <2> QED
    BY <2>6, <2>7, <2>8 DEF p, q
<1> QED
  BY <1>2, <1>3, <1>4, <1>5 DEF n

AssignOp(e, acc, k) == assigned(acc.heap, acc.temps, e[1][k].dest, e[2][k])
AssignPhis(phis, refs, h, temps) ==
  Fold(LAMBDA acc, k : assigned(acc.heap, acc.temps, phis[k].dest, refs[k]),
       [heap |-> h, temps |-> temps], [k \in DOMAIN phis |-> k])
AssignFold == INSTANCE FoldProofs WITH Op <- AssignOp

LEMMA AssignSteps ==
  ASSUME NEW phis, NEW refs, NEW h, NEW temps, IsSeq(phis)
  PROVE  \E f : /\ f[0] = [heap |-> h, temps |-> temps]
                /\ \A i \in 1..Len(phis) : f[i] = assigned(f[i - 1].heap, f[i - 1].temps, phis[i].dest, refs[i])
                /\ AssignPhis(phis, refs, h, temps) = f[Len(phis)]
<1> DEFINE ks == [k \in DOMAIN phis |-> k]
           e == <<phis, refs>>
           z == [heap |-> h, temps |-> temps]
           f == CHOOSE g : AssignFold!IsFold(g, e, z, ks)
<1>1. DOMAIN phis = 1..Len(phis) /\ Len(phis) \in Nat
  BY SeqFacts
<1>2. Len(ks) = Len(phis) /\ \A i \in 1..Len(phis) : ks[i] = i
  <2>1. ks = [k \in 1..Len(phis) |-> ks[k]] /\ \A i \in 1..Len(phis) : ks[i] = i
    BY <1>1
  <2> HIDE DEF ks
  <2> QED
    BY <1>1, <2>1, FunSeq
<1>3. AssignFold!IsFold(f, e, z, ks)
  <2>1. \E g : AssignFold!IsFold(g, e, z, ks)
    <3> HIDE DEF e, z, ks
    <3> QED
      BY <1>1, <1>2, AssignFold!FoldSolution
  <2> QED
    BY <2>1
<1>4. AssignPhis(phis, refs, h, temps) = f[Len(ks)]
  BY DEF AssignPhis, Fold, AssignFold!IsFold, AssignOp
<1>5. f[0] = z /\ \A i \in 1..Len(ks) : f[i] = AssignOp(e, f[i - 1], ks[i])
  <2> HIDE DEF f, e, z, ks
  <2> QED
    BY <1>1, <1>2, <1>3, AssignFold!FoldValues
<1> HIDE DEF f, ks
<1>6. \A i \in 1..Len(phis) : f[i] = assigned(f[i - 1].heap, f[i - 1].temps, phis[i].dest, refs[i])
  BY <1>1, <1>2, <1>5 DEF AssignOp
<1> QED
  BY <1>2, <1>4, <1>5, <1>6

\* One of the references S is assigned, S2 are left.
LEMMA AssignsNext ==
  ASSUME NEW Y, NEW n \in Nat, NEW temps, NEW h, NEW dest \in 0..(n - 1), NEW ref, NEW S, NEW S2,
         IsRefs(Y), IsRefs(S), IsRefs(S2), ref.cell \in Nat, IsTemps(temps, n),
         \A c \in Pos : Count(S, c) = Once(ref, c) + Count(S2, c),
         Balanced(h, (Y \o Locals(temps, n)) \o S)
  PROVE  LET a == assigned(h, temps, dest, ref)
         IN IsTemps(a.temps, n) /\ Balanced(a.heap, (Y \o Locals(a.temps, n)) \o S2)
<1> DEFINE L == Locals(temps, n)
           o == <<ref>>
           R == Y \o S2
           a == assigned(h, temps, dest, ref)
           M == Locals(a.temps, n)
<1>1. IsRefs(L)
  BY LocalsRefs
<1>2. IsRefs(o) /\ \A c \in Pos : Count(o, c) = Once(ref, c)
  BY RefsOne, CountOne
<1> HIDE DEF L, o
<1>3. /\ IsRefs((Y \o L) \o S)
      /\ \A c \in Pos : /\ Count((Y \o L) \o S, c) = (Count(Y, c) + Count(L, c)) + Count(S, c)
                        /\ Count(Y, c) \in Nat /\ Count(L, c) \in Nat
  BY <1>1, ThreeRefs
<1>4. IsRefs(R) /\ \A c \in Pos : Count(R, c) = Count(Y, c) + Count(S2, c) /\ Count(S2, c) \in Nat
  BY RefsConcat, CountSum, CountNat
<1> HIDE DEF R
<1>5. /\ IsRefs((R \o L) \o o)
      /\ \A c \in Pos : /\ Count((R \o L) \o o, c) = (Count(R, c) + Count(L, c)) + Count(o, c)
                        /\ Count(o, c) \in Nat
  BY <1>1, <1>2, <1>4, ThreeRefs
<1>6. SameCount((Y \o L) \o S, (R \o L) \o o)
  BY <1>2, <1>3, <1>4, <1>5 DEF SameCount
<1>7. Balanced(h, (R \o L) \o o)
  BY <1>5, <1>6, Rebalance DEF L
<1>8. Balanced(h, (R \o Locals(temps, n)) \o <<ref>>)
  BY <1>7 DEF L, o
<1>9. IsTemps(a.temps, n) /\ Balanced(a.heap, R \o M)
  BY <1>4, <1>8, Assigns
<1>10. IsRefs(M)
  <2> HIDE DEF a
  <2> QED
    BY <1>9, LocalsRefs
<1> HIDE DEF M, a
<1>11. /\ IsRefs((Y \o M) \o S2)
       /\ \A c \in Pos : /\ Count((Y \o M) \o S2, c) = (Count(Y, c) + Count(M, c)) + Count(S2, c)
                         /\ Count(M, c) \in Nat
  <2>1. IsRefs(Y) /\ IsRefs(M) /\ IsRefs(S2)
    BY <1>10
  <2> QED
    BY ONLY <2>1, ThreeRefs
<1>12. \A c \in Pos : Count(R \o M, c) = Count(R, c) + Count(M, c)
  BY <1>4, <1>10, CountSum
<1>13. SameCount(R \o M, (Y \o M) \o S2)
  BY <1>3, <1>4, <1>11, <1>12 DEF SameCount
<1>14. Balanced(a.heap, (Y \o M) \o S2)
  BY <1>9, <1>11, <1>13, Rebalance
<1> QED
  BY <1>9, <1>14 DEF M, a

ArePhis(phis, n) == IsSeq(phis) /\ \A k \in 1..Len(phis) : IsPhi(phis[k], n)

LEMMA AssignsAll ==
  ASSUME NEW Y, NEW n \in Nat, NEW temps, NEW h, NEW phis, NEW refs,
         IsRefs(Y), IsTemps(temps, n), ArePhis(phis, n), IsRefs(refs), Len(refs) = Len(phis),
         Balanced(h, (Y \o Locals(temps, n)) \o refs)
  PROVE  LET a == AssignPhis(phis, refs, h, temps)
         IN IsTemps(a.temps, n) /\ Balanced(a.heap, Y \o Locals(a.temps, n))
<1> DEFINE m == Len(phis)
           N == <<>>
           a == AssignPhis(phis, refs, h, temps)
<1>1. m \in Nat /\ IsSeq(phis) /\ Len(refs) = m
  BY SeqFacts DEF ArePhis
<1>2. PICK f : /\ f[0] = [heap |-> h, temps |-> temps]
               /\ \A i \in 1..m : f[i] = assigned(f[i - 1].heap, f[i - 1].temps, phis[i].dest, refs[i])
               /\ a = f[m]
  BY <1>1, AssignSteps
<1> HIDE DEF a
<1>3. /\ Suffix(refs, 0) = refs /\ Suffix(refs, m) = N
      /\ \A i \in 0..m : IsRefs(Suffix(refs, i))
      /\ \A i \in 1..m : \A c \in Pos :
              Count(Suffix(refs, i - 1), c) = Once(refs[i], c) + Count(Suffix(refs, i), c)
  BY <1>1, SuffixStep
<1> DEFINE P(i) == /\ IsTemps(f[i].temps, n)
                   /\ Balanced(f[i].heap, (Y \o Locals(f[i].temps, n)) \o Suffix(refs, i))
           T == {i \in 0..m : P(i)}
<1>4. 0 \in T
  <2>1. f[0].heap = h /\ f[0].temps = temps
    BY <1>2
  <2>2. P(0)
    BY <1>3, <2>1
  <2> QED
    BY <1>1, <2>2
<1>5. ASSUME NEW i \in 1..m, i - 1 \in T
      PROVE  i \in T
  <2> DEFINE g == f[i - 1].heap
             t == f[i - 1].temps
             S == Suffix(refs, i - 1)
             S2 == Suffix(refs, i)
             x == refs[i]
             dest == phis[i].dest
  <2>1. i \in 0..m /\ i - 1 \in 0..m
    BY <1>1
  <2>2. IsTemps(t, n) /\ Balanced(g, (Y \o Locals(t, n)) \o S)
    BY <1>5
  <2>3. x.cell \in Nat
    BY <1>1 DEF IsRefs
  <2>4. dest \in 0..(n - 1)
    BY DEF ArePhis, IsPhi
  <2>5. IsRefs(S) /\ IsRefs(S2) /\ \A c \in Pos : Count(S, c) = Once(x, c) + Count(S2, c)
    BY <1>3, <2>1
  <2>6. f[i] = assigned(g, t, dest, x)
    BY <1>2
  <2> HIDE DEF g, t, S, S2, x, dest
  <2>7. LET b == assigned(g, t, dest, x)
        IN IsTemps(b.temps, n) /\ Balanced(b.heap, (Y \o Locals(b.temps, n)) \o S2)
    BY <2>2, <2>3, <2>4, <2>5, AssignsNext
  <2>8. P(i)
    BY <2>6, <2>7 DEF S2
  <2> QED
    BY <2>1, <2>8
<1>6. \A i \in 0..m : i \in T
  <2> HIDE DEF T
  <2> QED
    BY <1>1, <1>4, <1>5, UpTo
<1>7. IsTemps(a.temps, n) /\ Balanced(a.heap, (Y \o Locals(a.temps, n)) \o N)
  <2>1. m \in T
    BY <1>1, <1>6
  <2> QED
    BY <1>2, <1>3, <2>1
<1> DEFINE L == Locals(a.temps, n)
           h1 == a.heap
<1>8. IsRefs(L) /\ Balanced(h1, (Y \o L) \o N)
  BY <1>7, LocalsRefs
<1>9. IsRefs(N) /\ \A c \in Pos : Count(N, c) = 0
  BY RefsEmpty, CountEmpty
<1> HIDE DEF L, h1, N
<1>10. IsRefs(Y \o L) /\ \A c \in Pos : Count(Y \o L, c) \in Nat
  BY <1>8, RefsConcat, CountNat
<1>11. SameCount((Y \o L) \o N, Y \o L)
  <2> DEFINE Z == Y \o L
  <2> HIDE DEF Z
  <2>1. \A c \in Pos : Count(Z \o N, c) = Count(Z, c) + Count(N, c)
    BY <1>9, <1>10, CountSum DEF Z
  <2>2. \A c \in Pos : Count(Z \o N, c) = Count(Z, c)
    BY <1>9, <1>10, <2>1 DEF Z
  <2> QED
    BY <2>2 DEF SameCount, Z
<1>12. Balanced(h1, Y \o L)
  BY <1>8, <1>10, <1>11, Rebalance
<1> QED
  BY <1>7, <1>12 DEF L, h1, a

LEMMA DecodePhisOwns ==
  ASSUME IInv, DecodePhis
  PROVE  Owns(code, stack', heap', thunks', blocker, root)
<1> DEFINE X == Elsewhere(code, Below, blocker, root)
           n == Size(code, Top)
           L == Locals(Top.temps, n)
           phis == CurrentBlock.phis
           ops == [k \in DOMAIN phis |-> phis[k].mapping[Top.origin]]
           s == decode_operands(State, Top, ops)
           a == AssignPhis(phis, s.refs, s.heap, Top.temps)
           g == [Top EXCEPT !.temps = a.temps, !.pc = 1]
           R == X \o L
<1>1. /\ Decoding("decode") /\ Top.pc = 0 /\ HasPhis
      /\ stack' = Append(Below, g) /\ heap' = a.heap /\ thunks' = s.thunks
  BY DEF DecodePhis, Replace, AssignPhis
<1>2. /\ stack # <<>> /\ Top.st = "decode" /\ IsCode(code) /\ Owns(code, stack, heap, thunks, blocker, root)
  BY <1>1 DEF Decoding, IInv
<1>3. /\ IsFrame(code, Top) /\ IsThunks(thunks) /\ IsRefs(X)
      /\ Balanced(heap, Around(X, code, Top, thunks))
  BY <1>2, Enter DEF Top, Below
<1>4. ArePhis(phis, n) /\ 1 \in 0..Len(BlockOf(code, Top).code)
  <2>1. CurrentBlock = BlockOf(code, Top)
    BY DEF CurrentBlock, BlockOf
  <2>2. IsBlock(BlockOf(code, Top), n, Len(code[Top.fun].blocks)) /\ Len(BlockOf(code, Top).code) \in Nat
    BY <1>2, <1>3, BlockAt DEF IsFrame
  <2>3. Len(BlockOf(code, Top).code) >= 1
    BY <2>2 DEF IsBlock
  <2>4. ArePhis(BlockOf(code, Top).phis, n)
    BY <2>2 DEF IsBlock, ArePhis
  <2> QED
    BY <2>1, <2>2, <2>3, <2>4
<1>5. HasPhis /\ phis = CurrentBlock.phis
  BY <1>1
<1> HIDE DEF phis
<1>6. IsOperands(Top, ops) /\ Len(ops) = Len(phis)
  <2> DEFINE m == Len(phis)
  <2>1. IsSeq(phis) /\ m \in Nat /\ DOMAIN phis = 1..m
    BY <1>4, SeqFacts DEF ArePhis
  <2>2. ops = [k \in 1..m |-> ops[k]] /\ \A k \in 1..m : ops[k] = phis[k].mapping[Top.origin]
    BY <2>1
  <2> HIDE DEF ops
  <2>3. IsSeq(ops) /\ Len(ops) = m
    BY <2>1, <2>2, FunSeq
  <2>4. ASSUME NEW k \in 1..m
        PROVE  IsOperand(ops[k]) /\ HasLocal(Top, ops[k])
    <3>1. phis[k] \in ToSet(phis)
      BY <2>1 DEF ToSet
    <3>2. Top.origin \in DOMAIN phis[k].mapping /\ HasLocal(Top, phis[k].mapping[Top.origin])
      BY <1>5, <3>1 DEF HasPhis
    <3>3. IsPhi(phis[k], n)
      BY <1>4 DEF ArePhis
    <3> QED
      BY <2>2, <3>2, <3>3 DEF IsPhi
  <2> QED
    BY <2>3, <2>4 DEF IsOperands
<1> HIDE DEF X, ops
<1>7. /\ Decoded([heap |-> heap, thunks |-> thunks, refs |-> <<>>], R) /\ HasTemps(Top.temps, R)
      /\ n \in Nat /\ IsTemps(Top.temps, n)
      /\ Top.fn = <<>> /\ Top.args = <<>> /\ Top.extra = <<>> /\ Top.out = <<>>
  BY <1>2, <1>3, DecodeBegins
<1>8. Decoded(State, R) /\ State.refs = <<>>
  BY <1>7 DEF State
<1> HIDE DEF R
<1>9. Decoded(s, R) /\ Len(s.refs) = Len(ops)
  <2> DEFINE fr == Top
             z == State
  <2>1. LocalsIn(fr, R) /\ IsOperands(fr, ops) /\ Decoded(z, R)
    BY <1>6, <1>7, <1>8 DEF LocalsIn
  <2> HIDE DEF fr, z
  <2>2. Decoded(decode_operands(z, fr, ops), R) /\ Extends(decode_operands(z, fr, ops), z, ops)
    BY <2>1, Decodes
  <2>3. Decoded(s, R) /\ Len(s.refs) = Len(State.refs) + Len(ops)
    BY <2>2 DEF fr, z, Extends
  <2>4. Len(ops) \in Nat
    BY <1>6, SeqFacts DEF IsOperands
  <2> QED
    BY <1>8, <2>3, <2>4, EmptyIsSeq
<1> HIDE DEF s
<1> DEFINE rs == s.refs
           h == s.heap
           th == s.thunks
           u == RefSeq(th)
           Y == X \o u
           P == Held(R, th, rs)
<1>10. IsThunks(th) /\ IsPos(th) /\ IsRefs(rs) /\ IsRefs(R) /\ Balanced(h, P) /\ Len(rs) = Len(phis)
  BY <1>6, <1>9 DEF Decoded, IsState, IsThunks
<1>11. IsRefs(L)
  BY <1>7, LocalsRefs
<1>12. IsRefs(u)
  BY <1>10, RefSeqRefs
<1> HIDE DEF L, u, th, rs, h
<1>13. IsRefs(Y) /\ \A c \in Pos : Count(Y, c) = Count(X, c) + Count(u, c) /\ Count(X, c) \in Nat /\ Count(u, c) \in Nat
  BY <1>3, <1>12, RefsConcat, CountSum, CountNat
<1>14. \A c \in Pos : Count(P, c) = (Count(R, c) + Count(u, c)) + Count(rs, c)
  BY <1>10, HeldCount DEF u
<1>15. \A c \in Pos : Count(R, c) = Count(X, c) + Count(L, c)
  BY <1>3, <1>11, CountSum DEF R
<1> HIDE DEF Y, P
<1>16. /\ IsRefs((Y \o L) \o rs)
       /\ \A c \in Pos : /\ Count((Y \o L) \o rs, c) = (Count(Y, c) + Count(L, c)) + Count(rs, c)
                         /\ Count(L, c) \in Nat /\ Count(rs, c) \in Nat
  BY <1>10, <1>11, <1>13, ThreeRefs
<1>17. SameCount(P, (Y \o L) \o rs)
  BY <1>13, <1>14, <1>15, <1>16 DEF SameCount
<1>18. Balanced(h, (Y \o Locals(Top.temps, n)) \o rs)
  BY <1>10, <1>16, <1>17, Rebalance DEF L
<1>19. IsTemps(a.temps, n) /\ Balanced(a.heap, Y \o Locals(a.temps, n))
  <2> DEFINE t == Top.temps
             b == AssignPhis(phis, rs, h, t)
  <2>1. IsTemps(t, n) /\ Balanced(h, (Y \o Locals(t, n)) \o rs)
    BY <1>7, <1>18
  <2>2. a = b
    BY DEF rs, h
  <2> HIDE DEF t, a
  <2>3. IsTemps(b.temps, n) /\ Balanced(b.heap, Y \o Locals(b.temps, n))
    BY <1>4, <1>7, <1>10, <1>13, <2>1, AssignsAll
  <2> QED
    BY <2>2, <2>3
<1> HIDE DEF a
<1>20. FrameIs(g, Top, a.temps, 1, "decode", <<>>, <<>>, <<>>, <<>>)
  <2>1. DOMAIN Top = FrameFields
    BY <1>3 DEF IsFrame
  <2> QED
    BY <1>2, <1>7, <2>1 DEF FrameIs, FrameFields
<1> HIDE DEF g
<1>21. IsFrame(code, g) /\ \A c \in Pos : FrameCount(code, g, c) = Count(Locals(a.temps, n), c)
  BY <1>3, <1>4, <1>19, <1>20, FrameDecodes
<1>22. \A c \in Pos : Count(Y \o Locals(a.temps, n), c) = (Count(X, c) + FrameCount(code, g, c)) + Count(u, c)
  <2> DEFINE M == Locals(a.temps, n)
  <2>1. IsRefs(M) /\ \A c \in Pos : FrameCount(code, g, c) = Count(M, c) /\ Count(M, c) \in Nat
    BY <1>7, <1>19, <1>21, LocalsRefs
  <2> HIDE DEF M
  <2>2. \A c \in Pos : Count(Y \o M, c) = Count(Y, c) + Count(M, c)
    BY <1>13, <2>1, CountSum
  <2>3. \A c \in Pos : Count(Y \o M, c) = (Count(X, c) + FrameCount(code, g, c)) + Count(u, c)
    BY <1>13, <2>1, <2>2
  <2> QED
    BY <2>3 DEF M
<1>23. Owns(code, Append(Below, g), a.heap, th, blocker, root)
  <2> DEFINE Q == Y \o Locals(a.temps, n)
  <2>1. Balanced(a.heap, Q) /\ \A c \in Pos : Count(Q, c) = (Count(Rest(code, stack, blocker, root), c) + FrameCount(code, g, c)) + Count(RefSeq(th), c)
    BY <1>19, <1>22 DEF Rest, X, u, Below
  <2> HIDE DEF Q
  <2> QED
    BY <1>2, <1>10, <1>21, <2>1, Turns DEF Below
<1> QED
  BY <1>1, <1>23 DEF th

-----------------------------------------------------------------------------
(* Waiting                                                                 *)

\* The frame on top holds a reference to what it waits for.
LEMMA AwaitedInTop ==
  ASSUME IsFrame(code, Top), stack # <<>>, Awaited # <<>>
  PROVE  /\ IsRefs(Awaited) /\ Len(Awaited) = 1
         /\ \A c \in Pos : Count(Awaited, c) >= 1 => FrameCount(code, Top, c) >= 1
<1> DEFINE fr == Top
           L == Locals(fr.temps, Size(code, fr))
           fn == fr.fn
           args == fr.args
           e == fr.extra
           o == fr.out
<1>1. \A c \in Pos : /\ FrameCount(code, fr, c) = (((Count(L, c) + Count(fn, c)) + Count(args, c)) + Count(e, c)) + Count(o, c)
                     /\ Count(L, c) \in Nat /\ Count(fn, c) \in Nat /\ Count(args, c) \in Nat
                     /\ Count(e, c) \in Nat /\ Count(o, c) \in Nat
  BY FrameParts
<1>2. AtStage(code, fr) /\ IsRefs(fn) /\ IsRefs(args) /\ IsRefs(o)
  BY DEF IsFrame, HasRefs
<1>3. \/ fr.st \in {"func", "cond"} /\ Awaited = fn
      \/ fr.st = "args" /\ fr.n <= Len(args) /\ Awaited = <<args[fr.n]>>
      \/ fr.st = "cbvalue" /\ Awaited = o
  BY DEF Awaited
<1>4. /\ fr.st \in {"func", "cond"} => Len(fn) = 1
      /\ fr.st = "args" => fr.n \in Pos
      /\ fr.st = "cbvalue" => Len(o) = 1
  BY <1>2 DEF AtStage
<1> DEFINE n == fr.n
           w == Awaited
<1> HIDE DEF L, fn, args, e, o, n, w
<1>5. CASE fr.st \in {"func", "cond"} /\ w = fn
  BY <1>1, <1>2, <1>4, <1>5 DEF w
<1>6. CASE fr.st = "cbvalue" /\ w = o
  BY <1>1, <1>2, <1>4, <1>6 DEF w
<1>7. CASE fr.st = "args" /\ n <= Len(args) /\ w = <<args[n]>>
  <2>1. n \in Nat /\ n # 0 /\ Len(args) \in Nat /\ IsSeq(args)
    BY <1>2, <1>4, <1>7, SeqFacts DEF n, Pos, IsRefs
  <2>2. n \in 1..Len(args)
    BY <1>7, <2>1
  <2> DEFINE x == args[n]
  <2>3. x.cell \in Nat /\ Count(args, x.cell) >= 1
    BY <1>2, <2>1, <2>2, CountIn DEF IsRefs
  <2>4. w = <<x>>
    BY <1>7
  <2> HIDE DEF x
  <2>5. IsRefs(w) /\ Len(w) = 1 /\ \A c \in Pos : Count(w, c) = Once(x, c)
    BY <2>3, <2>4, RefsOne, CountOne, OneSeq
  <2>6. \A c \in Pos : Count(w, c) >= 1 => Count(args, c) >= 1
    BY <2>3, <2>5 DEF Once
  <2>7. \A c \in Pos : Count(w, c) >= 1 => FrameCount(code, fr, c) >= 1
    BY <1>1, <2>6
  <2> QED
    BY <2>5, <2>7 DEF w
<1> QED
  BY <1>3, <1>5, <1>6, <1>7 DEF n, w

\* What the thread waits for is referenced, by a frame or by the thread.
LEMMA AwaitedIn ==
  ASSUME Owns(code, stack, heap, thunks, blocker, root), Awaited # <<>>
  PROVE  IsRefs(Awaited) /\ Len(Awaited) = 1 /\ Within(Awaited, Outside(code, stack, thunks, blocker, root))
<1> DEFINE O == Outside(code, stack, thunks, blocker, root)
<1>1. IsStack(code, stack) /\ IsRoot(stack, root) /\ IsThunks(thunks) /\ IsRefs(blocker)
  BY DEF Owns
<1>2. RootRefs(blocker, root) /\ HaveRefs(code, stack)
  BY <1>1, StackHasRefs DEF RootRefs, IsRoot
<1>3. \A c \in Pos :
           /\ Count(O, c) = (Count(StackRefs(code, stack), c) + OthersCount(blocker, root, c)) + Count(RefSeq(thunks), c)
           /\ Count(StackRefs(code, stack), c) \in Nat /\ OthersCount(blocker, root, c) \in Nat
           /\ Count(RefSeq(thunks), c) \in Nat
  BY <1>1, <1>2, OutsideRefs
<1> HIDE DEF O
<1>4. CASE stack = <<>>
  <2>1. root.st = "value" /\ Awaited = root.out
    BY <1>4 DEF Awaited
  <2>2. Len(Awaited) = 1 /\ IsRefs(Awaited)
    BY <1>1, <2>1 DEF IsRoot
  <2>3. \A c \in Pos : /\ Count(blocker, c) \in Nat /\ Count(root.deps, c) \in Nat /\ Count(Awaited, c) \in Nat
                       /\ OthersCount(blocker, root, c) = (Count(blocker, c) + Count(root.deps, c)) + Count(Awaited, c)
    BY <1>2, <2>1, OthersRefs DEF OthersCount
  <2>4. \A c \in Pos : OthersCount(blocker, root, c) >= Count(Awaited, c) /\ Count(Awaited, c) \in Nat
    BY <2>3
  <2>5. Within(Awaited, O)
    BY <1>3, <2>4 DEF Within
  <2> QED
    BY <2>2, <2>5 DEF O
<1>5. CASE stack # <<>>
  <2>1. IsFrame(code, Top) /\ Top = Last(stack)
    BY <1>1, <1>5, StackSplit DEF Top
  <2>2. /\ IsRefs(Awaited) /\ Len(Awaited) = 1
        /\ \A c \in Pos : Count(Awaited, c) >= 1 => FrameCount(code, Top, c) >= 1
    BY <1>5, <2>1, AwaitedInTop
  <2>3. /\ HaveRefs(code, Front(stack)) /\ HasRefs(code, Top)
        /\ \A c \in Pos : Count(StackRefs(code, stack), c) = Count(StackRefs(code, Front(stack)), c) + FrameCount(code, Top, c)
    BY <1>2, <1>5, <2>1, StackTop
  <2>4. \A c \in Pos : Count(StackRefs(code, Front(stack)), c) \in Nat /\ FrameCount(code, Top, c) \in Nat
    BY <2>3, StackNat, FrameNat
  <2>5. \A c \in Pos : FrameCount(code, Top, c) >= 1 => Count(O, c) >= 1
    BY <1>3, <2>3, <2>4
  <2>6. Within(Awaited, O)
    BY <2>2, <2>5 DEF Within
  <2> QED
    BY <2>2, <2>6 DEF O
<1> QED
  BY <1>4, <1>5

LEMMA AwaitPendingOwns ==
  ASSUME IInv, AwaitPending
  PROVE  Owns(code, stack, heap', thunks, blocker', root)
<1> DEFINE O == Outside(code, stack, thunks, blocker, root)
           w == Awaited
           x == Awaited[1]
           Q == Outside(code, stack, thunks, w, root)
           h == clone(heap, x)
<1>1. w # <<>> /\ heap' = drop_all(h, blocker) /\ blocker' = w
  BY DEF AwaitPending
<1>2. /\ Owns(code, stack, heap, thunks, blocker, root)
      /\ IsStack(code, stack) /\ IsRoot(stack, root) /\ IsThunks(thunks) /\ IsRefs(blocker) /\ Balanced(heap, O)
  BY DEF IInv, Owns
<1>3. IsRefs(w) /\ Len(w) = 1 /\ Within(w, O)
  BY <1>1, <1>2, AwaitedIn
<1>4. w = <<x>> /\ x.cell \in Nat
  <2>1. IsSeq(w) /\ 1 \in 1..Len(w)
    BY <1>3 DEF IsRefs
  <2> QED
    BY <1>3, <2>1, SingleSeq DEF IsRefs
<1> HIDE DEF w, x
<1>5. x.cell # 0 => Count(O, x.cell) >= 1
  <2>1. ASSUME x.cell # 0
        PROVE  Count(O, x.cell) >= 1
    <3>1. x.cell \in Pos
      BY <1>4, <2>1 DEF Pos
    <3>2. Count(w, x.cell) = 1
      BY <1>4, CountOne DEF Once
    <3> QED
      BY <1>3, <3>1, <3>2 DEF Within
  <2> QED
    BY <2>1
<1>6. Balanced(h, O \o w)
  <2>1. Balanced(clone(heap, x), O \o <<x>>)
    BY <1>2, <1>4, <1>5, BalancedClone
  <2> QED
    BY <1>4, <2>1
<1>7. RootRefs(blocker, root) /\ RootRefs(w, root) /\ HaveRefs(code, stack)
  BY <1>2, <1>3, StackHasRefs DEF RootRefs, IsRoot
<1>8. /\ IsRefs(O)
      /\ \A c \in Pos : /\ Count(O, c) = (Count(StackRefs(code, stack), c) + OthersCount(blocker, root, c)) + Count(RefSeq(thunks), c)
                        /\ Count(StackRefs(code, stack), c) \in Nat /\ Count(RefSeq(thunks), c) \in Nat
  BY <1>2, <1>7, OutsideRefs
<1>9. /\ IsRefs(Q)
      /\ \A c \in Pos : Count(Q, c) = (Count(StackRefs(code, stack), c) + OthersCount(w, root, c)) + Count(RefSeq(thunks), c)
  BY <1>2, <1>7, OutsideRefs
<1>10. \A c \in Pos : Count(w, c) \in Nat /\ Count(blocker, c) \in Nat /\ Count(root.deps, c) \in Nat /\ Count(root.out, c) \in Nat
  BY <1>7, OthersRefs
<1>11. \A c \in Pos : OthersCount(blocker, root, c) + Count(w, c) = OthersCount(w, root, c) + Count(blocker, c)
                      /\ OthersCount(blocker, root, c) \in Nat /\ OthersCount(w, root, c) \in Nat
  BY <1>10 DEF OthersCount
<1> HIDE DEF O, Q
<1>12. \A c \in Pos : Count(O \o w, c) = Count(O, c) + Count(w, c)
  BY <1>3, <1>8, CountSum
<1>13. IsRefs(Q \o blocker) /\ \A c \in Pos : Count(Q \o blocker, c) = Count(Q, c) + Count(blocker, c)
  BY <1>2, <1>9, RefsConcat, CountSum
<1>14. SameCount(O \o w, Q \o blocker)
  BY <1>8, <1>9, <1>10, <1>11, <1>12, <1>13 DEF SameCount
<1>15. Balanced(h, Q \o blocker)
  BY <1>6, <1>13, <1>14, Rebalance
<1> HIDE DEF h
<1>16. Balanced(drop_all(h, blocker), Q)
  BY <1>2, <1>9, <1>15, BalancedDropAll
<1>17. Owns(code, stack, drop_all(h, blocker), thunks, w, root)
  BY <1>2, <1>3, <1>16 DEF Owns, Q
<1> QED
  BY <1>1, <1>17

-----------------------------------------------------------------------------
(* The thread's first call, and its end                                    *)

LEMMA NoFrames ==
  ASSUME NEW cd
  PROVE  /\ IsStack(cd, <<>>) /\ Lowered(<<>>) /\ HaveRefs(cd, <<>>)
         /\ \A c \in Pos : Count(StackRefs(cd, <<>>), c) = 0
<1>1. IsSeq(<<>>) /\ 1..Len(<<>>) = {} /\ 1..Len(<<>>) - 1 = {}
  BY EmptyIsSeq
<1>2. IsStack(cd, <<>>) /\ Lowered(<<>>)
  BY <1>1 DEF IsStack, Lowered
<1> QED
  BY <1>2, StackEmpty

\* control's locals are dropped.
LEMMA Finishes ==
  ASSUME NEW cd, NEW h, NEW th, NEW rt, NEW r1, Owns(cd, <<>>, h, th, <<>>, rt),
         DOMAIN r1 = {"st", "deps", "out"}, r1.st = "done", r1.deps = <<>>, r1.out = <<>>
  PROVE  Owns(cd, <<>>, drop_all(h, rt.out \o rt.deps), th, <<>>, r1)
<1> DEFINE N == <<>>
           P == Outside(cd, N, th, N, rt)
           Q == Outside(cd, N, th, N, r1)
           d == rt.deps
           o == rt.out
           xs == o \o d
<1>1. IsStack(cd, N) /\ IsRoot(N, rt) /\ IsThunks(th) /\ IsRefs(N) /\ Balanced(h, P)
  BY DEF Owns
<1>2. IsRefs(d) /\ IsRefs(o)
  BY <1>1 DEF IsRoot
<1>3. RootRefs(N, rt) /\ RootRefs(N, r1) /\ HaveRefs(cd, N)
  BY <1>1, <1>2, StackHasRefs DEF RootRefs
<1>4. IsRoot(N, r1)
  BY <1>1 DEF IsRoot
<1>5. \A c \in Pos : Count(N, c) = 0
  BY CountEmpty
<1>6. \A c \in Pos : Count(r1.deps, c) = 0 /\ Count(r1.out, c) = 0
  BY <1>5
<1> HIDE DEF N
<1>7. \A c \in Pos : /\ Count(P, c) = (Count(StackRefs(cd, N), c) + OthersCount(N, rt, c)) + Count(RefSeq(th), c)
                     /\ Count(StackRefs(cd, N), c) \in Nat /\ Count(RefSeq(th), c) \in Nat
  BY <1>1, <1>3, OutsideRefs
<1>8. /\ IsRefs(Q)
      /\ \A c \in Pos : Count(Q, c) = (Count(StackRefs(cd, N), c) + OthersCount(N, r1, c)) + Count(RefSeq(th), c)
  BY <1>1, <1>3, OutsideRefs
<1>9. \A c \in Pos : OthersCount(N, r1, c) = 0 /\ OthersCount(N, rt, c) = (Count(N, c) + Count(d, c)) + Count(o, c)
  BY <1>5, <1>6 DEF OthersCount
<1> HIDE DEF P, Q, d, o
<1>10. IsRefs(xs) /\ \A c \in Pos : Count(xs, c) = Count(o, c) + Count(d, c) /\ Count(o, c) \in Nat /\ Count(d, c) \in Nat
  BY <1>2, RefsConcat, CountSum, CountNat
<1> HIDE DEF xs
<1>11. IsRefs(Q \o xs) /\ \A c \in Pos : Count(Q \o xs, c) = Count(Q, c) + Count(xs, c)
  BY <1>8, <1>10, RefsConcat, CountSum
<1>12. SameCount(P, Q \o xs)
  BY <1>5, <1>7, <1>8, <1>9, <1>10, <1>11 DEF SameCount
<1>13. Balanced(h, Q \o xs)
  BY <1>1, <1>11, <1>12, Rebalance
<1>14. Balanced(drop_all(h, xs), Q)
  BY <1>8, <1>10, <1>13, BalancedDropAll
<1> QED
  BY <1>1, <1>4, <1>14 DEF Owns, Q, N, xs, d, o

LEMMA FinishOwns ==
  ASSUME IInv, Finish
  PROVE  Owns(code, stack, heap', thunks, blocker', root')
<1> DEFINE r1 == [st |-> "done", deps |-> <<>>, out |-> <<>>]
           h == drop_all(heap, blocker)
<1>1. stack = <<>> /\ heap' = drop_all(h, root.out \o root.deps) /\ blocker' = <<>> /\ root' = r1
  BY DEF Finish, Unblocked
<1>2. Owns(code, stack, h, thunks, <<>>, root)
  BY Unblocks DEF IInv
<1>3. DOMAIN r1 = {"st", "deps", "out"} /\ r1.st = "done" /\ r1.deps = <<>> /\ r1.out = <<>>
  OBVIOUS
<1> HIDE DEF r1, h
<1>4. Owns(code, <<>>, drop_all(h, root.out \o root.deps), thunks, <<>>, r1)
  BY <1>1, <1>2, <1>3, Finishes
<1> QED
  BY <1>1, <1>4

\* The thread has declared its parameters and calls its first function with clones of them.
LEMMA FirstCall ==
  ASSUME NEW cd, NEW h, NEW th, NEW bl, NEW rt, NEW r1, NEW rs, NEW g,
         IsThunks(th), RootRefs(bl, rt), rt.deps = <<>>, rt.out = <<>>, IsRefs(rs),
         DOMAIN r1 = {"st", "deps", "out"}, r1.st = "call", r1.deps = rs, r1.out = <<>>,
         Balanced(h, Held(bl, th, rs)), IsFrame(cd, g),
         \A c \in Pos : FrameCount(cd, g, c) = Count(rs, c)
  PROVE  Owns(cd, <<g>>, clone_all(h, rs), th, bl, r1)
<1> DEFINE N == <<>>
           P == Held(bl, th, rs)
           Y == Elsewhere(cd, N, bl, r1)
           h1 == clone_all(h, rs)
<1>1. IsStack(cd, N) /\ Lowered(N) /\ \A c \in Pos : Count(StackRefs(cd, N), c) = 0
  BY NoFrames
<1>2. RootRefs(bl, r1) /\ IsRefs(bl) /\ IsPos(th) /\ HasRefs(cd, g)
  BY RefsEmpty DEF RootRefs, IsThunks, IsFrame
<1>3. \A c \in Pos : Count(r1.out, c) = 0 /\ Count(r1.deps, c) = Count(rs, c)
  BY CountEmpty
<1>4. Append(N, g) = <<g>>
  OBVIOUS
<1>5. IsRoot(<<g>>, r1)
  BY <1>2, OneSeq DEF IsRoot, RootRefs
<1> HIDE DEF N
<1>6. /\ IsRefs(P)
      /\ \A c \in Pos : /\ Count(P, c) = (Count(bl, c) + Count(RefSeq(th), c)) + Count(rs, c)
                        /\ Count(bl, c) \in Nat /\ Count(RefSeq(th), c) \in Nat /\ Count(rs, c) \in Nat
  BY <1>2, HeldCount
<1>7. Balanced(h, P)
  OBVIOUS
<1> HIDE DEF P
<1>8. Within(rs, P)
  BY <1>6 DEF Within
<1>9. Balanced(h1, P \o rs) /\ \A c \in Pos : Count(P \o rs, c) = Count(P, c) + Count(rs, c)
  BY <1>6, <1>7, <1>8, BalancedCloneAll, CountSum
<1>10. /\ IsRefs(Y)
       /\ \A c \in Pos : Count(Y, c) = Count(StackRefs(cd, N), c) + OthersCount(bl, r1, c)
  BY <1>1, <1>2, ElsewhereRefs
<1>11. \A c \in Pos : OthersCount(bl, r1, c) = Count(bl, c) + Count(rs, c)
  BY <1>3, <1>6 DEF OthersCount
<1> HIDE DEF Y, h1
<1>12. \A c \in Pos : Count(P \o rs, c) = (Count(Y, c) + FrameCount(cd, g, c)) + Count(RefSeq(th), c)
  BY <1>1, <1>6, <1>9, <1>10, <1>11
<1>13. Balanced(h1, Around(Y, cd, g, th))
  BY <1>2, <1>9, <1>10, <1>12, Arrange
<1>14. Owns(cd, Append(N, g), h1, th, bl, r1)
  <2>1. IsRoot(Append(N, g), r1)
    BY <1>4, <1>5
  <2> QED
    BY <1>1, <1>2, <1>13, <2>1, Leave DEF Y
<1> QED
  BY <1>4, <1>14 DEF h1

LEMMA StartOwns ==
  ASSUME IInv, Start
  PROVE  Owns(code, stack', heap', thunks', blocker, root')
<1> DEFINE s == DeclareConstants(State, MainParams)
           rs == s.refs
           r1 == [root EXCEPT !.st = "call", !.deps = s.refs]
           g == CFrame(Entry, s.refs)
           N == <<>>
           O == Outside(code, N, thunks, blocker, root)
           Q == Held(blocker, thunks, N)
<1>1. /\ root.st = "start" /\ heap' = clone_all(s.heap, rs) /\ thunks' = s.thunks /\ root' = r1 /\ stack' = <<g>>
  BY DEF Start, DeclareConstants
<1>2. IsCode(code) /\ Owns(code, stack, heap, thunks, blocker, root)
  BY DEF IInv
<1>3. IsRoot(stack, root) /\ IsThunks(thunks) /\ IsPos(thunks) /\ IsRefs(blocker) /\ RootRefs(blocker, root)
  BY <1>2 DEF Owns, IsRoot, RootRefs, IsThunks
<1>4. stack = N /\ root.deps = N /\ root.out = N /\ DOMAIN root = {"st", "deps", "out"}
  BY <1>1, <1>3 DEF IsRoot
<1>5. Balanced(heap, O)
  BY <1>2, <1>4 DEF Owns
<1>6. IsRefs(N) /\ HaveRefs(code, N) /\ \A c \in Pos : Count(StackRefs(code, N), c) = 0 /\ Count(N, c) = 0
  BY RefsEmpty, NoFrames, CountEmpty
<1>7. DOMAIN State = {"heap", "thunks", "refs"} /\ State.heap = heap /\ State.thunks = thunks /\ State.refs = N
  BY DEF State
<1>8. \A c \in Pos : OthersCount(blocker, root, c) = Count(blocker, c) /\ Count(blocker, c) \in Nat
  <2>1. \A c \in Pos : Count(root.deps, c) = 0 /\ Count(root.out, c) = 0
    BY <1>4, <1>6
  <2>2. \A c \in Pos : Count(blocker, c) \in Nat
    BY <1>3, CountNat
  <2> QED
    BY <2>1, <2>2 DEF OthersCount
<1>9. IsSeq(MainParams) /\ Len(MainParams) = 2
  <2>1. MainParams \in Seq(Nat) /\ Len(MainParams) = 2
    BY DEF MainParams
  <2> QED
    BY <2>1, SeqIs
<1>10. Len(N) = 0
  BY EmptyIsSeq
<1> HIDE DEF N
<1>11. \A c \in Pos : Count(O, c) = (Count(StackRefs(code, N), c) + OthersCount(blocker, root, c)) + Count(RefSeq(thunks), c)
  BY <1>3, <1>6, OutsideRefs
<1>12. /\ IsRefs(Q)
       /\ \A c \in Pos : /\ Count(Q, c) = (Count(blocker, c) + Count(RefSeq(thunks), c)) + Count(N, c)
                         /\ Count(RefSeq(thunks), c) \in Nat
  <2>1. IsRefs(blocker) /\ IsPos(thunks) /\ IsRefs(N)
    BY <1>3, <1>6
  <2> QED
    BY ONLY <2>1, HeldCount
<1> HIDE DEF O
<1>13. SameCount(O, Q)
  <2> HIDE DEF Q
  <2> QED
    BY <1>6, <1>8, <1>11, <1>12 DEF SameCount
<1>14. Balanced(heap, Q)
  BY <1>5, <1>12, <1>13, Rebalance
<1>15. Decoded(State, blocker)
  <2>1. IsState(State)
    BY <1>3, <1>6, <1>7 DEF IsState
  <2> QED
    BY <1>3, <1>7, <1>14, <2>1 DEF Decoded
<1>16. Decoded(s, blocker) /\ Len(rs) = 2
  <2> DEFINE z == State
             vs == MainParams
  <2>1. Decoded(z, blocker) /\ IsSeq(vs) /\ Len(vs) = 2 /\ Len(z.refs) = 0
    BY <1>7, <1>9, <1>10, <1>15
  <2> HIDE DEF z, vs
  <2>2. Decoded(DeclareConstants(z, vs), blocker) /\ Extends(DeclareConstants(z, vs), z, vs)
    BY <2>1, DeclaresConstants
  <2>3. Len(DeclareConstants(z, vs).refs) = 2
    BY <2>1, <2>2 DEF Extends
  <2> QED
    BY <2>2, <2>3 DEF z, vs
<1>17. DOMAIN r1 = {"st", "deps", "out"} /\ r1.st = "call" /\ r1.deps = rs /\ r1.out = <<>>
  BY <1>4 DEF N
<1> HIDE DEF s, r1
<1>18. IsThunks(s.thunks) /\ IsRefs(rs) /\ Balanced(s.heap, Held(blocker, s.thunks, rs))
  BY <1>16 DEF Decoded, IsState
<1>19. g = CFrame(Entry, rs)
  OBVIOUS
<1> HIDE DEF rs, g
<1>20. IsFrame(code, g) /\ \A c \in Pos : FrameCount(code, g, c) = Count(rs, c)
  BY <1>2, <1>16, <1>18, <1>19, Fresh DEF IsCode
<1>21. Owns(code, <<g>>, clone_all(s.heap, rs), s.thunks, blocker, r1)
  <2>1. root.deps = <<>> /\ root.out = <<>>
    BY <1>4 DEF N
  <2> QED
    BY <1>3, <1>17, <1>18, <1>20, <2>1, FirstCall
<1> QED
  BY <1>1, <1>21

-----------------------------------------------------------------------------
(* step_pure                                                               *)

\* What is referenced is a cell that is not free.
LEMMA Referenced ==
  ASSUME NEW h, NEW R, NEW c \in Pos, Balanced(h, R), Count(R, c) >= 1
  PROVE  c \in 1..Len(h.cells) /\ ~Freed(h, c)
<1>1. Owed(h, c) = CellCount(h, c) + Count(R, c) /\ IsHeap(h) /\ IsRefs(R)
  BY DEF Balanced
<1>2. CellCount(h, c) \in Nat /\ Count(R, c) \in Nat
  BY <1>1, CellCountNat, CountNat
<1>3. Owed(h, c) # 0
  BY <1>1, <1>2
<1> QED
  BY <1>3 DEF Owed

ScanFields == {"heap", "mem", "pending", "stop"}
ScanOp(e, p, c) == scan(p, c)
Scans(p, cs) == Fold(scan, p, cs)
ScanFold == INSTANCE FoldProofs WITH Op <- ScanOp

LEMMA ScanSteps ==
  ASSUME NEW p, NEW cs, Len(cs) \in Nat
  PROVE  \E f : /\ f[0] = p /\ \A i \in 1..Len(cs) : f[i] = scan(f[i - 1], cs[i])
                /\ Scans(p, cs) = f[Len(cs)]
<1> DEFINE f == CHOOSE g : ScanFold!IsFold(g, 0, p, cs)
<1>1. ScanFold!IsFold(f, 0, p, cs)
  BY ScanFold!FoldSolution
<1>2. Scans(p, cs) = f[Len(cs)]
  BY DEF Scans, Fold, ScanFold!IsFold, ScanOp
<1>3. f[0] = p /\ \A i \in 1..Len(cs) : f[i] = scan(f[i - 1], cs[i])
  <2> HIDE DEF f
  <2>1. f[0] = p /\ \A i \in 1..Len(cs) : f[i] = ScanOp(0, f[i - 1], cs[i])
    BY <1>1, ScanFold!FoldValues
  <2> QED
    BY <2>1 DEF ScanOp
<1> QED
  BY <1>2, <1>3

\* A pass that has come as far as p: the heap is balanced and has n cells.
Passed(p, R, n) == DOMAIN p = ScanFields /\ Balanced(p.heap, R) /\ Len(p.heap.cells) = n

LEMMA StepPasses ==
  ASSUME NEW p, NEW R, NEW n, NEW c \in 1..n, Passed(p, R, n)
  PROVE  Passed(step(p, c), R, n)
<1>1. DOMAIN p = ScanFields /\ Balanced(p.heap, R) /\ Len(p.heap.cells) = n
  BY DEF Passed
<1>2. {"heap", "mem"} \subseteq DOMAIN p /\ c \in 1..Len(p.heap.cells)
  BY <1>1 DEF ScanFields
<1>3. /\ Balanced(step(p, c).heap, R) /\ DOMAIN step(p, c) = DOMAIN p
      /\ Len(step(p, c).heap.cells) = Len(p.heap.cells)
  BY <1>1, <1>2, BalancedStep
<1> QED
  BY <1>1, <1>3 DEF Passed

LEMMA ScanPasses ==
  ASSUME NEW p, NEW R, NEW n, NEW c \in 1..n, Passed(p, R, n)
  PROVE  Passed(scan(p, c), R, n)
<1> DEFINE thunk == p.heap.cells[c].value
           addr == ValIn(p.heap, thunk.addr[1])
           p1 == [p EXCEPT !.stop = TRUE]
           p2 == [p EXCEPT !.pending = @ \cup {addr}]
<1>1. scan(p, c) \in {p, step(p, c), p1, step(p2, c)}
  <2> DEFINE A == p.stop
             B == IsMemory(thunk.op)
             C == ReadyIn(p.heap, thunk.addr[1])
             D == addr \in p.pending
             q == step(p, c)
             q2 == step(p2, c)
  <2>1. scan(p, c) = CASE A -> p [] ~A /\ ~B -> q [] ~A /\ B /\ ~C -> p1
                       [] OTHER -> IF D THEN p ELSE q2
    BY DEF scan
  <2> HIDE DEF A, B, C, D, q, q2, p1
  <2>2. scan(p, c) \in {p, q, p1, q2}
    BY <2>1
  <2> QED
    BY <2>2 DEF q, q2
<1>2. DOMAIN p = ScanFields
  BY DEF Passed
<1>3. /\ DOMAIN p1 = ScanFields /\ p1.heap = p.heap
      /\ DOMAIN p2 = ScanFields /\ p2.heap = p.heap
  <2> HIDE DEF addr
  <2> QED
    BY <1>2 DEF ScanFields
<1> HIDE DEF p1, p2
<1>4. Passed(p1, R, n) /\ Passed(p2, R, n)
  BY <1>3 DEF Passed
<1>5. Passed(step(p, c), R, n) /\ Passed(step(p2, c), R, n)
  BY <1>4, StepPasses
<1> QED
  BY <1>1, <1>4, <1>5

LEMMA ScansPass ==
  ASSUME NEW p, NEW R, NEW n, NEW cs, IsSeq(cs), \A i \in 1..Len(cs) : cs[i] \in 1..n, Passed(p, R, n)
  PROVE  Passed(Scans(p, cs), R, n)
<1> DEFINE m == Len(cs)
<1>1. m \in Nat
  BY SeqFacts
<1>2. PICK f : /\ f[0] = p /\ \A i \in 1..m : f[i] = scan(f[i - 1], cs[i])
               /\ Scans(p, cs) = f[m]
  BY <1>1, ScanSteps
<1> DEFINE T == {i \in 0..m : Passed(f[i], R, n)}
<1>3. 0 \in T
  BY <1>1, <1>2
<1>4. ASSUME NEW i \in 1..m, i - 1 \in T
      PROVE  i \in T
  <2> DEFINE g == f[i - 1]
             c == cs[i]
  <2>1. Passed(g, R, n) /\ c \in 1..n /\ f[i] = scan(g, c)
    BY <1>2, <1>4
  <2> HIDE DEF g, c
  <2>2. Passed(f[i], R, n)
    BY <2>1, ScanPasses
  <2>3. i \in 0..m
    BY <1>1
  <2> QED
    BY <2>2, <2>3
<1>5. \A i \in 0..m : i \in T
  <2> HIDE DEF T
  <2> QED
    BY <1>1, <1>3, <1>4, UpTo
<1>6. Passed(f[m], R, n)
  BY <1>1, <1>5
<1> QED
  BY <1>2, <1>6

LEMMA StepPureOwns ==
  ASSUME IInv, StepPure
  PROVE  Owns(code, stack, heap', thunks', blocker, root)
<1> DEFINE pending == {c \in ToSet(thunks) : Pending(c)}
           rest == ToSet(thunks) \ pending
           gone == Keep(thunks, rest)
           kept == Keep(thunks, pending)
           h == drop_all(heap, RefSeq(gone))
           z == [heap |-> h, mem |-> mem, pending |-> {}, stop |-> FALSE]
           p == Scans(z, kept)
           O == Outside(code, stack, thunks, blocker, root)
           Q == Outside(code, stack, kept, blocker, root)
<1>1. thunks' = kept /\ heap' = p.heap
  <2>1. Pass.thunks = kept /\ Pass.heap = p.heap
    BY DEF Pass, Scans, RefSeq
  <2> QED
    BY <2>1 DEF StepPure
<1>2. IsStack(code, stack) /\ IsRoot(stack, root) /\ IsThunks(thunks) /\ IsRefs(blocker) /\ Balanced(heap, O)
  BY DEF IInv, Owns
<1>3. Divide(thunks, pending, rest)
  <2>1. IsSeq(thunks)
    BY <1>2 DEF IsThunks, IsPos
  <2>2. \A i \in 1..Len(thunks) : thunks[i] \in ToSet(thunks)
    BY <2>1, SeqFacts DEF ToSet
  <2> QED
    BY <2>2 DEF Divide
<1> HIDE DEF pending, rest
<1>4. IsThunks(kept) /\ IsThunks(gone)
  BY <1>2, KeepThunks
<1>5. \A c \in Pos : Count(RefSeq(kept), c) + Count(RefSeq(gone), c) = Count(RefSeq(thunks), c)
  BY <1>2, <1>3, KeepSplit
<1> HIDE DEF kept, gone
<1>6. IsRefs(RefSeq(gone)) /\ \A c \in Pos : Count(RefSeq(gone), c) \in Nat
  BY <1>4, RefSeqRefs, CountNat DEF IsThunks
<1>7. RootRefs(blocker, root) /\ HaveRefs(code, stack)
  BY <1>2, StackHasRefs DEF RootRefs, IsRoot
<1>8. \A c \in Pos : Count(O, c) = (Count(StackRefs(code, stack), c) + OthersCount(blocker, root, c)) + Count(RefSeq(thunks), c)
  BY <1>2, <1>7, OutsideRefs
<1>9. /\ IsRefs(Q)
      /\ \A c \in Pos :
           /\ Count(Q, c) = (Count(StackRefs(code, stack), c) + OthersCount(blocker, root, c)) + Count(RefSeq(kept), c)
           /\ Count(StackRefs(code, stack), c) \in Nat /\ OthersCount(blocker, root, c) \in Nat
           /\ Count(RefSeq(kept), c) \in Nat
  BY <1>4, <1>7, OutsideRefs
<1> HIDE DEF O, Q
<1> DEFINE xs == RefSeq(gone)
<1>10. IsRefs(xs) /\ h = drop_all(heap, xs) /\ \A c \in Pos : Count(RefSeq(kept), c) + Count(xs, c) = Count(RefSeq(thunks), c) /\ Count(xs, c) \in Nat
  BY <1>5, <1>6
<1> HIDE DEF xs, h
<1>11. IsRefs(Q \o xs) /\ \A c \in Pos : Count(Q \o xs, c) = Count(Q, c) + Count(xs, c)
  BY <1>9, <1>10, RefsConcat, CountSum
<1>12. SameCount(O, Q \o xs)
  BY <1>8, <1>9, <1>10, <1>11 DEF SameCount
<1>13. Balanced(heap, Q \o xs)
  BY <1>2, <1>11, <1>12, Rebalance
<1>14. Balanced(h, Q)
  BY <1>9, <1>10, <1>13, BalancedDropAll
<1> DEFINE n == Len(h.cells)
<1>15. IsSeq(kept) /\ \A i \in 1..Len(kept) : kept[i] \in 1..n
  <2>1. IsPos(kept) /\ IsSeq(kept)
    BY <1>4 DEF IsThunks, IsPos
  <2>2. ASSUME NEW i \in 1..Len(kept)
        PROVE  kept[i] \in 1..n
    <3> DEFINE c == kept[i]
    <3>1. c \in Pos
      BY <2>1 DEF IsPos
    <3>2. IsRefs(RefSeq(kept)) /\ Len(RefSeq(kept)) = Len(kept) /\ RefSeq(kept)[i].cell = c
      BY <2>1, RefSeqRefs
    <3>3. i \in 1..Len(RefSeq(kept)) /\ IsSeq(RefSeq(kept))
      BY <3>2 DEF IsRefs
    <3>4. Count(RefSeq(kept), c) >= 1
      BY <3>2, <3>3, CountIn
    <3> HIDE DEF c
    <3>5. Count(Q, c) >= 1
      BY <1>9, <3>1, <3>4
    <3>6. c \in 1..n
      BY <1>14, <3>1, <3>5, Referenced
    <3> QED
      BY <3>6 DEF c
  <2> QED
    BY <2>1, <2>2
<1>16. Passed(z, Q, n)
  BY <1>14 DEF Passed, ScanFields
<1> HIDE DEF z, n
<1>17. Passed(p, Q, n)
  BY <1>15, <1>16, ScansPass
<1> HIDE DEF p
<1>18. Owns(code, stack, p.heap, kept, blocker, root)
  BY <1>2, <1>4, <1>17 DEF Owns, Passed, Q
<1> QED
  BY <1>1, <1>18

-----------------------------------------------------------------------------
(* The invariant is inductive                                              *)

LEMMA EmptyIsBalanced ==
  ASSUME NEW R, IsRefs(R), \A c \in Pos : Count(R, c) = 0
  PROVE  Balanced(EmptyHeap, R)
<1> DEFINE N == <<>>
           h == EmptyHeap
<1>1. DOMAIN h = {"cells", "free"} /\ h.cells = N /\ h.free = N
  BY DEF EmptyHeap
<1>2. IsSeq(N) /\ Len(N) = 0 /\ 1..0 = {}
  BY EmptyIsSeq
<1>3. CellRefs(N) = <<>>
  BY <1>2, CellSteps
<1>4. \A c \in Pos : Count(CellRefs(N), c) = 0
  BY <1>3, CountEmpty
<1> HIDE DEF N, h
<1>5. IsHeap(h)
  BY <1>1, <1>2 DEF IsHeap, IsCells, IsFree
<1>6. \A c \in Pos : Owed(h, c) = 0 /\ CellCount(h, c) = 0
  BY <1>1, <1>2, <1>4 DEF Owed, CellCount
<1>7. \A c \in Pos : Owed(h, c) = CellCount(h, c) + Count(R, c)
  BY <1>6
<1> QED
  BY <1>5, <1>7 DEF Balanced, h

LEMMA InitInvariant ==
  ASSUME Init
  PROVE  IInv
<1> DEFINE N == <<>>
           O == Outside(code, N, N, N, root)
<1>1. /\ prog \in Programs /\ code = compile_program(prog)
      /\ stack = N /\ heap = EmptyHeap /\ thunks = N /\ blocker = N
      /\ ctl = "woken" /\ root = [st |-> "start", deps |-> N, out |-> N] /\ outcome = "run"
  BY DEF Init
<1>2. IsCode(code)
  BY <1>1, ProgramAssumption, Compiles
<1>3. root.st = "start" /\ root.deps = N /\ root.out = N /\ DOMAIN root = {"st", "deps", "out"}
  BY <1>1
<1>4. IsRefs(N) /\ IsStack(code, N) /\ HaveRefs(code, N) /\ \A c \in Pos : Count(StackRefs(code, N), c) = 0 /\ Count(N, c) = 0
  BY RefsEmpty, NoFrames, CountEmpty
<1>5. IsThunks(N) /\ RefSeq(N) = N
  <2>1. IsSeq(N) /\ 1..Len(N) = {} /\ DOMAIN N = {}
    BY EmptyIsSeq
  <2>2. IsThunks(N)
    BY <2>1 DEF IsThunks, IsPos, Distinct
  <2>3. IsSeq(RefSeq(N)) /\ Len(RefSeq(N)) = Len(N)
    BY <2>2, RefSeqRefs DEF IsThunks, IsRefs
  <2> QED
    BY <2>1, <2>2, <2>3, SeqFacts, EmptyIsSeq
<1>6. IsRoot(N, root)
  BY <1>3, <1>4 DEF IsRoot
<1> HIDE DEF N
<1>7. RootRefs(N, root)
  BY <1>3, <1>4 DEF RootRefs
<1>8. /\ IsRefs(O)
      /\ \A c \in Pos : Count(O, c) = (Count(StackRefs(code, N), c) + OthersCount(N, root, c)) + Count(RefSeq(N), c)
  BY <1>4, <1>5, <1>7, OutsideRefs
<1>9. \A c \in Pos : OthersCount(N, root, c) = 0
  BY <1>3, <1>4 DEF OthersCount
<1>10. \A c \in Pos : Count(O, c) = 0
  BY <1>4, <1>5, <1>8, <1>9
<1> HIDE DEF O
<1>11. Balanced(heap, O)
  BY <1>1, <1>8, <1>10, EmptyIsBalanced
<1>12. Owns(code, N, heap, N, N, root)
  BY <1>4, <1>5, <1>6, <1>11 DEF Owns, O
<1> QED
  BY <1>1, <1>2, <1>12 DEF IInv

\* What an action leaves alone besides.
Sound == ctl' \in {"running", "waiting", "woken", "done"} /\ outcome' \in {"run", "ok", "panic", "crash"} /\ code' = code
Moves(st, h, th, bl, rt) == stack' = st /\ heap' = h /\ thunks' = th /\ blocker' = bl /\ root' = rt

LEMMA Preserved ==
  ASSUME NEW st, NEW h, NEW th, NEW bl, NEW rt, IInv, Sound, Moves(st, h, th, bl, rt), Owns(code, st, h, th, bl, rt)
  PROVE  IInv'
BY DEF IInv, Sound, Moves

LEMMA NextInvariant ==
  ASSUME IInv, [Next]_vars
  PROVE  IInv'
<1>0. ctl \in {"running", "waiting", "woken", "done"} /\ outcome \in {"run", "ok", "panic", "crash"}
  BY DEF IInv
<1> USE <1>0
<1>1. CASE Poll
  <2>1. Sound /\ Moves(stack, heap, thunks, blocker, root)
    BY <1>1 DEF Poll, Sound, Moves
  <2> QED
    BY <2>1, Preserved DEF IInv
<1>2. CASE Start
  <2>1. Sound /\ Moves(stack', heap', thunks', blocker, root')
    BY <1>2 DEF Start, Sound, Moves
  <2> QED
    BY <1>2, <2>1, StartOwns, Preserved
<1>3. CASE DecodePhis
  <2>1. Sound /\ Moves(stack', heap', thunks', blocker, root)
    BY <1>3 DEF DecodePhis, Sound, Moves
  <2> QED
    BY <1>3, <2>1, DecodePhisOwns, Preserved
<1>4. CASE DecodeInstr
  <2>1. Sound /\ Moves(stack', heap', thunks', blocker, root)
    BY <1>4 DEF DecodeInstr, Sound, Moves
  <2> QED
    BY <1>4, <2>1, DecodeInstrOwns, Preserved
<1>5. CASE DecodeFence
  <2>1. Sound /\ Moves(stack', heap, thunks, blocker, root)
    BY <1>5 DEF DecodeFence, Sound, Moves
  <2> QED
    BY <1>5, <2>1, DecodeFenceOwns, Preserved
<1>6. CASE DecodeBr
  <2>1. Sound /\ Moves(stack', heap, thunks, blocker, root)
    BY <1>6 DEF DecodeBr, Sound, Moves
  <2> QED
    BY <1>6, <2>1, DecodeBrOwns, Preserved
<1>7. CASE DecodeHeld
  <2>1. Sound /\ Moves(stack', heap', thunks', blocker, root)
    BY <1>7 DEF DecodeHeld, Sound, Moves
  <2> QED
    BY <1>7, <2>1, DecodeHeldOwns, Preserved
<1>8. CASE AwaitPending
  <2>1. Sound /\ Moves(stack, heap', thunks, blocker', root)
    BY <1>8 DEF AwaitPending, Sound, Moves
  <2> QED
    BY <1>8, <2>1, AwaitPendingOwns, Preserved
<1>9. CASE Branch
  <2>1. Sound /\ Moves(stack', heap', thunks, blocker', root)
    BY <1>9 DEF Branch, Sound, Moves
  <2> QED
    BY <1>9, <2>1, BranchOwns, Preserved
<1>10. CASE CallFunction
  <2>1. Sound /\ Moves(stack', heap', thunks, blocker', root)
    BY <1>10 DEF CallFunction, Sound, Moves
  <2> QED
    BY <1>10, <2>1, CallFunctionOwns, Preserved
<1>11. CASE CallComp
  <2>1. Sound /\ Moves(stack', heap', thunks', blocker', root)
    BY <1>11 DEF CallComp, Sound, Moves
  <2> QED
    BY <1>11, <2>1, CallCompOwns, Preserved
<1>12. CASE CallNative
  <2>1. Sound /\ Moves(stack', heap', thunks, blocker', root)
    BY <1>12 DEF CallNative, Sound, Moves
  <2> QED
    BY <1>12, <2>1, CallNativeOwns, Preserved
<1>13. CASE NextArg
  <2>1. Sound /\ Moves(stack', heap', thunks, blocker', root)
    BY <1>13 DEF NextArg, Sound, Moves
  <2> QED
    BY <1>13, <2>1, NextArgOwns, Preserved
<1>14. CASE NativeReturn
  <2>1. Sound /\ Moves(stack', heap', thunks', blocker, root)
    BY <1>14 DEF NativeReturn, Sound, Moves
  <2> QED
    BY <1>14, <2>1, NativeReturnOwns, Preserved
<1>15. CASE NativeRaise
  <2>1. Sound /\ Moves(stack', heap, thunks, blocker, root)
    BY <1>15 DEF NativeRaise, Sound, Moves
  <2> QED
    BY <1>15, <2>1, NativeRaiseOwns, Preserved
<1>16. CASE NativeLoop
  <2>1. Sound /\ Moves(stack', heap, thunks, blocker, root)
    BY <1>16 DEF NativeLoop, Sound, Moves
  <2> QED
    BY <1>16, <2>1, NativeLoopOwns, Preserved
<1>17. CASE LoopCall
  <2>1. Sound /\ Moves(stack', heap', thunks', blocker, root)
    BY <1>17 DEF LoopCall, Sound, Moves
  <2> QED
    BY <1>17, <2>1, LoopCallOwns, Preserved
<1>18. CASE LoopNext
  <2>1. Sound /\ Moves(stack', heap', thunks, blocker', root)
    BY <1>18 DEF LoopNext, Sound, Moves
  <2> QED
    BY <1>18, <2>1, LoopNextOwns, Preserved
<1>19. CASE LoopDone
  <2>1. Sound /\ Moves(stack', heap', thunks', blocker, root)
    BY <1>19 DEF LoopDone, Sound, Moves
  <2> QED
    BY <1>19, <2>1, LoopDoneOwns, Preserved
<1>20. CASE DecodeRet
  <2>1. Sound /\ Moves(stack', heap', thunks', blocker, root')
    BY <1>20 DEF DecodeRet, Sound, Moves
  <2> QED
    BY <1>20, <2>1, DecodeRetOwns, Preserved
<1>21. CASE Take
  <2>1. Sound /\ Moves(stack', heap', thunks, blocker, root)
    BY <1>21 DEF Take, Sound, Moves
  <2> QED
    BY <1>21, <2>1, TakeOwns, Preserved
<1>22. CASE Unwind
  <2>1. Sound /\ Moves(stack', heap', thunks, blocker, root')
    BY <1>22 DEF Unwind, Sound, Moves
  <2> QED
    BY <1>22, <2>1, UnwindOwns, Preserved
<1>23. CASE UnwrapPanics
  <2>1. Sound /\ Moves(stack, heap, thunks, blocker, root)
    BY <1>23 DEF UnwrapPanics, Sound, Moves
  <2> QED
    BY <2>1, Preserved DEF IInv
<1>24. CASE Finish
  <2>1. Sound /\ Moves(stack, heap', thunks, blocker', root')
    BY <1>24 DEF Finish, Sound, Moves
  <2> QED
    BY <1>24, <2>1, FinishOwns, Preserved
<1>25. CASE Crash
  <2>1. Sound /\ Moves(stack, heap, thunks, blocker, root)
    BY <1>25 DEF Crash, Sound, Moves
  <2> QED
    BY <2>1, Preserved DEF IInv
<1>26. CASE StepPure
  <2>1. Sound /\ Moves(stack, heap', thunks', blocker, root)
    BY <1>26 DEF StepPure, Sound, Moves
  <2> QED
    BY <1>26, <2>1, StepPureOwns, Preserved
<1>27. CASE StepPanics
  <2>1. Sound /\ Moves(stack, heap, thunks, blocker, root)
    BY <1>27 DEF StepPanics, Sound, Moves
  <2> QED
    BY <2>1, Preserved DEF IInv
<1>28. CASE UNCHANGED vars
  <2>1. Sound /\ Moves(stack, heap, thunks, blocker, root)
    BY <1>28 DEF vars, Sound, Moves
  <2> QED
    BY <2>1, Preserved DEF IInv
<1> QED
  BY <1>1, <1>2, <1>3, <1>4, <1>5, <1>6, <1>7, <1>8, <1>9, <1>10, <1>11, <1>12, <1>13, <1>14, <1>15, <1>16, <1>17, <1>18, <1>19, <1>20, <1>21, <1>22, <1>23, <1>24, <1>25, <1>26, <1>27, <1>28 DEF Next, Control

-----------------------------------------------------------------------------
(* What the invariant implies                                              *)

\* A reference in a frame is a reference in the stack.
LEMMA FramesPart ==
  ASSUME NEW cd, NEW st, NEW k \in 1..Len(st), NEW c \in Pos, IsStack(cd, st)
  PROVE  /\ FrameCount(cd, st[k], c) \in Nat /\ FrameCount(cd, st[k], c) <= Count(StackRefs(cd, st), c)
         /\ Count(StackRefs(cd, st), c) \in Nat
<1> DEFINE n == Len(st)
           a == FrameTerms(cd, st, c)
<1>1. HaveRefs(cd, st) /\ n \in Nat
  BY StackHasRefs, SeqFacts
<1>2. PICK f : IsSum(f, a, n) /\ Count(StackRefs(cd, st), c) = f[n]
  BY <1>1, StackSum
<1>3. IsNats(a, n)
  BY <1>1, StackSum
<1>4. a[k] = FrameCount(cd, st[k], c)
  BY DEF FrameTerms
<1> HIDE DEF a
<1>5. f[n] \in Nat /\ a[k] <= f[n] /\ a[k] \in Nat
  BY <1>1, <1>2, <1>3, SumTerm DEF IsNats
<1> QED
  BY <1>2, <1>4, <1>5

LEMMA TypesHold ==
  ASSUME IInv
  PROVE  InterpTypeOK
<1> DEFINE O == Outside(code, stack, thunks, blocker, root)
           n == Len(heap.cells)
<1>1. /\ IsStack(code, stack) /\ IsRoot(stack, root) /\ IsThunks(thunks) /\ IsRefs(blocker) /\ Balanced(heap, O)
      /\ ctl \in {"running", "waiting", "woken", "done"} /\ outcome \in {"run", "ok", "panic", "crash"}
  BY DEF IInv, Owns
<1>2. RootRefs(blocker, root) /\ HaveRefs(code, stack)
  BY <1>1, StackHasRefs DEF RootRefs, IsRoot
<1>3. \A c \in Pos :
           /\ Count(O, c) = (Count(StackRefs(code, stack), c) + OthersCount(blocker, root, c)) + Count(RefSeq(thunks), c)
           /\ Count(StackRefs(code, stack), c) \in Nat /\ OthersCount(blocker, root, c) \in Nat
           /\ Count(RefSeq(thunks), c) \in Nat
  BY <1>1, <1>2, OutsideRefs
<1> HIDE DEF O
<1>4. IsHeap(heap) /\ Cells = 1..n /\ IsFree(heap) /\ n \in Nat
  BY <1>1, HeapLen DEF Balanced, IsHeap, Cells
<1>5. \A c \in Pos : Count(O, c) >= 1 => c \in Cells
  BY <1>1, <1>4, Referenced
<1>6. IsPos(thunks) /\ IsSeq(thunks) /\ Distinct(thunks) /\ DOMAIN thunks = 1..Len(thunks)
  BY <1>1, SeqFacts DEF IsThunks, IsPos
<1>7. ToSet(thunks) \subseteq Cells
  <2>1. ASSUME NEW i \in 1..Len(thunks)
        PROVE  thunks[i] \in Cells
    <3> DEFINE c == thunks[i]
    <3>1. c \in Pos
      BY <1>6 DEF IsPos
    <3>2. IsRefs(RefSeq(thunks)) /\ Len(RefSeq(thunks)) = Len(thunks) /\ RefSeq(thunks)[i].cell = c
      BY <1>6, RefSeqRefs
    <3>3. i \in 1..Len(RefSeq(thunks)) /\ IsSeq(RefSeq(thunks))
      BY <3>2 DEF IsRefs
    <3>4. Count(RefSeq(thunks), c) >= 1
      BY <3>2, <3>3, CountIn
    <3> HIDE DEF c
    <3>5. Count(O, c) >= 1
      BY <1>3, <3>1, <3>4
    <3> QED
      BY <1>5, <3>1, <3>5 DEF c
  <2> QED
    BY <1>6, <2>1 DEF ToSet
<1>8. ToSet(heap.free) \subseteq Cells /\ IsInjective(heap.free)
  <2>1. DOMAIN heap.free = 1..Len(heap.free)
    BY <1>4, SeqFacts DEF IsFree
  <2> QED
    BY <1>4, <2>1 DEF IsFree, ToSet, IsInjective
<1>9. IsInjective(thunks)
  BY <1>6 DEF Distinct, IsInjective
<1>10. ASSUME NEW k \in DOMAIN stack
       PROVE  /\ \A i \in DOMAIN stack[k].temps : stack[k].temps[i].cell \in Cells \cup {0}
              /\ k < Len(stack) => stack[k].st \in {"call", "callback"}
  <2> DEFINE m == Len(stack)
             fr == stack[k]
             l == Size(code, fr)
  <2>1. m \in Nat /\ k \in 1..m
    BY <1>1, SeqFacts DEF IsStack
  <2>2. k < m => fr.st \in {"call", "callback"}
    <3>1. k < m => k \in 1..m - 1
      BY <2>1
    <3> QED
      BY <1>1, <3>1 DEF IsStack
  <2>3. IsFrame(code, fr)
    BY <1>1, <2>1 DEF IsStack
  <2>4. \A c \in Pos : FrameCount(code, fr, c) <= Count(StackRefs(code, stack), c) /\ FrameCount(code, fr, c) \in Nat
    BY <1>1, <2>1, FramesPart
  <2>5. \A c \in Pos : FrameCount(code, fr, c) >= 1 => Count(O, c) >= 1
    BY <1>3, <2>4
  <2> HIDE DEF fr
  <2>6. ASSUME NEW i \in DOMAIN fr.temps
        PROVE  fr.temps[i].cell \in Cells \cup {0}
    <3> DEFINE t == fr.temps
               x == t[i].cell
               L == Locals(t, l)
    <3>1. IsTemps(t, l) /\ l \in Nat
      BY <2>3, FrameParts DEF IsFrame, HasRefs
    <3>2. x \in Nat
      BY <3>1 DEF IsTemps
    <3>3. CASE x # 0
      <4>1. x \in Pos
        BY <3>2, <3>3 DEF Pos
      <4>2. Count(L, x) >= 1
        <5> HIDE DEF l
        <5> QED
          BY <3>1, <3>3, TempsPart
      <4> HIDE DEF x, L, t, l
      <4>3. FrameCount(code, fr, x) >= 1
        <5>1. /\ FrameCount(code, fr, x) = (((Count(L, x) + Count(fr.fn, x)) + Count(fr.args, x)) + Count(fr.extra, x)) + Count(fr.out, x)
              /\ Count(L, x) \in Nat /\ Count(fr.fn, x) \in Nat /\ Count(fr.args, x) \in Nat
              /\ Count(fr.extra, x) \in Nat /\ Count(fr.out, x) \in Nat
          BY <2>3, <4>1, FrameParts DEF L, t, l
        <5> QED
          BY <4>2, <5>1
      <4>4. x \in Cells
        BY <1>5, <2>5, <4>1, <4>3
      <4> QED
        BY <4>4 DEF x, t
    <3>4. CASE x = 0
      BY <3>4
    <3> QED
      BY <3>3, <3>4
  <2> QED
    BY <2>2, <2>6 DEF fr
<1> QED
  BY <1>1, <1>7, <1>8, <1>9, <1>10 DEF InterpTypeOK

LEMMA SixRefs ==
  ASSUME NEW s, NEW t, NEW u, NEW v, NEW w, NEW x, IsRefs(s), IsRefs(t), IsRefs(u), IsRefs(v), IsRefs(w), IsRefs(x)
  PROVE  \A c \in Pos :
           /\ Count(s \o t \o u \o v \o w \o x, c)
                = ((((Count(s, c) + Count(t, c)) + Count(u, c)) + Count(v, c)) + Count(w, c)) + Count(x, c)
           /\ Count(s, c) \in Nat /\ Count(t, c) \in Nat /\ Count(u, c) \in Nat
           /\ Count(v, c) \in Nat /\ Count(w, c) \in Nat /\ Count(x, c) \in Nat
<1> DEFINE a == (s \o t) \o u
           b == (a \o v) \o w
<1>1. IsRefs(a) /\ \A c \in Pos : Count(a, c) = (Count(s, c) + Count(t, c)) + Count(u, c)
  BY ThreeRefs
<1> HIDE DEF a
<1>2. IsRefs(b) /\ \A c \in Pos : Count(b, c) = (Count(a, c) + Count(v, c)) + Count(w, c)
  BY <1>1, ThreeRefs
<1> HIDE DEF b
<1>3. \A c \in Pos : Count(b \o x, c) = Count(b, c) + Count(x, c)
  BY <1>2, CountSum
<1>4. \A c \in Pos : /\ Count(s, c) \in Nat /\ Count(t, c) \in Nat /\ Count(u, c) \in Nat
                     /\ Count(v, c) \in Nat /\ Count(w, c) \in Nat /\ Count(x, c) \in Nat
  BY CountNat
<1>5. b \o x = s \o t \o u \o v \o w \o x
  BY DEF a, b
<1> QED
  BY <1>1, <1>2, <1>3, <1>4, <1>5

LEMMA CountsHold ==
  ASSUME IInv
  PROVE  RefsCounted
<1> DEFINE O == Outside(code, stack, thunks, blocker, root)
           S == StackRefs(code, stack)
           C == CellRefs(heap.cells)
           t == RefSeq(thunks)
           d == root.deps
           o == root.out
           n == Len(heap.cells)
<1>1. AllRefs = S \o C \o t \o blocker \o d \o o
  BY DEF AllRefs, StackRefs, CellRefs, RefSeq, TempRefs, TempsOf, Temps
<1>2. IsStack(code, stack) /\ IsRoot(stack, root) /\ IsThunks(thunks) /\ IsRefs(blocker) /\ Balanced(heap, O)
  BY DEF IInv, Owns
<1>3. RootRefs(blocker, root) /\ HaveRefs(code, stack) /\ IsRefs(d) /\ IsRefs(o)
  BY <1>2, StackHasRefs DEF RootRefs, IsRoot
<1>4. IsRefs(S) /\ IsRefs(t)
  BY <1>2, <1>3, StackNat, RefSeqRefs DEF IsThunks
<1>5. IsHeap(heap) /\ IsCells(heap.cells) /\ Cells = 1..n /\ n \in Nat /\ DOMAIN heap.free = 1..Len(heap.free)
  BY <1>2, HeapLen, SeqFacts DEF Balanced, IsHeap, Cells
<1>6. IsRefs(C)
  BY <1>5, CellSum
<1>7. \A c \in Pos : Count(O, c) = (Count(S, c) + OthersCount(blocker, root, c)) + Count(t, c)
  BY <1>2, <1>3, OutsideRefs
<1>8. \A c \in Pos : OthersCount(blocker, root, c) = (Count(blocker, c) + Count(d, c)) + Count(o, c)
  BY DEF OthersCount
<1>9. \A c \in Pos : Owed(heap, c) = Count(C, c) + Count(O, c)
  BY <1>2 DEF Balanced, CellCount
<1>10. \A c \in Cells : Owed(heap, c) = IF c \in ToSet(heap.free) THEN 0 ELSE heap.cells[c].refcount + 1
  BY <1>5 DEF Owed, Freed, ToSet
<1> HIDE DEF O, S, C, t, d, o, n
<1>11. \A c \in Pos :
         /\ Count(AllRefs, c)
              = ((((Count(S, c) + Count(C, c)) + Count(t, c)) + Count(blocker, c)) + Count(d, c)) + Count(o, c)
         /\ Count(S, c) \in Nat /\ Count(C, c) \in Nat /\ Count(t, c) \in Nat
         /\ Count(blocker, c) \in Nat /\ Count(d, c) \in Nat /\ Count(o, c) \in Nat
  <2>1. \A c \in Pos :
         /\ Count(S \o C \o t \o blocker \o d \o o, c)
              = ((((Count(S, c) + Count(C, c)) + Count(t, c)) + Count(blocker, c)) + Count(d, c)) + Count(o, c)
         /\ Count(S, c) \in Nat /\ Count(C, c) \in Nat /\ Count(t, c) \in Nat
         /\ Count(blocker, c) \in Nat /\ Count(d, c) \in Nat /\ Count(o, c) \in Nat
    BY <1>2, <1>3, <1>4, <1>6, SixRefs
  <2> QED
    BY <1>1, <2>1
<1>12. \A c \in Pos : Count(AllRefs, c) = Owed(heap, c)
  BY <1>7, <1>8, <1>9, <1>11
<1>13. \A c \in Cells : c \in Pos
  BY <1>5 DEF Pos
<1>14. \A c \in Cells : Count(AllRefs, c) = IF c \in ToSet(heap.free) THEN 0 ELSE heap.cells[c].refcount + 1
  BY <1>10, <1>12, <1>13
<1> QED
  BY <1>14 DEF RefsCounted, Count, Places

\* The invariant holds of every execution of every program in Programs.
THEOREM InterpInvariant == Spec => []IInv
<1>1. Init => IInv
  BY InitInvariant
<1>2. IInv /\ [Next]_vars => IInv'
  BY NextInvariant
<1> QED
  BY <1>1, <1>2, PTL DEF Spec

(***************************************************************************)
(* Type correctness of a decoding thread: every frame but the one on top   *)
(* waits for a callee, the pipeline holds distinct cells, locals reference *)
(* cells that exist, and no cell is free twice.                            *)
(***************************************************************************)
THEOREM InterpTypes == Spec => []InterpTypeOK
<1>1. IInv => InterpTypeOK
  BY TypesHold
<1> QED
  BY <1>1, InterpInvariant, PTL

(***************************************************************************)
(* Reference counts are exact whatever is decoded, called, raised or       *)
(* stepped: a free cell (freelist.rs:60-80) is referenced by no frame,     *)
(* thunk, blocker or thread, so alloc never overwrites a thunk somebody    *)
(* holds; any other cell has one reference more than its count, so the     *)
(* last drop frees it and nothing leaks.  For every set of programs of the *)
(* form ProgramAssumption states, any number of frames and of thunks.      *)
(***************************************************************************)
THEOREM ReferencesAreCounted == Spec => []RefsCounted
<1>1. IInv => RefsCounted
  BY CountsHold
<1> QED
  BY <1>1, InterpInvariant, PTL
=============================================================================
