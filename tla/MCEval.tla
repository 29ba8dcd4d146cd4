------------------------------- MODULE MCEval -------------------------------
(***************************************************************************)
(* A small instance of Eval: 16-bit pointers, integers of 1, 8 and 16 bits *)
(* (32 and 64 only as results), and values at the edges of their ranges.   *)
(* Left out are the operations that do not compute what LLVM defines (see  *)
(* README): a shuffle that takes lanes of its second operand, casts of     *)
(* vectors, and arrays whose elements have padding.                        *)
(***************************************************************************)
EXTENDS Eval

i1(n) == CInt(1, n)
i8(n) == CInt(8, n)
i16(n) == CInt(16, n)
i32(n) == CInt(32, n)

Pair == Struct(<<I(16), I(8)>>, FALSE)
Mixed == Struct(<<I(8), I(16), I(1)>>, FALSE)
Packed == Struct(<<I(8), I(16)>>, TRUE)
Nested == Struct(<<I(8), Pair>>, FALSE)
Over8 == Struct(<<I(8), I(1)>>, FALSE)
Node == Named("node")
V2 == Vector(I(8), 2)
V3 == Vector(I(1), 3)
A3 == Array(I(16), 3)
P8 == Ptr(I(8))
ZNode == CGlobal(Node, 1000)

MCStructDefs == [node |-> Struct(<<I(8), Ptr(Node)>>, FALSE)]
\* Where the two threads have their copy of a thread-local.
MCTlsAddrs == <<[k |-> 500], [k |-> 600]>>
MCInitMem == <<200, 7, 7, 0, 200, 7, 8, 0, 4, 0, 1, 2, 3, 9, 5, 1>>

MCConstants ==
  {i1(1), i8(127), i8(200), i16(300), i16(65535),
   CVector(<<i8(1), i8(255)>>), CVector(<<i1(1), i1(0), i1(1)>>),
   CStruct(<<i8(5), i16(513), i1(1)>>, FALSE), CStruct(<<i8(5), i16(40000)>>, TRUE),
   CStruct(<<i8(7), CStruct(<<i16(258), i8(9)>>, FALSE)>>, FALSE),
   CArray(I(16), <<i16(1), i16(2), i16(65535)>>), CZero(Nested),
   CGlobal(Node, 4), CThreadLocal(I(8), "k"),
   CGep(<<ZNode, i16(-2), i16(1)>>), CGep(<<CThreadLocal(Nested, "k"), i16(0), i16(1), i16(1)>>),
   CApply(Oper("sub"), <<CApply(Cast("zext", I(16)), <<CThreadLocal(I(8), "k")>>),
                         CApply(Cast("zext", I(16)), <<ZNode>>)>>),
   CApply(Oper("select"), <<CApply(ICmp("slt"), <<i8(200), i8(3)>>), i8(1), i8(128)>>)}

Preds == {"eq", "ne", "ugt", "uge", "ult", "ule", "sgt", "sge", "slt", "sle"}
Const1(T, op, c) == Compute(T, Oper(op), <<Acc, c>>)
Elem(T, op, indices, args) == Compute(T, Indexed(op, indices), <<Acc>> \o args)

OnByte ==
  {Const1(I(8), op, c) : op \in Arithmetic \cup Bitwise2, c \in {i8(3), i8(255)}}
  \cup {Const1(I(8), op, i8(0)) : op \in {"udiv", "srem"}}
  \cup {Const1(I(8), op, i8(n)) : op \in Shifts, n \in {1, 7}}
  \cup {Compute(I(8), ICmp(p), <<Acc, i8(200)>>) : p \in Preds}
  \cup {Compute(I(8), Cast("zext", I(w)), <<Acc>>) : w \in {8, 16, 64}}
  \cup {Compute(I(8), Cast("sext", I(w)), <<Acc>>) : w \in {8, 16, 64}}
  \cup {Compute(I(8), Cast("trunc", I(1)), <<Acc>>),
        Compute(I(8), Indexed("insertvalue", <<1, 1>>), <<CZero(Nested), Acc>>),
        Compute(I(8), Oper("insertelement"), <<CVector(<<i8(1), i8(2)>>), Acc, i8(1)>>),
        Compute(I(8), Oper("fadd"), <<Acc, Acc>>),
        Compute(I(8), Oper("xchg"), <<Acc, i8(9)>>),
        Gep(I(8), <<CGlobal(Pair, 1000), Acc, i8(1)>>),
        Store(I(8), CGlobal(I(8), 3), Acc)}
  \cup {Call(I(8), Native(f, op, 8), <<Acc, i8(n)>>, Over8) :
          f \in {"uover", "sover"}, op \in {"add", "sub", "mul"}, n \in {2, 128}}
  \cup {Call(I(8), Native(f, "sub", 8), <<Acc, i8(n)>>, I(8)) : f \in {"usat", "ssat"}, n \in {100, 255}}
  \cup {Call(I(8), Native(f, "none", 8), <<Acc, i1(0)>>, I(8)) : f \in {"cttz", "ctlz"}}
  \cup {Call(I(8), Native("memset", "none", 0), <<CGlobal(I(8), 2), Acc, i16(n), i1(0)>>, Void) : n \in {0, 3}}

Types == {I(1), I(8), V2, V3, Mixed, Packed, Nested, A3, Node, P8}
\* Where each is loaded from; the bytes of booleans are written by nothing else.
Home(T) == IF T = I(1) THEN 15 ELSE IF T = V3 THEN 14 ELSE 4

OnShort ==
  {Const1(I(16), op, i16(2)) : op \in {"add", "sub", "mul", "udiv", "srem", "shl", "lshr", "xor"}}
  \cup {Compute(I(16), ICmp(p), <<Acc, i16(300)>>) : p \in {"slt", "uge"}}
  \cup {Compute(I(16), Cast("trunc", I(8)), <<Acc>>), Compute(I(16), Cast("zext", P8), <<Acc>>),
        Compute(I(16), Cast("bitcast", V2), <<Acc>>), Store(I(16), CGlobal(I(16), 6), Acc),
        Compute(I(16), Indexed("insertvalue", <<1>>), <<CZero(A3), Acc>>),
        Call(I(16), Native("ssat", "sub", 16), <<Acc, i16(-32768)>>, I(16)),
        Call(I(16), Native("strlen", "none", 0), <<CGlobal(I(8), 0)>>, I(16)),
        Call(I(16), Native("getentropy", "none", 0), <<CGlobal(I(8), 1), i16(2)>>, I(32)),
        Call(I(16), Native("memcpy", "none", 0), <<CGlobal(I(8), 1), CGlobal(I(8), 0), i16(5), i1(0)>>, Void)}
  \cup {Call(I(16), Native("memchr", "none", 0), <<CGlobal(I(8), 1), i32(200), i16(n)>>, P8) : n \in {0, 3, 4}}
  \cup {Call(I(16), Native("memcmp", "none", 0), <<CGlobal(I(8), 0), CGlobal(I(8), 4), i16(n)>>, I(32)) : n \in {2, 3}}
  \cup {Call(I(16), Native("getcwd", "none", 0), <<CGlobal(I(8), b), i16(n)>>, P8) : b \in {0, 4}, n \in {0, 1}}
  \cup {Call(I(16), Native("realloc", "none", 0), <<CGlobal(I(8), 4), i16(n), i16(1), i16(5 - n)>>, P8) : n \in {2, 3}}
  \cup {Gep(I(16), <<CGlobal(I(8), 9), CApply(Cast("zext", I(16)), <<CThreadLocal(I(8), "k")>>)>>)}
  \cup {Load(I(16), T, CGlobal(T, Home(T))) : T \in Types}

OnBool ==
  {Const1(I(1), op, i1(1)) : op \in Bitwise2 \cup {"add"}}
  \cup {Compute(I(1), Cast("zext", I(8)), <<Acc>>), Compute(I(1), Cast("sext", I(8)), <<Acc>>),
        Compute(I(1), ICmp("eq"), <<Acc, i1(0)>>),
        Compute(I(1), Oper("select"), <<Acc, i8(4), i8(250)>>),
        Compute(I(1), Oper("extractelement"), <<CVector(<<i8(1), i8(2)>>), Acc>>),
        Compute(I(1), Oper("insertelement"), <<CVector(<<i1(1), i1(0), i1(1)>>), Acc, i8(1)>>),
        Call(I(1), Native("expect", "none", 0), <<Acc, i1(1)>>, I(1)),
        Call(I(1), Native("assume", "none", 0), <<Acc>>, Void),
        Store(I(1), CGlobal(I(1), 15), Acc)}

OnVector ==
  {Const1(V2, op, CVector(<<i8(255), i8(2)>>)) : op \in {"add", "sdiv", "and"}}
  \cup {Const1(V2, "udiv", CVector(<<i8(3), i8(0)>>)),
        Compute(V2, ICmp("ult"), <<Acc, CVector(<<i8(2), i8(2)>>)>>),
        Compute(V2, Cast("bitcast", I(16)), <<Acc>>),
        Shuffle(V2, <<Acc, CZero(V2)>>, CVector(<<i32(1), i32(0), i32(1)>>)),
        Store(V2, CGlobal(V2, 5), Acc)}
  \cup {Const1(V2, "extractelement", i8(n)) : n \in 0..1}
  \cup {Const1(V3, "xor", CVector(<<i1(1), i1(1), i1(0)>>)), Const1(V3, "extractelement", i8(2)),
        Compute(V3, Oper("select"), <<Acc, CZero(V3), CZero(V3)>>),
        Shuffle(V3, <<Acc, CZero(V3)>>, CVector(<<i32(2), i32(0), i32(0)>>)),
        Store(V3, CGlobal(V3, 14), Acc)}

OnAggregate ==
  {Elem(Mixed, "extractvalue", <<n>>, <<>>) : n \in 0..2}
  \cup {Elem(Mixed, "insertvalue", <<1>>, <<i16(770)>>), Elem(Mixed, "insertvalue", <<2>>, <<i1(0)>>),
        Elem(Packed, "extractvalue", <<1>>, <<>>), Elem(Packed, "insertvalue", <<1>>, <<i16(770)>>),
        Elem(Nested, "extractvalue", <<1, 0>>, <<>>), Elem(Nested, "extractvalue", <<1>>, <<>>),
        Elem(Nested, "insertvalue", <<1, 1>>, <<i8(77)>>),
        Elem(A3, "extractvalue", <<2>>, <<>>), Elem(A3, "insertvalue", <<1>>, <<i16(770)>>),
        Elem(Over8, "extractvalue", <<1>>, <<>>), Elem(Node, "extractvalue", <<1>>, <<>>)}
  \cup {Store(T, CGlobal(T, 4), Acc) : T \in {Mixed, Packed, Nested, A3}}

OnOther ==
  {Gep(Ptr(Node), <<Acc, i16(n), i16(1)>>) : n \in {1, -1}}
  \cup {Compute(Ptr(Node), Cast("zext", I(16)), <<Acc>>),
        Compute(Ptr(Node), ICmp("ugt"), <<Acc, CZero(Ptr(Node))>>),
        Load(Ptr(Node), Node, Acc), Store(Ptr(Node), CGlobal(Node, 6), Acc),
        Load(Ptr(Ptr(Node)), Ptr(Node), Acc), Load(P8, I(8), Acc), Gep(P8, <<Acc, i16(3)>>), Gep(P8, <<Acc, i1(1)>>),
        Compute(I(32), ICmp("slt"), <<Acc, i32(0)>>), Compute(I(32), Cast("sext", I(64)), <<Acc>>),
        Call(I(64), Native("ctpop", "none", 64), <<Acc>>, I(64))}

MCInstrs == OnByte \cup OnShort \cup OnBool \cup OnVector \cup OnAggregate \cup OnOther
=============================================================================
