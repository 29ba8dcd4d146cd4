-------------------------------- MODULE LLVM --------------------------------
(***************************************************************************)
(* What the constants, the instructions and the native functions mean, as  *)
(* the LLVM and C references define them: an integer is a number, an       *)
(* aggregate is the tuple of its elements, and bytes matter only where a   *)
(* value is stored, loaded or cast.  Module Eval, the model of the code,   *)
(* is checked against it after every instruction; nothing here is taken     *)
(* from the code but the alignment of vectors (one byte).                  *)
(***************************************************************************)
EXTENDS IR, FiniteSets

CONSTANTS PtrBits, StructDefs,
  TlsAddrs    \* of the thread in question

\* A state is [ty, val, bytes, brk]: the type and value of the last result,
\* memory, and where unallocated memory starts.

Resolve(T) == IF T.k = "named" THEN StructDefs[T.name] ELSE T

\* The number that n is in w bits, signed and unsigned.
S(n, w) == IF w > 30 THEN n ELSE LET m == n % 2^w IN IF m >= 2^(w - 1) THEN m - 2^w ELSE m
U(n, w) == IF w > 30 THEN n ELSE n % 2^w

\* The first multiple of a from n on.
Aligned(n, a) == CHOOSE m \in n..(n + a - 1) : m % a = 0

-----------------------------------------------------------------------------
(* Where things are in memory.                                             *)

RECURSIVE Align(_), Size(_), Offset(_, _)

Align(V) ==
  LET T == Resolve(V)
  IN CASE T.k = "int" -> CHOOSE a \in {1, 2, 4, 8} : 8 * a >= T.bits /\ (a = 1 \/ 4 * a < T.bits)
       [] T.k = "ptr" -> PtrBits \div 8
       [] T.k = "vector" -> 1
       [] T.k = "array" -> Align(T.elem)
       [] T.k = "struct" ->
            IF T.packed THEN 1
            ELSE CHOOSE a \in {Align(T.fields[i]) : i \in DOMAIN T.fields} :
                   \A i \in DOMAIN T.fields : Align(T.fields[i]) <= a

\* A field is at the first place after the field before that has its alignment.
Offset(T, i) ==
  IF i = 1 THEN 0
  ELSE Aligned(Offset(T, i - 1) + Size(T.fields[i - 1]), IF T.packed THEN 1 ELSE Align(T.fields[i]))

RECURSIVE Width(_)
\* The bits of a value outside memory.
Width(V) ==
  LET T == Resolve(V)
  IN CASE T.k = "int" -> T.bits
       [] T.k = "ptr" -> PtrBits
       [] T.k = "vector" -> T.len * Width(T.elem)
       [] OTHER -> 8 * Size(T)

Size(V) ==
  LET T == Resolve(V)
  IN CASE T.k \in {"int", "ptr", "vector"} ->
            Aligned((Width(T) + 7) \div 8, Align(T))
       [] T.k = "array" -> T.len * Size(T.elem)
       [] T.k = "struct" ->
            LET last == Len(T.fields)
            IN Aligned(Offset(T, last) + Size(T.fields[last]), Align(T))

\* Elements and the bit each starts at.
Arity(T) == IF T.k = "struct" THEN Len(T.fields) ELSE T.len
ElemType(V, i) == LET T == Resolve(V) IN IF T.k = "struct" THEN T.fields[i] ELSE T.elem
Start(T, i) == CASE T.k = "struct" -> 8 * Offset(T, i)
                 [] T.k = "array" -> 8 * Size(T.elem) * (i - 1)
                 [] T.k = "vector" -> Width(T.elem) * (i - 1)

IsScalar(T) == T.k \in {"int", "ptr"}
BitOf(n, i) == IF i > 30 THEN IF n < 0 THEN 1 ELSE 0 ELSE (n \div 2^i) % 2

\* The bits of a value (from 0), and the value of some bits.
RECURSIVE Encode(_, _), Decode(_, _)
\* The elements' bits side by side, each from its start.
Placed(part, start, w) ==
  LET in(i, k) == i - start[k] \in DOMAIN part[k]
      bit(i, k) == part[k][i - start[k]]
  IN [i \in 0..(w - 1) |->
       IF \E k \in DOMAIN part : in(i, k) THEN bit(i, CHOOSE k \in DOMAIN part : in(i, k)) ELSE 0]

Encode(V, v) ==
  LET T == Resolve(V)
  IN IF IsScalar(T) THEN [i \in 0..(Width(T) - 1) |-> BitOf(v, i)]
     ELSE Placed([k \in 1..Arity(T) |-> Encode(ElemType(T, k), v[k])],
                 [k \in 1..Arity(T) |-> Start(T, k)], Width(T))

\* The sum of the bits' weights, the highest one's being negative in an integer.
Weighed(bit, w, signed) ==
  LET sum[i \in 0..w] ==
        IF i = 0 THEN 0
        ELSE IF bit[i - 1] = 0 THEN sum[i - 1]
        ELSE IF signed /\ i = w THEN sum[i - 1] - (IF w > 31 THEN 2^30 + 2^30 ELSE 2^(i - 1))
        ELSE sum[i - 1] + 2^(i - 1)
  IN sum[w]

Decode(V, bit) ==
  LET T == Resolve(V)
  IN IF IsScalar(T) THEN Weighed(bit, Width(T), T.k = "int")
     ELSE [k \in 1..Arity(T) |->
            Decode(ElemType(T, k),
              [i \in 0..(Width(ElemType(T, k)) - 1) |-> bit[i + Start(T, k)]])]

InBytes(bit, w) ==
  LET at(i) == IF i \in DOMAIN bit THEN bit[i] ELSE 0
  IN [k \in 0..((w + 7) \div 8 - 1) |-> Weighed([i \in 0..7 |-> at(8 * k + i)], 8, FALSE)]
Stored(T, v) == InBytes(Encode(T, v), Width(T))

Loaded(bytes, T, addr) ==
  Decode(T, [i \in 0..(8 * ((Width(T) + 7) \div 8) - 1) |-> BitOf(bytes[addr + i \div 8], i % 8)])

\* The bits of a stored value that are its own; what a store leaves in the
\* others is not specified.
RECURSIVE Covered(_)
Covered(V) ==
  LET T == Resolve(V)
  IN IF IsScalar(T) THEN 0..(Width(T) - 1)
     ELSE UNION {{b + Start(T, k) : b \in Covered(ElemType(T, k))} : k \in 1..Arity(T)}

\* Memory with the bytes bs (from 0) at addr.
Written(bytes, addr, bs) ==
  [a \in DOMAIN bytes |-> IF a - addr \in DOMAIN bs THEN bs[a - addr] ELSE bytes[a]]

-----------------------------------------------------------------------------
(* Operations.                                                             *)

Ones(n, w) == {i \in 0..(w - 1) : BitOf(n, i) = 1}
OfOnes(s, w) == Weighed([i \in 0..(w - 1) |-> IF i \in s THEN 1 ELSE 0], w, TRUE)
True1 == -1
Truth(b) == IF b THEN True1 ELSE 0

\* The quotient rounded towards zero: the remainder is 0 or has x's sign.
Abs1(n) == IF n < 0 THEN -n ELSE n
Towards0(x, y) ==
  CHOOSE q \in -Abs1(x)..Abs1(x) :
    LET r == x - q * y IN Abs1(r) < Abs1(y) /\ (r = 0 \/ (r < 0) = (x < 0))

Scalar(op, w, x, y) ==
  LET ux == U(x, w) uy == U(y, w)
  IN CASE op = "add" -> S(x + y, w)
       [] op = "sub" -> S(x - y, w)
       [] op = "mul" -> S(ux * uy, w)
       [] op = "udiv" -> S(ux \div uy, w)
       [] op = "urem" -> S(ux % uy, w)
       [] op = "sdiv" -> S(Towards0(x, y), w)
       [] op = "srem" -> S(x - y * Towards0(x, y), w)
       [] op = "and" -> OfOnes(Ones(x, w) \cap Ones(y, w), w)
       [] op = "or" -> OfOnes(Ones(x, w) \cup Ones(y, w), w)
       [] op = "xor" -> OfOnes((Ones(x, w) \cup Ones(y, w)) \ (Ones(x, w) \cap Ones(y, w)), w)
       [] op = "shl" -> OfOnes({i + uy : i \in Ones(x, w)} \cap 0..(w - 1), w)
       [] op = "lshr" -> OfOnes({i - uy : i \in Ones(x, w)} \cap 0..(w - 1), w)
       [] op = "ashr" -> OfOnes({i \in 0..(w - 1) : BitOf(x, i + uy) = 1}, w)

Holds(pred, x, y, w) ==
  LET ux == U(x, w) uy == U(y, w) sx == S(x, w) sy == S(y, w)
  IN CASE pred = "eq" -> x = y
       [] pred = "ne" -> x # y
       [] pred = "ugt" -> ux > uy
       [] pred = "uge" -> ux >= uy
       [] pred = "ult" -> ux < uy
       [] pred = "ule" -> ux <= uy
       [] pred = "sgt" -> sx > sy
       [] pred = "sge" -> sx >= sy
       [] pred = "slt" -> sx < sy
       [] pred = "sle" -> sx <= sy

\* An integer or a pointer from one, by name.to.
Converted(name, w, x) ==
  LET to == Width(name.to)
  IN IF name.to.k = "ptr" THEN U(U(x, w), to)
     ELSE IF name.op = "sext" THEN x ELSE S(U(x, w), to)

Lanewise(T, f(_)) == IF IsScalar(T) THEN f(0) ELSE [i \in 1..T.len |-> f(i)]
Lane(v, i) == IF i = 0 THEN v ELSE v[i]

RECURSIVE Inner(_, _), Replaced(_, _, _)
Inner(v, path) == IF path = <<>> THEN v ELSE Inner(v[Head(path) + 1], Tail(path))
Replaced(v, path, x) ==
  IF path = <<>> THEN x
  ELSE [v EXCEPT ![Head(path) + 1] = Replaced(v[Head(path) + 1], Tail(path), x)]

RECURSIVE InnerType(_, _), Distance(_, _)
InnerType(V, path) ==
  IF path = <<>> THEN V ELSE InnerType(ElemType(V, IF Resolve(V).k = "struct" THEN Head(path) + 1 ELSE 1), Tail(path))
\* How far an element is from the start of its aggregate, in bytes.
Distance(V, path) ==
  IF path = <<>> THEN 0
  ELSE LET T == Resolve(V)
       IN (IF T.k = "struct" THEN Offset(T, Head(path) + 1) ELSE Head(path) * Size(T.elem))
          + Distance(InnerType(T, <<Head(path)>>), Tail(path))

Res(T, v) == [ty |-> T, val |-> v]

\* x is the operands: a tuple of [ty, val].
Meaning(name, x) ==
  LET op == name.op
      T == x[1].ty
      lanes == Resolve(T).k = "vector"
      E == IF lanes THEN T.elem ELSE T
      same(U2) == IF lanes THEN Vector(U2, T.len) ELSE U2
      path == [k \in 1..(Len(x) - 1) |-> x[k + 1].val]
  IN CASE op = "xchg" -> Res(T, x[2].val)
       [] op \in Arithmetic \cup Bitwise2 \cup Shifts ->
            Res(T, Lanewise(T, LAMBDA i : Scalar(op, Width(E), Lane(x[1].val, i), Lane(x[2].val, i))))
       [] op = "icmp" ->
            Res(same(I(1)), Lanewise(T, LAMBDA i :
              Truth(Holds(name.pred, Lane(x[1].val, i), Lane(x[2].val, i), Width(E)))))
       [] op \in Casts -> Res(name.to, Converted(name, Width(T), x[1].val))
       [] op = "bitcast" -> Res(name.to, Decode(name.to, Encode(T, x[1].val)))
       [] op = "extractelement" -> Res(T.elem, x[1].val[x[2].val + 1])
       [] op = "insertelement" -> Res(T, [x[1].val EXCEPT ![x[3].val + 1] = x[2].val])
       [] op = "extractvalue" -> Res(InnerType(T, name.indices), Inner(x[1].val, name.indices))
       [] op = "insertvalue" -> Res(T, Replaced(x[1].val, name.indices, x[2].val))
       [] op = "select" /\ lanes ->
            Res(x[2].ty, [k \in 1..T.len |-> x[IF x[1].val[k] = 0 THEN 3 ELSE 2].val[k]])
       [] op = "select" -> x[IF x[1].val = 0 THEN 3 ELSE 2]
       [] op = "aggregate" -> Res(name.to, [k \in DOMAIN x |-> x[k].val])
       [] op = "gep" ->
            LET in == InnerType(T.to, Tail(path))
            IN Res(Ptr(in), U(x[1].val + path[1] * Size(T.to) + Distance(T.to, Tail(path)), PtrBits))
       [] op = "shuffle" ->
            LET both == x[1].val \o x[2].val
                mask == x[3].val
            IN Res(Vector(T.elem, Len(mask)), [k \in DOMAIN mask |-> both[mask[k] + 1]])

RECURSIVE ZeroOf(_), Known(_)
ZeroOf(V) == LET T == Resolve(V)
             IN IF IsScalar(T) THEN 0 ELSE [k \in 1..Arity(T) |-> ZeroOf(ElemType(T, k))]

\* x is what the operands of the constant are.
Denoted(c, x) ==
  LET types == [i \in DOMAIN x |-> x[i].ty]
      vals == [i \in DOMAIN x |-> x[i].val]
  IN CASE c.c = "int" -> Res(I(c.bits), S(c.v, c.bits))
       [] c.c = "zero" -> Res(c.ty, ZeroOf(c.ty))
       [] c.c = "global" -> Res(Ptr(c.ty), c.addr)
       [] c.c = "tls" -> Res(Ptr(c.ty), TlsAddrs[c.key])
       [] c.c = "struct" -> Res(Struct(types, c.packed), vals)
       [] c.c = "array" -> Res(Array(c.ty, Len(x)), vals)
       [] c.c = "vector" -> Res(Vector(types[1], Len(x)), vals)
       [] c.c \in {"gep", "apply"} -> Meaning(IF c.c = "gep" THEN Oper("gep") ELSE c.name, x)

Known(c) == Denoted(c, [i \in DOMAIN c.args |-> Known(c.args[i])])

-----------------------------------------------------------------------------
(* Functions.                                                              *)

FitsIn(r, f, w) == IF f \in {"uover", "usat"} THEN r = U(r, w) ELSE r = S(r, w)
Nearest(r, f, w) ==
  LET bounds == IF f = "usat" THEN {0, 2^w - 1} ELSE {-(2^(w - 1)), 2^(w - 1) - 1}
  IN IF FitsIn(r, f, w) THEN r
     ELSE CHOOSE n \in bounds : \A m \in bounds : Abs1(r - n) <= Abs1(r - m)

\* The first place in a range where P holds, or the default.
First(P(_), range, default) ==
  IF \E i \in range : P(i) THEN CHOOSE i \in range : P(i) /\ \A j \in range : P(j) => i <= j
  ELSE default

Region(a, n) == a..(a + n - 1)

\* The result of a function.
Answer(st, name, T, x) ==
  LET f == name.f
      bytes == st.bytes
      w == name.w
      n(k) == x[k].val
      num(k) == IF f \in {"uover", "usat"} THEN U(n(k), w) ELSE n(k)
      exact == CASE name.op = "add" -> num(1) + num(2)
                 [] name.op = "sub" -> num(1) - num(2)
                 [] name.op = "mul" -> num(1) * num(2)
      ones == Ones(n(1), w)
  IN CASE f \in {"uover", "sover"} -> Res(T, <<S(exact, w), Truth(~FitsIn(exact, f, w))>>)
       [] f \in {"usat", "ssat"} -> Res(T, S(Nearest(exact, f, w), w))
       [] f = "cttz" -> Res(T, First(LAMBDA i : i \in ones, 0..(w - 1), w))
       [] f = "ctlz" -> Res(T, First(LAMBDA i : w - 1 - i \in ones, 0..(w - 1), w))
       [] f = "ctpop" -> Res(T, Cardinality(ones))
       [] f = "expect" -> x[1]
       [] f = "memchr" -> Res(T, First(LAMBDA a : bytes[a] = n(2), Region(n(1), n(3)), 0))
       [] f = "strlen" -> Res(T, First(LAMBDA a : bytes[a] = 0, {a \in DOMAIN bytes : a >= n(1)}, 0) - n(1))
       [] f = "memcmp" ->
            LET d == First(LAMBDA i : bytes[n(1) + i] # bytes[n(2) + i], 0..(n(3) - 1), -1)
            IN Res(T, IF d = -1 THEN 0 ELSE IF bytes[n(1) + d] < bytes[n(2) + d] THEN -1 ELSE 1)
       [] f = "getcwd" -> Res(T, IF n(1) = 0 THEN st.brk ELSE n(1))
       [] f = "getentropy" -> Res(T, 0)
       [] f = "realloc" -> Res(T, st.brk)

\* The memory it leaves.
Effect(st, name, x) ==
  LET f == name.f
      n(k) == x[k].val
      filled(addr, len, b) == Written(st.bytes, addr, [i \in 0..(len - 1) |-> b])
  IN CASE f = "memset" -> filled(n(1), n(3), U(n(2), 8))
       [] f = "memcpy" -> Written(st.bytes, n(1), [i \in 0..(n(3) - 1) |-> st.bytes[n(2) + i]])
       [] f = "getentropy" -> filled(n(1), n(2), 4)
       [] f = "getcwd" -> IF n(1) = 0 THEN filled(st.brk, 1, 0)
                          ELSE IF n(2) = 0 THEN st.bytes ELSE filled(n(1), 1, 0)
       [] f = "realloc" ->
            Written(st.bytes, st.brk,
              [i \in {j \in 0..(n(2) - 1) : j < n(4)} |-> st.bytes[n(1) + i]])
       [] OTHER -> st.bytes

-----------------------------------------------------------------------------

Operands(i, st) ==
  [k \in DOMAIN i.args |-> IF i.args[k] = Acc THEN Res(st.ty, st.val) ELSE Known(i.args[k])]

\* Where the machine may stop: an undefined result, an operation on booleans,
\* floats or widths that is not written, a choice lane by lane, an index that is a
\* boolean or has to be evaluated.
MayStop(i, x) ==
  LET op == i.name.op
      E == IF x[1].ty.k = "vector" THEN x[1].ty.elem ELSE x[1].ty
      first == IF op = "insertelement" THEN 3 ELSE 2
      later(k) == op = "gep" /\ i.args[k] # Acc /\ i.args[k].c = "apply"
  IN IF i.i = "call" THEN i.name.f = "assume" /\ x[1].val = 0
     ELSE \/ op \in {"udiv", "urem", "sdiv", "srem"} /\ \E k \in 0..8 :
               IF x[2].ty.k = "vector" THEN k \in DOMAIN x[2].val /\ x[2].val[k] = 0
               ELSE x[2].val = 0
          \/ op \in Arithmetic \cup Shifts \cup {"icmp"} /\ E = I(1)
          \/ op = "sext" /\ E = I(1)
          \/ op = "select" /\ x[1].ty.k = "vector"
          \/ op \in {"gep", "extractelement", "insertelement"}
             /\ \E k \in first..Len(x) : x[k].ty = I(1) \/ later(k)
          \/ op \in FloatOps \cup FloatCasts

HasAnswer(i) == i.i # "call" \/ i.name.f \notin {"memset", "memcpy", "assume"}

Result(i, st, x) ==
  CASE i.i \in {"compute", "gep", "shuffle"} -> Meaning(i.name, x)
    [] i.i = "load" -> Res(i.ty, Loaded(st.bytes, i.ty, x[1].val))
    [] i.i = "call" /\ HasAnswer(i) -> Answer(st, i.name, i.ty, x)
    [] OTHER -> Res(st.ty, st.val)

\* The state that instruction i leaves when st is the state before it, x the
\* operands and result the result.
Executed(i, st, x, result) ==
  [ty |-> result.ty, val |-> result.val,
   bytes |-> CASE i.i = "store" -> Written(st.bytes, x[1].val, Stored(x[2].ty, x[2].val))
               [] i.i = "call" -> Effect(st, i.name, x)
               [] OTHER -> st.bytes,
   brk |-> st.brk + (IF i.i # "call" THEN 0
                     ELSE IF i.name.f = "getcwd" /\ x[1].val = 0 THEN 1
                     ELSE IF i.name.f = "realloc" THEN x[4].val ELSE 0)]

\* Whether st2 may be the state that instruction i leaves, when want is what its
\* definition asks for.
Correct(i, x, want, st2) ==
  LET free(a, b) == i.i = "store" /\ a - x[1].val \in 0..((Width(x[2].ty) + 7) \div 8 - 1)
                    /\ 8 * (a - x[1].val) + b \notin Covered(x[2].ty)
  IN /\ [st2 EXCEPT !.bytes = want.bytes] = want
     /\ \A a \in DOMAIN want.bytes :
          \/ st2.bytes[a] = want.bytes[a]
          \/ \A b \in 0..7 : free(a, b) \/ BitOf(st2.bytes[a], b) = BitOf(want.bytes[a], b)

AllowsWith(i, st, st2, stopped, x) ==
  IF stopped THEN MayStop(i, x)
  ELSE Correct(i, x, Executed(i, st, x, Result(i, st, x)), st2)

\* Whether st2 may follow st by instruction i, or the machine may stop there.
Allows(i, st, st2, stopped) == AllowsWith(i, st, st2, stopped, Operands(i, st))
=============================================================================
