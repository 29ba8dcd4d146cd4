----------------------------- MODULE Operation -----------------------------
(***************************************************************************)
(* compile/operation.rs: the class of an operation's result, and its       *)
(* value.  An operation is applied to scalars, or to each lane of a        *)
(* vector; an operation that is not written (todo!()) panics.              *)
(***************************************************************************)
EXTENDS Value

BinOps == Arithmetic \cup Bitwise2 \cup Shifts \cup FloatOps \cup {"xchg"}
SimpleOps == BinOps \cup Casts \cup FloatCasts \cup {"icmp", "fcmp"}

\* The class f for each lane of c, or for c itself.
map_vector(c, f) == IF kind(c) = "vector" THEN Vector(f, Defined(c).len) ELSE f

compile_operation(name, operands) ==
  LET output ==
        CASE name.op \in BinOps ->
               IF \A i \in DOMAIN operands : operands[i] = operands[1] THEN operands[1]
               ELSE NoClass
          [] name.op \in Casts \cup FloatCasts -> map_vector(operands[1], name.to)
          [] name.op \in {"icmp", "fcmp"} -> map_vector(operands[1], I(1))
          [] name.op \in {"bitcast", "aggregate"} -> name.to
          [] name.op = "extractelement" -> element(operands[1], -1).class
          [] name.op = "extractvalue" -> element_rec(operands[1], name.indices).class
          [] name.op \in {"insertelement", "insertvalue"} -> operands[1]
          [] name.op = "shuffle" ->
               IF kind(operands[1]) # "vector" THEN NoClass
               ELSE Vector(Defined(operands[1]).elem, Len(name.indices))
          [] name.op = "select" -> IF operands[2] = operands[3] THEN operands[2] ELSE NoClass
  IN [name |-> name, input |-> operands, output |-> output]

\* A GetElementPtr, compiled from its operands' classes and the indices that
\* are known then (-1 for the others: only a struct looks at its index).
compile_gep(operands, indices) ==
  [name |-> Oper("gep"), input |-> operands,
   output |-> Ptr(element_rec(operands[1], indices).class)]

-----------------------------------------------------------------------------

\* wrapping_div and wrapping_rem round towards zero.
Quot(x, y) == LET q == (IF x < 0 THEN -x ELSE x) \div (IF y < 0 THEN -y ELSE y)
              IN IF (x < 0) = (y < 0) THEN q ELSE -q

\* An operation on the unsigned view, x and y, of two values of w bits.
call_scalar_binop_unsigned(op, x, y, w) ==
  CASE op = "add" -> new(w, x + y)
    [] op = "sub" -> new(w, x - y)
    [] op = "mul" -> new(w, x * y)
    [] op = "udiv" -> IF y = 0 THEN Panicked ELSE new(w, x \div y)
    [] op = "urem" -> IF y = 0 THEN Panicked ELSE new(w, x % y)
    [] op = "shl" -> IF y >= w THEN Panicked ELSE new(w, x * 2^y)

\* And on the signed view.
call_scalar_binop_signed(op, x, y, w) ==
  CASE op = "sdiv" -> IF y = 0 THEN Panicked ELSE new(w, Quot(x, y))
    [] op = "srem" -> IF y = 0 THEN Panicked ELSE new(w, x - y * Quot(x, y))
    [] op = "ashr" -> IF y < 0 \/ y >= w THEN Panicked ELSE new(w, x \div 2^y)

SignedOps == {"sdiv", "srem", "ashr"}

Bit(op, a, b) == CASE op = "xor" -> a # b [] op = "and" -> a /\ b [] op = "or" -> a \/ b

\* And, or and xor are written for bool too.
Logical(op, v1, v2) ==
  IF v1.bits = 1 THEN from_bool(Bit(op, unwrap_bool(v1), unwrap_bool(v2)))
  ELSE from_bits([i \in 1..v1.bits |-> IF Bit(op, v1.imp[i] = 1, v2.imp[i] = 1) THEN 1 ELSE 0])

call_scalar_lshr(v1, v2) ==
  LET shift == as_u128(v2)
  IN IF shift > v1.bits THEN Panicked
     ELSE from_bits([i \in 1..v1.bits |->
            IF i + shift <= v1.bits THEN v1.imp[i + shift] ELSE 0])

\* The widths it is written for.
SextWidths == {<<8, 16>>, <<8, 32>>, <<8, 64>>, <<16, 32>>, <<16, 64>>, <<32, 64>>}

call_scalar_sext(v1, bits) ==
  CASE v1.bits = bits -> v1
    [] <<v1.bits, bits>> \in SextWidths -> new(bits, signed(v1))
    [] OTHER -> Panicked

\* x and y are the unsigned view, sx and sy the signed one.
IntPredicate(pred, x, y, sx, sy) ==
  CASE pred = "eq" -> x = y
    [] pred = "ne" -> x # y
    [] pred = "ugt" -> x > y
    [] pred = "uge" -> x >= y
    [] pred = "ult" -> x < y
    [] pred = "ule" -> x <= y
    [] pred = "sgt" -> sx > sy
    [] pred = "sge" -> sx >= sy
    [] pred = "slt" -> sx < sy
    [] pred = "sle" -> sx <= sy

\* The widths an operation is written for; all but xchg and lshr ask for equal ones.
BinopWidths(op) == RustWidths \cup (IF op \in Bitwise2 THEN {1} ELSE {})

call_scalar_binop(name, v1, v2) ==
  LET op == name.op
      w == v1.bits
  IN CASE op = "xchg" -> v2
       [] op = "lshr" -> call_scalar_lshr(v1, v2)
       [] op \in FloatOps \/ w # v2.bits \/ w \notin BinopWidths(op) -> Panicked
       [] op \in Bitwise2 -> Logical(op, v1, v2)
       [] op \in SignedOps -> call_scalar_binop_signed(op, signed(v1), signed(v2), w)
       [] op = "icmp" ->
            from_bool(IntPredicate(name.pred, as_u128(v1), as_u128(v2), signed(v1), signed(v2)))
       [] OTHER -> call_scalar_binop_unsigned(op, as_u128(v1), as_u128(v2), w)

call_scalar(name, inputs) ==
  CASE name.op \in BinOps \cup {"icmp"} ->
         IF Len(inputs) < 2 THEN Panicked ELSE call_scalar_binop(name, inputs[1], inputs[2])
    [] name.op = "sext" -> call_scalar_sext(inputs[1], layout(name.to).bits)
    [] name.op \in {"zext", "trunc"} -> ucast(inputs[1], layout(name.to))
    [] OTHER -> Panicked

Lanes(oper, inputs) ==
  LET lane(i) == call_scalar(oper.name, [j \in DOMAIN inputs |-> extract(inputs[j], oper.input[j], i)])
      f[i \in 0..Defined(oper.output).len] ==
        IF i = 0 THEN zero(layout(oper.output).bits)
        ELSE insert(f[i - 1], oper.output, i - 1, lane(i - 1))
  IN f[Defined(oper.output).len]

\* The loop of Shuffle: a lane beyond the first vector is taken from it too.
Shuffled(oper, inputs) ==
  LET len == Defined(oper.input[1]).len
      f[i \in 0..Len(oper.name.indices)] ==
        IF i = 0 THEN zero(layout(oper.output).bits)
        ELSE LET ri == oper.name.indices[i]
             IN insert(f[i - 1], oper.output, i - 1,
                       extract(inputs[1], oper.input[1], IF ri < len THEN ri ELSE ri - len))
  IN f[Len(oper.name.indices)]

ElementOps == {"gep", "extractelement", "extractvalue", "insertelement", "insertvalue"}

\* The indices by which an operation finds an element of its first operand: those
\* of its name, or operands.
IndexInputs(oper, inputs) ==
  CASE oper.name.op = "gep" -> Tail(inputs)
    [] oper.name.op = "extractelement" -> <<inputs[2]>>
    [] oper.name.op = "insertelement" -> <<inputs[3]>>
    [] OTHER -> <<>>
Indices(oper, inputs) ==
  IF oper.name.op \in {"extractvalue", "insertvalue"} THEN oper.name.indices
  ELSE [i \in DOMAIN IndexInputs(oper, inputs) |-> signed(IndexInputs(oper, inputs)[i])]

\* Offsets are in bits, addresses in bytes.
GetElementPtr(bits, addr, offset) ==
  IF offset % 8 # 0 \/ addr + offset \div 8 < 0 THEN Panicked ELSE new(bits, addr + offset \div 8)

\* With e that element.
call_element(oper, inputs, e) ==
  CASE oper.name.op = "gep" ->
         GetElementPtr(layout(oper.output).bits, as_u128(inputs[1]), e.offset)
    [] oper.name.op \in {"extractelement", "extractvalue"} -> extract_element(inputs[1], e)
    [] OTHER -> insert_bits(inputs[1], e.offset, inputs[2])

call_operation(oper, inputs) ==
  LET op == oper.name.op
  IN CASE oper.output = NoClass \/ \E i \in DOMAIN inputs : inputs[i] = Panicked -> Panicked
       [] op \in SimpleOps ->
            IF kind(oper.output) \in {"int", "ptr", "fp"} THEN call_scalar(oper.name, inputs)
            ELSE IF kind(oper.output) = "vector" THEN Lanes(oper, inputs) ELSE Panicked
       [] op = "bitcast" -> ucast(inputs[1], layout(oper.name.to))
       [] op \in ElementOps ->
            IF \E i \in DOMAIN IndexInputs(oper, inputs) : ~has_signed(IndexInputs(oper, inputs)[i])
            THEN Panicked
            ELSE call_element(oper, inputs, element_rec(oper.input[1], Indices(oper, inputs)))
       [] op = "shuffle" -> Shuffled(oper, inputs)
       [] op = "select" ->
            IF ~is_bool(inputs[1]) THEN Panicked
            ELSE IF unwrap_bool(inputs[1]) THEN inputs[2] ELSE inputs[3]
       [] op = "aggregate" -> aggregate(oper.name.to, inputs)
=============================================================================
