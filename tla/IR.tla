--------------------------------- MODULE IR ---------------------------------
(***************************************************************************)
(* What the compilers of compile/ read: LLVM's types, constants and        *)
(* operations.  A module with the forms only, shared by the model of the   *)
(* code (Class, Value, Operation, Expr, Eval) and by the reference (LLVM). *)
(***************************************************************************)
EXTENDS Integers, Sequences

\* Types.
Void == [k |-> "void"]
I(n) == [k |-> "int", bits |-> n]
FP(n) == [k |-> "fp", bits |-> n]
Ptr(T) == [k |-> "ptr", to |-> T]
FuncType == [k |-> "func"]
Vector(T, n) == [k |-> "vector", elem |-> T, len |-> n]
Array(T, n) == [k |-> "array", elem |-> T, len |-> n]
Struct(fields, packed) == [k |-> "struct", fields |-> fields, packed |-> packed]
\* A struct by its name, so that a type can mention itself behind a pointer.
Named(n) == [k |-> "named", name |-> n]

\* The name of an operation with what it carries: a class, a predicate, indices.
Oper(op) == [op |-> op, to |-> Void, pred |-> "none", indices |-> <<>>]
Cast(op, T) == [Oper(op) EXCEPT !.to = T]
ICmp(pred) == [Oper("icmp") EXCEPT !.pred = pred]
Indexed(op, indices) == [Oper(op) EXCEPT !.indices = indices]

Arithmetic == {"add", "sub", "mul", "udiv", "sdiv", "urem", "srem"}
Bitwise2 == {"and", "or", "xor"}
Shifts == {"shl", "lshr", "ashr"}
FloatOps == {"fadd", "fsub", "fmul", "fdiv", "frem", "fneg"}
Casts == {"trunc", "zext", "sext"}
FloatCasts == {"fptrunc", "fpext", "fptoui", "fptosi", "uitofp", "sitofp"}

\* Constants.
CInt(w, v) == [c |-> "int", bits |-> w, v |-> v]
CZero(T) == [c |-> "zero", ty |-> T]
CGlobal(T, addr) == [c |-> "global", ty |-> T, addr |-> addr]
CThreadLocal(T, key) == [c |-> "tls", ty |-> T, key |-> key]
CStruct(values, packed) == [c |-> "struct", args |-> values, packed |-> packed]
CArray(T, values) == [c |-> "array", ty |-> T, args |-> values]
CVector(values) == [c |-> "vector", args |-> values]
CGep(args) == [c |-> "gep", args |-> args]
CApply(name, args) == [c |-> "apply", name |-> name, args |-> args]

\* Instructions, which use the last result (Acc) and constants.  on is the type
\* the last result has where the instruction stands, ty that of its own result.
Acc == [c |-> "acc"]
Instr(i, on, name, args, ty) == [i |-> i, on |-> on, name |-> name, args |-> args, ty |-> ty]
Compute(on, name, args) == Instr("compute", on, name, args, Void)
Gep(on, args) == Instr("gep", on, Oper("gep"), args, Void)
Shuffle(on, args, mask) == Instr("shuffle", on, Oper("shuffle"), Append(args, mask), Void)
Load(on, T, addr) == Instr("load", on, Oper("load"), <<addr>>, T)
Store(on, addr, value) == Instr("store", on, Oper("store"), <<addr, value>>, Void)
\* Calls of the functions that native/ provides; op and w tell the versions of
\* an LLVM intrinsic apart (uadd.i8, sadd.i16...).
Native(f, op, w) == [f |-> f, op |-> op, w |-> w]
Call(on, name, args, T) == Instr("call", on, name, args, T)
=============================================================================
