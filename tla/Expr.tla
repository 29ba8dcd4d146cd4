-------------------------------- MODULE Expr --------------------------------
(***************************************************************************)
(* compile/expr.rs and FlowCtx::evaluate: a constant is compiled to an     *)
(* expression whose subexpressions are computed at once when their         *)
(* operands are known.  The address of a thread-local is known only to the *)
(* thread that evaluates the expression.                                   *)
(***************************************************************************)
EXTENDS Operation

Const(class, value) == [e |-> "const", class |-> class, value |-> value]
Apply(oper, args) == [e |-> "apply", oper |-> oper, args |-> args]

class_of(x) == IF x.e = "apply" THEN x.oper.output ELSE x.class
Classes(args) == [i \in DOMAIN args |-> class_of(args[i])]
is_const(x) == x.e = "const"
Values(args) == [i \in DOMAIN args |-> args[i].value]

reduce_root(x) ==
  IF x.e = "apply" /\ \A i \in DOMAIN x.args : is_const(x.args[i])
  THEN Const(x.oper.output, call_operation(x.oper, Values(x.args)))
  ELSE x

apply(name, args) == Apply(compile_operation(name, Classes(args)), args)

\* Aggregates are operations too.
ConstName(c, args) ==
  CASE c.c = "struct" -> Cast("aggregate", Struct(Classes(args), c.packed))
    [] c.c = "array" -> Cast("aggregate", Array(c.ty, Len(args)))
    [] c.c = "vector" -> Cast("aggregate", Vector(class_of(args[1]), Len(args)))
    [] c.c = "apply" -> c.name

\* The indices of a GetElementPtr, -1 for what is only known later; one that has
\* no signed view cannot be compiled.
KnownIndices(args) ==
  [i \in 1..(Len(args) - 1) |-> IF is_const(args[i + 1]) THEN signed(args[i + 1].value) ELSE -1]
GetElementPtrOf(args) ==
  IF \E i \in 2..Len(args) : is_const(args[i]) /\ ~has_signed(args[i].value)
  THEN [name |-> Oper("gep"), input |-> Classes(args), output |-> NoClass]
  ELSE compile_gep(Classes(args), KnownIndices(args))

RECURSIVE compile_const(_)

\* Undef, Null and AggregateZero are the zero of their type.  PtrToInt and
\* IntToPtr are ZExt (compile_cast).  No operation on floats is written, so
\* constants of float types are left out, and so are the cases that are todo!().
compile_const_impl(c, args) ==
  CASE c.c = "int" -> Const(I(c.bits), new(c.bits, c.v))
    [] c.c = "zero" -> Const(c.ty, zero(layout(c.ty).bits))
    [] c.c = "global" -> Const(Ptr(c.ty), new(PtrBits, c.addr))
    [] c.c = "tls" -> [e |-> "tls", class |-> Ptr(c.ty), key |-> c.key]
    [] c.c = "gep" -> Apply(GetElementPtrOf(args), args)
    [] OTHER -> apply(ConstName(c, args), args)

compile_const(c) ==
  reduce_root(compile_const_impl(c, [i \in DOMAIN c.args |-> compile_const(c.args[i])]))

\* FlowCtx::evaluate, in a thread whose thread-locals are at tls.
RECURSIVE evaluate(_, _)
evaluate(x, tls) ==
  CASE x.e = "const" -> x.value
    [] x.e = "tls" -> new(PtrBits, tls[x.key])
    [] x.e = "apply" -> call_operation(x.oper, [i \in DOMAIN x.args |-> evaluate(x.args[i], tls)])
=============================================================================
