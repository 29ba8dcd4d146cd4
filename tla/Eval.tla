-------------------------------- MODULE Eval --------------------------------
(***************************************************************************)
(* What a thread computes: the compute, load and store instructions of     *)
(* compile/function.rs with constants of compile/expr.rs as operands, and  *)
(* the functions of native/llvm.rs and native/libc.rs that compute or      *)
(* access memory.  Order, threads and the pipeline are DataFlow's and      *)
(* Interp's; here every instruction is executed when it is reached, and    *)
(* all of a small memory is allocated up to top, from where FlowCtx::alloc *)
(* takes more.                                                             *)
(***************************************************************************)
EXTENDS Expr, FiniteSets

CONSTANTS
  Constants,   \* the constants a program starts from
  Instrs,      \* its instructions
  MemBytes,    \* the bytes of memory
  InitMem,     \* and what they hold: numbers, from address 0
  TlsAddrs,    \* where each thread's thread-locals are
  MaxSteps

VARIABLES
  thread,   \* the thread that executes the program
  acc,      \* the last result: [class, value]
  mem, top,
  status,
  instr,    \* history: the last instruction (or the constant at the start)
  old,      \* history: acc, mem and top before it
  steps
vars == <<thread, acc, mem, top, status, instr, old, steps>>

Byte(n) == Bits(n, 8)
Start(c) == Instr("start", Void, Oper("none"), <<c>>, Void)

\* FlowCtx::evaluate in this thread, whichever the program was compiled for.
Evaluated(x) == evaluate(x, TlsAddrs[thread])

Init ==
  /\ thread \in DOMAIN TlsAddrs
  /\ \E c \in Constants :
       /\ instr = Start(c)
       /\ \E x \in {compile_const(c)} : acc = [class |-> class_of(x), value |-> Evaluated(x)]
  /\ mem = [a \in 0..(MemBytes - 1) |-> Byte(IF a + 1 \in DOMAIN InitMem THEN InitMem[a + 1] ELSE 0)]
  /\ top = Len(InitMem)
  /\ old = [acc |-> acc, mem |-> mem, top |-> top] /\ status = "run" /\ steps = 0

-----------------------------------------------------------------------------
(* Instructions.                                                           *)

\* compile_operand: the last result is a local, which nothing is known of yet.
Decoded(x) ==
  IF is_const(x) THEN x
  ELSE [e |-> "expr", class |-> class_of(x), value |-> Evaluated(x)]

operand(c) ==
  IF c = Acc THEN [e |-> "local", class |-> acc.class, value |-> acc.value]
  ELSE Decoded(compile_const(c))

Operands(i) == [k \in DOMAIN i.args |-> operand(i.args[k])]

Mask(x) == [k \in 1..x.class.len |-> as_u128(extract(x.value, x.class, k - 1))]

\* The operation of a compute instruction on operands of these classes.  A
\* GetElementPtr with an index that is an expression is todo!().
compile_instr(i, ops, classes) ==
  CASE i.i = "gep" /\ \E k \in 2..Len(ops) : ops[k].e = "expr" ->
         [name |-> Oper("gep"), input |-> classes, output |-> NoClass]
    [] i.i = "gep" -> GetElementPtrOf(ops)
    [] i.i = "compute" -> compile_operation(i.name, classes)
    [] i.i = "shuffle" ->
         compile_operation(Indexed("shuffle", Mask(ops[Len(ops)])), SubSeq(classes, 1, 2))

InMemory(addr, len) == addr >= 0 /\ addr + len <= MemBytes

load(m, addr, bits) == from_bytes_of([k \in 1..((bits + 7) \div 8) |-> m[addr + k - 1]], bits)
store(m, addr, v) ==
  LET b == as_bytes(v)
  IN [a \in DOMAIN m |-> IF a - addr + 1 \in DOMAIN b THEN b[a - addr + 1] ELSE m[a]]

-----------------------------------------------------------------------------
(* Native functions.                                                       *)

\* What a call leaves: its value (Void for none), the memory and its top.
Outcome(v, m, t) == [value |-> v, mem |-> m, top |-> t]
Unit == new(0, 0)
Explode == Outcome(Panicked, mem, top)
Returns(v) == Outcome(v, mem, top)

MaxOf(sgn, w) == IF sgn = "s" THEN 2^(w - 1) - 1 ELSE 2^w - 1
MinOf(sgn, w) == IF sgn = "s" THEN -(2^(w - 1)) ELSE 0
View(sgn, v) == IF sgn = "s" THEN signed(v) ELSE as_u128(v)

Exact(op, sgn, v1, v2) ==
  LET x == View(sgn, v1) y == View(sgn, v2)
  IN CASE op = "add" -> x + y [] op = "sub" -> x - y [] op = "mul" -> x * y

\* wrapping_* and whether checked_* is None, as a struct.
overflow_binop(op, sgn, w, v1, v2) ==
  LET r == Exact(op, sgn, v1, v2)
  IN aggregate(Struct(<<I(w), I(1)>>, FALSE),
       <<new(w, r), from_bool(r > MaxOf(sgn, w) \/ r < MinOf(sgn, w))>>)

\* saturating_sub
sat_binop(sgn, w, v1, v2) ==
  LET r == Exact("sub", sgn, v1, v2)
  IN new(w, IF r > MaxOf(sgn, w) THEN MaxOf(sgn, w)
            ELSE IF r < MinOf(sgn, w) THEN MinOf(sgn, w) ELSE r)

\* trailing_zeros and leading_zeros.
unop(f, w, v) ==
  LET zeros(n) == \A i \in 1..n : v.imp[IF f = "cttz" THEN i ELSE w + 1 - i] = 0
  IN new(w, CHOOSE n \in 0..w : zeros(n) /\ (n = w \/ ~zeros(n + 1)))

\* count_ones
llvm_ctpop(v) == new(64, Cardinality({i \in DOMAIN v.imp : v.imp[i] = 1}))

\* The loops over bytes load one byte after another.
byte_at(a) == as_u128(load(mem, a, 8))

memchr(ptr, value, num) ==
  LET f[i \in 0..num] == IF i = num THEN 0
                         ELSE IF byte_at(ptr + i) = value THEN ptr + i ELSE f[i + 1]
  IN new(PtrBits, f[0])

strlen(ptr) ==
  LET f[i \in 0..(MemBytes - ptr)] ==
        IF i = MemBytes - ptr THEN -1 ELSE IF byte_at(ptr + i) = 0 THEN i ELSE f[i + 1]
  IN IF f[0] < 0 THEN Panicked ELSE new(PtrBits, f[0])

memcmp(p1, p2, num) ==
  LET f[i \in 0..num] == IF i = num THEN 0
                         ELSE IF byte_at(p1 + i) < byte_at(p2 + i) THEN -1
                         ELSE IF byte_at(p1 + i) > byte_at(p2 + i) THEN 1 ELSE f[i + 1]
  IN new(32, f[0])

\* FlowCtx::memcpy, for llvm.memcpy: what is copied is loaded first.
memcpy(dst, src, len) ==
  IF len = 0 THEN mem ELSE store(mem, dst, load(mem, src, 8 * len))

\* llvm.memset, and getentropy with the value 4.
memset(addr, val, len) == store(mem, addr, from_bytes_of([k \in 1..len |-> Bits(val, 8)], 8 * len))

\* FlowCtx::alloc, memcpy and free (which keeps the block): what both blocks hold
\* is copied.  Alignment and guards between blocks are Memory's.
realloc(old_ptr, old_size, new_size) ==
  Outcome(new(PtrBits, top),
          memcpy(top, old_ptr, IF new_size < old_size THEN new_size ELSE old_size),
          top + new_size)

\* The directory is empty; without a buffer, one byte is allocated for it.
getcwd(buf, size) ==
  IF buf # 0
  THEN Outcome(new(PtrBits, buf), IF size # 0 THEN store(mem, buf, new(8, 0)) ELSE mem, top)
  ELSE Outcome(new(PtrBits, top), store(mem, top, new(8, 0)), top + 1)

\* The bits each argument must have (unwrap_*); an Addr or a Value takes any (0).
ArgBits(name) ==
  CASE name.f \in {"uover", "sover", "usat", "ssat"} -> <<name.w, name.w>>
    [] name.f \in {"cttz", "ctlz"} -> <<name.w>>
    [] name.f = "ctpop" -> <<64>>
    [] name.f = "expect" -> <<0, 0>>
    [] name.f = "assume" -> <<1>>
    [] name.f = "memset" -> <<0, 8, 0, 1>>
    [] name.f = "memcpy" -> <<0, 0, 0, 1>>
    [] name.f = "memchr" -> <<0, 32, 0>>
    [] name.f = "memcmp" -> <<0, 0, 0>>
    [] name.f = "strlen" -> <<0>>
    [] name.f \in {"getcwd", "getentropy"} -> <<0, 0>>
    [] name.f = "realloc" -> <<0, 0, 0, 0>>

call(name, vs) ==
  LET n(k) == as_u128(vs[k])
      f == name.f
      bits == ArgBits(name)
  IN CASE \E k \in DOMAIN bits : bits[k] # 0 /\ vs[k].bits # bits[k] -> Explode
       [] f \in {"uover", "sover"} ->
            Returns(overflow_binop(name.op, IF f = "uover" THEN "u" ELSE "s", name.w, vs[1], vs[2]))
       [] f \in {"usat", "ssat"} ->
            Returns(sat_binop(IF f = "usat" THEN "u" ELSE "s", name.w, vs[1], vs[2]))
       [] f \in {"cttz", "ctlz"} -> Returns(unop(f, name.w, vs[1]))
       [] f = "ctpop" -> Returns(llvm_ctpop(vs[1]))
       [] f = "expect" -> Returns(vs[1])
       [] f = "assume" -> Returns(IF unwrap_bool(vs[1]) THEN Unit ELSE Panicked)
       [] f = "memchr" -> Returns(memchr(n(1), n(2), n(3)))
       [] f = "memcmp" -> Returns(memcmp(n(1), n(2), n(3)))
       [] f = "strlen" -> Returns(strlen(n(1)))
       [] f = "memset" -> Outcome(Unit, memset(n(1), n(2), n(3)), top)
       [] f = "memcpy" -> Outcome(Unit, memcpy(n(1), n(2), n(3)), top)
       [] f = "getentropy" -> Outcome(new(32, 0), memset(n(1), 4, n(2)), top)
       [] f = "getcwd" -> getcwd(n(1), n(2))
       [] f = "realloc" -> realloc(n(1), n(2), n(4))

-----------------------------------------------------------------------------

Ready(i) ==
  /\ status = "run" /\ steps < MaxSteps /\ i.on = acc.class /\ UNCHANGED thread
  /\ instr' = i /\ old' = [acc |-> acc, mem |-> mem, top |-> top] /\ steps' = steps + 1

\* A panic ends the simulation.
Put(class, v) ==
  IF v = Panicked \/ class = NoClass
  THEN status' = "panic" /\ UNCHANGED acc
  ELSE status' = status /\ acc' = [class |-> class, value |-> v]

DoCompute(i, ops) ==
  /\ i.i \in {"compute", "gep", "shuffle"}
  /\ \E oper \in {compile_instr(i, ops, Classes(ops))} :
       Put(oper.output, call_operation(oper, SubSeq(Values(ops), 1, Len(oper.input))))
  /\ UNCHANGED <<mem, top>>

DoLoad(i, ops) ==
  /\ i.i = "load"
  /\ \E target \in {element(ops[1].class, -1).class}, addr \in {as_u128(ops[1].value)} :
     \E l \in {layout(target)} :
       InMemory(addr, bytes_of(l)) /\ Put(target, load(mem, addr, l.bits))
  /\ UNCHANGED <<mem, top>>

DoStore(i, ops) ==
  /\ i.i = "store"
  /\ \E addr \in {as_u128(ops[1].value)} :
       InMemory(addr, Len(as_bytes(ops[2].value))) /\ mem' = store(mem, addr, ops[2].value)
  /\ UNCHANGED <<acc, top, status>>

DoCall(i, ops) ==
  /\ i.i = "call"
  /\ \E r \in {call(i.name, Values(ops))} :
       /\ r.top <= MemBytes
       /\ mem' = r.mem /\ top' = r.top
       /\ IF r.value = Unit THEN UNCHANGED <<acc, status>> ELSE Put(i.ty, r.value)

\* (The operands are bound to ops so that they are computed once.)
Next ==
  \E i \in Instrs :
    /\ Ready(i)
    /\ \E ops \in {Operands(i)} :
         DoCompute(i, ops) \/ DoLoad(i, ops) \/ DoStore(i, ops) \/ DoCall(i, ops)

Spec == Init /\ [][Next]_vars

-----------------------------------------------------------------------------

Padding(v) == SubSeq(v.imp, v.bits + 1, Len(v.imp))

\* Every value has the bits of its class, in as few bytes as hold them, and no
\* stray bits beyond them (which from_bytes would keep and as_u128 would see).
EvalTypeOK ==
  /\ status \in {"run", "panic"} /\ steps \in 0..MaxSteps
  /\ acc.value.bits = layout(acc.class).bits
  /\ Len(acc.value.imp) = ImpLen(acc.value.bits)
  /\ Padding(acc.value) = Zeros(ImpLen(acc.value.bits) - acc.value.bits)

\* The value an LLVM value of this type would have: what the code's own extract
\* finds at each element.
RECURSIVE Abs(_, _)
Abs(U, v) ==
  LET T == Defined(U)
  IN CASE T.k = "int" -> IF T.bits = 1 THEN (IF unwrap_bool(v) THEN -1 ELSE 0) ELSE signed(v)
       [] T.k = "ptr" -> as_u128(v)
       [] T.k \in {"vector", "array"} -> [i \in 1..T.len |-> Abs(T.elem, extract(v, T, i - 1))]
       [] T.k = "struct" -> [i \in DOMAIN T.fields |-> Abs(T.fields[i], extract(v, T, i - 1))]

Reference == INSTANCE LLVM WITH TlsAddrs <- TlsAddrs[thread]

AbsState(a, m, t) ==
  [ty |-> a.class, val |-> Abs(a.class, a.value), bytes |-> [k \in DOMAIN m |-> Number(m[k])], brk |-> t]

\* Every constant is what LLVM defines it to be (call_operation folds it, or
\* evaluate computes it in its thread), and every instruction and native function
\* leaves the value and the memory that its definition asks for, and nothing
\* else: the layouts, bit offsets and widths the code computes with do not show.
\* The simulator panics only where a result is undefined or not written.
ComputesLLVM ==
  IF instr.i = "start"
  THEN [ty |-> acc.class, val |-> Abs(acc.class, acc.value)] = Reference!Known(instr.args[1])
  ELSE Reference!Allows(instr, AbsState(old.acc, old.mem, old.top), AbsState(acc, mem, top),
                        status = "panic")
=============================================================================
