------------------------------ MODULE Program ------------------------------
(***************************************************************************)
(* The LLVM functions the simulator runs, as the compiler reads them:      *)
(* locals, blocks and functions have names.  A function is a record        *)
(* [params, blocks], a block [name, instrs, term]; the entry block comes   *)
(* first.  Native functions are records too (native/mod.rs).  An operation *)
(* on values is abstracted to Apply; what call_operation computes bit by   *)
(* bit is the subject of module Operation.                                 *)
(***************************************************************************)
EXTENDS SeqFold, SequencesExt, FiniteSets, Functions, TLC

CONSTANTS
  Programs     \* the programs: functions from addresses to functions

\* No destination, no origin.
None == "none"

Local(n) == [k |-> "local", name |-> n]
Const(v) == [k |-> "const", v |-> v]
\* An expression that is only evaluated when decoded (a thread-local address).
Expr(v) == [k |-> "expr", v |-> v]

Compute(dest, f, operands) == [op |-> "compute", dest |-> dest, f |-> f, operands |-> operands]
Alloca(dest, count) == [op |-> "alloca", dest |-> dest, f |-> "alloca", operands |-> <<count>>]
Load(dest, address) == [op |-> "load", dest |-> dest, f |-> "load", operands |-> <<address>>]
Store(address, value) ==
  [op |-> "store", dest |-> None, f |-> "store", operands |-> <<address, value>>]
CmpXchg(dest, address, expected, replacement) ==
  [op |-> "cmpxchg", dest |-> dest, f |-> "cmpxchg",
   operands |-> <<address, expected, replacement>>]
AtomicRMW(dest, f, address, value) ==
  [op |-> "rmw", dest |-> dest, f |-> f, operands |-> <<address, value>>]
\* dest is None for a call whose result is not used.
Call(dest, func, args) == [op |-> "call", dest |-> dest, f |-> "call", operands |-> <<func>> \o args]
Fence == [op |-> "fence", dest |-> None, f |-> "fence", operands |-> <<>>]
Freeze == [op |-> "freeze", dest |-> None, f |-> "freeze", operands |-> <<>>]
Phi(dest, incoming) == [op |-> "phi", dest |-> dest, incoming |-> incoming]

\* targets: the blocks a terminator may jump to; a switch lists its cases first.
Term(op, dest, operands, cases, targets) ==
  [op |-> op, dest |-> dest, f |-> op, operands |-> operands, cases |-> cases, targets |-> targets]
Ret(v) == Term("ret", None, <<v>>, <<>>, <<>>)
Br(b) == Term("br", None, <<>>, <<>>, <<b>>)
CondBr(c, b1, b2) == Term("condbr", None, <<c>>, <<>>, <<b1, b2>>)
Switch(c, cases, targets) == Term("switch", None, <<c>>, cases, targets)
Invoke(dest, func, args, normal) == Term("invoke", dest, <<func>> \o args, <<>>, <<normal>>)
Unreachable == Term("unreachable", None, <<>>, <<>>, <<>>)

Block(n, instrs, term) == [name |-> n, instrs |-> instrs, term |-> term]
Function(params, blocks) == [kind |-> "c", params |-> params, blocks |-> blocks]

\* native_fn: an argument is awaited when needs says so, then f runs on the values.
\* native_comp: f runs inside one thunk that depends on the arguments.
Native(kind, f, needs) == [kind |-> kind, f |-> f, needs |-> needs]

\* The main thread runs the function at address 1, with argc and argv.
Entry == 1
MainParams == <<0, 0>>

-----------------------------------------------------------------------------
(* The form of programs, which llvm_ir's types and LLVM's verifier give.   *)
(* Whether a local is assigned before it is used is not part of it.        *)

AnOperand == [k : {"local"}, name : STRING] \cup [k : {"const", "expr"}, v : Int]
APhi == [op : {"phi"}, dest : STRING \ {None}, incoming : Seq(AnOperand \X STRING)]
AnInstr ==
  [op : {"compute", "alloca", "load", "store", "rmw", "cmpxchg", "call", "fence", "freeze"},
   dest : STRING, f : STRING, operands : Seq(AnOperand)]
ATerm ==
  [op : {"ret", "br", "condbr", "switch", "invoke", "unreachable"}, dest : STRING, f : STRING,
   operands : Seq(AnOperand), cases : Seq(Int), targets : Seq(STRING)]
ABlock == [name : STRING, instrs : Seq(APhi \cup AnInstr), term : ATerm]
AFunction == [kind : {"c"}, params : Seq(STRING), blocks : Seq(ABlock)]
ANative ==
  [kind : {"comp", "fn", "raise", "backtrace", "bomb"}, f : STRING, needs : Seq(BOOLEAN)]

\* As many operands as the instruction has: an access has an address, a call a callee.
HasOperands(i) ==
  /\ i.op \in {"load", "store", "rmw", "cmpxchg", "call", "invoke"} => Len(i.operands) >= 1
  /\ i.op \in {"ret", "condbr", "switch"} => Len(i.operands) = 1

\* The targets are blocks of the function; the last one of a switch is its default.
HasTargets(func, t) ==
  /\ ToSet(t.targets) \subseteq {b.name : b \in ToSet(func.blocks)}
  /\ t.op \in {"br", "invoke"} => Len(t.targets) >= 1
  /\ t.op = "condbr" => Len(t.targets) >= 2
  /\ t.op = "switch" => Len(t.targets) = Len(t.cases) + 1

IsFunction(func) ==
  /\ func \in AFunction /\ IsInjective(func.params) /\ func.blocks # <<>>
  /\ \A b \in ToSet(func.blocks) :
       /\ HasOperands(b.term) /\ HasTargets(func, b.term)
       /\ \A i \in ToSet(b.instrs) : i.op # "phi" => HasOperands(i)

IsProgram(p) ==
  /\ Entry \in DOMAIN p /\ p[Entry].kind = "c" /\ Len(p[Entry].params) = Len(MainParams)
  /\ \A a \in DOMAIN p : p[a] \in ANative \/ IsFunction(p[a])

ASSUME ProgramAssumption == \A p \in Programs : IsProgram(p)

-----------------------------------------------------------------------------

Bool(b) == IF b THEN 1 ELSE 0

\* A struct {current, changed} as one value, and its two fields.
Pair(x, y) == 2 * x + y

Apply(f, x) ==
  CASE f = "add" -> x[1] + x[2]
    [] f = "sub" -> x[1] - x[2]
    [] f = "eq" -> Bool(x[1] = x[2])
    [] f = "first" -> x[1] \div 2
    [] f = "second" -> x[1] % 2
    [] f = "xchg" -> x[2]

(***************************************************************************)
(* What running a memory instruction does: the value it yields and the     *)
(* memory it leaves.  fresh is the block the allocator hands out.          *)
(***************************************************************************)
Run(op, f, x, mem, fresh) ==
  CASE op = "compute" -> [val |-> Apply(f, x), mem |-> mem]
    [] op = "alloca" -> [val |-> fresh, mem |-> mem @@ (fresh :> 0)]
    [] op = "load" -> [val |-> mem[x[1]], mem |-> mem]
    [] op = "store" -> [val |-> 0, mem |-> [mem EXCEPT ![x[1]] = x[2]]]
    [] op = "rmw" -> [val |-> mem[x[1]],
                      mem |-> [mem EXCEPT ![x[1]] = Apply(f, <<mem[x[1]], x[2]>>)]]
    [] op = "cmpxchg" ->
         LET same == mem[x[1]] = x[2]
         IN [val |-> Pair(mem[x[1]], Bool(same)),
             mem |-> IF same THEN [mem EXCEPT ![x[1]] = x[3]] ELSE mem]

IsMemory(op) == op \in {"load", "store", "rmw", "cmpxchg"}

\* The blocks the allocator hands out, apart from values and function addresses.
BlockBase == 1000
=============================================================================
