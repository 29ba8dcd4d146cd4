---------------------------- MODULE FuncCompiler ----------------------------
(***************************************************************************)
(* compile/function.rs: a function with names becomes a function with      *)
(* numbers.  A local gets the next number the first time compile_local     *)
(* sees its name, so the numbers are the positions in the list of names in *)
(* order of first mention; blocks are numbered before any is compiled.     *)
(* Numbers start at 0.  Debug frames are left out.                         *)
(***************************************************************************)
EXTENDS Program

\* The position of x in a sequence without repetitions, from 0.
Position(s, x) == (CHOOSE i \in DOMAIN s : s[i] = x) - 1

Names(operands) ==
  LET locals == Keep(operands, {o \in ToSet(operands) : o.k = "local"})
  IN [i \in DOMAIN locals |-> locals[i].name]

DestNames(instr) == IF instr.dest = None THEN <<>> ELSE <<instr.dest>>

\* The instructions whose compilation numbers the destination before the operands.
DestFirst(op) == op \in {"alloca", "load", "call", "phi"}

Operands(instr) ==
  IF instr.op = "phi" THEN [i \in DOMAIN instr.incoming |-> instr.incoming[i][1]]
  ELSE instr.operands

Mentions(instr) ==
  IF DestFirst(instr.op) THEN DestNames(instr) \o Names(Operands(instr))
  ELSE Names(Operands(instr)) \o DestNames(instr)

FirstMentions(names) ==
  Fold(LAMBDA seen, n : IF n \in ToSet(seen) THEN seen ELSE Append(seen, n), <<>>, names)

(***************************************************************************)
(* local_names once the function is compiled: compile_func visits the      *)
(* blocks in order, each block's instructions and terminator in order, and *)
(* the parameters last.                                                    *)
(***************************************************************************)
LocalNames(func) ==
  LET ofBlock(b) == FlattenSeq([i \in DOMAIN b.instrs |-> Mentions(b.instrs[i])]) \o Mentions(b.term)
  IN FirstMentions(FlattenSeq([i \in DOMAIN func.blocks |-> ofBlock(func.blocks[i])]) \o func.params)

-----------------------------------------------------------------------------

compile_local(locals, name) == Position(locals, name)

compile_operand(locals, o) ==
  IF o.k = "local" THEN [k |-> "local", i |-> compile_local(locals, o.name)] ELSE o

compile_operands(locals, operands) ==
  [i \in DOMAIN operands |-> compile_operand(locals, operands[i])]

NoLocal == -1

compile_dest(locals, dest) == IF dest = None THEN NoLocal ELSE compile_local(locals, dest)

compile_target(func, name) ==
  Position([i \in DOMAIN func.blocks |-> func.blocks[i].name], name)

\* mapping: from the number of the block control came from to the operand.
compile_phi(func, locals, phi) ==
  LET origins == [i \in DOMAIN phi.incoming |-> compile_target(func, phi.incoming[i][2])]
  IN [dest |-> compile_local(locals, phi.dest),
      mapping |-> [o \in ToSet(origins) |->
                     compile_operand(locals, phi.incoming[Position(origins, o) + 1][1])]]

compile_instr(locals, instr) ==
  [op |-> instr.op, f |-> instr.f,
   operands |-> compile_operands(locals, instr.operands),
   dest |-> compile_dest(locals, instr.dest)]

compile_term(func, locals, term) ==
  [op |-> term.op, f |-> term.f,
   operands |-> compile_operands(locals, term.operands),
   dest |-> compile_dest(locals, term.dest), cases |-> term.cases,
   targets |-> [i \in DOMAIN term.targets |-> compile_target(func, term.targets[i])]]

compile_block(func, locals, b) ==
  LET phis == Keep(b.instrs, {i \in ToSet(b.instrs) : i.op = "phi"})
      instrs == Keep(b.instrs, {i \in ToSet(b.instrs) : i.op # "phi"})
  IN [phis |-> [i \in DOMAIN phis |-> compile_phi(func, locals, phis[i])],
      code |-> [i \in DOMAIN instrs |-> compile_instr(locals, instrs[i])]
                 \o <<compile_term(func, locals, b.term)>>]

compile_func(func) ==
  LET locals == LocalNames(func)
  IN [kind |-> "c", locals |-> locals,
      args |-> [i \in DOMAIN func.params |-> compile_local(locals, func.params[i])],
      blocks |-> [i \in DOMAIN func.blocks |-> compile_block(func, locals, func.blocks[i])]]

\* Every function of a program, compiled; a native function is what it is.
compile_program(p) ==
  [a \in DOMAIN p |-> IF p[a].kind = "c" THEN compile_func(p[a]) ELSE p[a]]
=============================================================================
