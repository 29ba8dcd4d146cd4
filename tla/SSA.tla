-------------------------------- MODULE SSA --------------------------------
(***************************************************************************)
(* What a simulated thread promises: it runs its LLVM functions the way    *)
(* the language says, one instruction at a time, by the names in the       *)
(* source, on values rather than thunks.  A call is a frame on a stack,    *)
(* the phis of a block are assigned together, and an exception unwinds     *)
(* every frame (no frame of this program catches it).                      *)
(***************************************************************************)
EXTENDS Program

VARIABLES
  prog,     \* the program: from addresses to functions
  calls,    \* the frames: function, block, block before, position, locals,
            \* and how many times the native in progress has called back
  mem,      \* from the blocks allocated to values
  outcome,  \* run, ok, panic (an exception left the thread) or crash
  result    \* what the thread returned

vars == <<prog, calls, mem, outcome, result>>

Frame(addr, args) ==
  LET params == prog[addr].params
  IN [fun |-> addr, block |-> prog[addr].blocks[1].name, origin |-> None, pc |-> 0, n |-> 0,
      env |-> [x \in ToSet(params) |-> args[CHOOSE i \in DOMAIN params : params[i] = x]]]

Init ==
  /\ prog \in Programs
  /\ calls = <<Frame(Entry, MainParams)>>
  /\ mem = <<>> /\ outcome = "run" /\ result = 0

Top == Last(calls)

BlockOf(fr) == CHOOSE b \in ToSet(prog[fr.fun].blocks) : b.name = fr.block

Phis(fr) == SelectSeq(BlockOf(fr).instrs, LAMBDA i : i.op = "phi")
Code(fr) == SelectSeq(BlockOf(fr).instrs, LAMBDA i : i.op # "phi") \o <<BlockOf(fr).term>>

\* A local has a value once it is assigned.
HasValue(fr, o) == o.k = "local" => o.name \in DOMAIN fr.env
Value(fr, o) == IF o.k = "local" THEN fr.env[o.name] ELSE o.v
Values(fr, operands) == [i \in DOMAIN operands |-> Value(fr, operands[i])]

Assign(env, dest, v) == IF dest = None THEN env ELSE (dest :> v) @@ env

JumpTo(fr, target) == [fr EXCEPT !.origin = fr.block, !.block = target, !.pc = 0]

\* The call or invoke at the top of the stack is over and yields v.
AfterCall(fr, v) ==
  LET I == Code(fr)[fr.pc]
      done == [fr EXCEPT !.env = Assign(@, I.dest, v), !.n = 0]
  IN IF I.op = "invoke" THEN JumpTo(done, I.targets[1]) ELSE [done EXCEPT !.pc = @ + 1]

AtCode == outcome = "run" /\ Top.pc > 0
HasValues(fr) == \A o \in ToSet(Code(fr)[fr.pc].operands) : HasValue(fr, o)

Running(op) ==
  /\ AtCode /\ HasValues(Top)
  /\ Code(Top)[Top.pc].op \in op

Replace(fr) == calls' = Append(Front(calls), fr)

-----------------------------------------------------------------------------

\* Every phi has a value for the block control came from.
HasPhis(fr) ==
  \A phi \in ToSet(Phis(fr)) :
    \E in \in ToSet(phi.incoming) : in[2] = fr.origin /\ HasValue(fr, in[1])

\* Every phi reads the locals as they were when the block was entered.
EnterBlock ==
  /\ outcome = "run" /\ Top.pc = 0 /\ HasPhis(Top)
  /\ LET from(phi) == (CHOOSE in \in ToSet(phi.incoming) : in[2] = Top.origin)[1]
         new == {<<phi.dest, Value(Top, from(phi))>> : phi \in ToSet(Phis(Top))}
         joined == [d \in {p[1] : p \in new} |-> (CHOOSE p \in new : p[1] = d)[2]]
     IN Replace([Top EXCEPT !.env = joined @@ @, !.pc = 1])
  /\ UNCHANGED <<prog, mem, outcome, result>>

Straight ==
  /\ Running({"compute", "alloca", "load", "store", "rmw", "cmpxchg"})
  /\ LET I == Code(Top)[Top.pc]
         fresh == BlockBase + Cardinality(DOMAIN mem)
         r == Run(I.op, I.f, Values(Top, I.operands), mem, fresh)
     IN /\ Replace([Top EXCEPT !.env = Assign(@, I.dest, r.val), !.pc = @ + 1])
        /\ mem' = r.mem
  /\ UNCHANGED <<prog, outcome, result>>

FenceStep ==
  /\ Running({"fence"})
  /\ Replace([Top EXCEPT !.pc = @ + 1])
  /\ UNCHANGED <<prog, mem, outcome, result>>

Branch ==
  /\ Running({"br", "condbr", "switch"})
  /\ LET I == Code(Top)[Top.pc]
         x == Values(Top, I.operands)
         which == CASE I.op = "br" -> 1
                    [] I.op = "condbr" -> IF x[1] # 0 THEN 1 ELSE 2
                    [] I.op = "switch" -> IF x[1] \in ToSet(I.cases)
                                          THEN CHOOSE i \in DOMAIN I.cases : I.cases[i] = x[1]
                                          ELSE Len(I.targets)
     IN Replace(JumpTo(Top, I.targets[which]))
  /\ UNCHANGED <<prog, mem, outcome, result>>

CallArgs == Values(Top, Code(Top)[Top.pc].operands)
Callee == prog[Head(CallArgs)]

CallFunction ==
  /\ Running({"call", "invoke"})
  /\ Head(CallArgs) \in DOMAIN prog
  /\ Callee.kind = "c" /\ Len(Callee.params) = Len(Tail(CallArgs))
  /\ calls' = Append(calls, Frame(Head(CallArgs), Tail(CallArgs)))
  /\ UNCHANGED <<prog, mem, outcome, result>>

\* A native function that only computes a value.
CallNative ==
  /\ Running({"call", "invoke"})
  /\ Head(CallArgs) \in DOMAIN prog
  /\ \/ Callee.kind = "fn" /\ Len(Tail(CallArgs)) = Len(Callee.needs)
     \/ Callee.kind = "comp" /\ Len(Tail(CallArgs)) >= Len(Callee.needs)
  /\ Replace(AfterCall(Top, Apply(Callee.f, Tail(CallArgs))))
  /\ UNCHANGED <<prog, mem, outcome, result>>

\* _Unwind_Backtrace calls its argument once per frame, innermost first.
CallBack ==
  /\ Running({"call", "invoke"})
  /\ Head(CallArgs) \in DOMAIN prog
  /\ Callee.kind = "backtrace"
  /\ Top.n < Len(calls)
  /\ LET f == CallArgs[2]
     IN /\ f \in DOMAIN prog /\ prog[f].kind = "c" /\ Len(prog[f].params) = 2
        /\ calls' = Append(calls, Frame(f, <<calls[Len(calls) - Top.n].fun + 1, CallArgs[3]>>))
  /\ UNCHANGED <<prog, mem, outcome, result>>

CallBackDone ==
  /\ Running({"call", "invoke"})
  /\ Head(CallArgs) \in DOMAIN prog
  /\ Callee.kind = "backtrace"
  /\ Top.n = Len(calls)
  /\ Replace(AfterCall(Top, 0))
  /\ UNCHANGED <<prog, mem, outcome, result>>

InCallBack(fr) ==
  prog[Value(fr, Head(Code(fr)[fr.pc].operands))].kind = "backtrace"

Return ==
  /\ Running({"ret"})
  /\ LET v == Value(Top, Head(Code(Top)[Top.pc].operands))
         below == Front(calls)
     IN IF below = <<>>
        THEN calls' = <<>> /\ outcome' = "ok" /\ result' = v
        ELSE /\ calls' = Append(Front(below),
                           IF InCallBack(Last(below)) THEN [Last(below) EXCEPT !.n = @ + 1]
                           ELSE AfterCall(Last(below), v))
             /\ UNCHANGED <<outcome, result>>
  /\ UNCHANGED <<prog, mem>>

Raise ==
  /\ Running({"call", "invoke"})
  /\ Head(CallArgs) \in DOMAIN prog
  /\ Callee.kind = "raise"
  /\ calls' = <<>> /\ outcome' = "panic"
  /\ UNCHANGED <<prog, mem, result>>

\* What no program should do stops the simulation, of which nothing is left.
CrashNow ==
  \/ Running({"unreachable", "freeze"})
  \/ AtCode /\ ~HasValues(Top)
  \/ outcome = "run" /\ Top.pc = 0 /\ ~HasPhis(Top)
  \/ /\ Running({"call", "invoke"})
     /\ \/ Head(CallArgs) \notin DOMAIN prog
        \/ Callee.kind = "bomb"
        \/ Callee.kind = "c" /\ Len(Callee.params) # Len(Tail(CallArgs))
        \/ Callee.kind = "fn" /\ Len(Callee.needs) # Len(Tail(CallArgs))
        \/ Callee.kind = "comp" /\ Len(Callee.needs) > Len(Tail(CallArgs))

Crash ==
  /\ CrashNow
  /\ outcome' = "crash" /\ calls' = <<>> /\ mem' = <<>>
  /\ UNCHANGED <<prog, result>>

Next ==
  EnterBlock \/ Straight \/ FenceStep \/ Branch \/ CallFunction \/ CallNative \/ CallBack
    \/ CallBackDone \/ Return \/ Raise \/ Crash

Spec == Init /\ [][Next]_vars
=============================================================================
