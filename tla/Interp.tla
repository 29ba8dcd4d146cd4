------------------------------- MODULE Interp -------------------------------
(***************************************************************************)
(* One simulated thread decoding its functions: interp.rs (frames and      *)
(* their numbered locals), util/recursor.rs (the stack of frames that lets *)
(* calls nest without nesting futures), the calling conventions of         *)
(* native/mod.rs, and Thread::new's control.  Decoding declares thunks     *)
(* (cells of the thread's free list) without waiting for their values; the *)
(* thread waits only for the value of a branch, a callee, an argument a    *)
(* native function needs, or its result.  While it waits, step_pure        *)
(* resolves thunks.                                                        *)
(*                                                                         *)
(* Every memory access is non-atomic here, and the pipeline is not full    *)
(* (module DataFlow treats both).                                          *)
(***************************************************************************)
EXTENDS FuncCompiler, FreeList

VARIABLES
  prog,      \* the source program
  code,      \* its functions, compiled
  stack,     \* the recursor's frames, the running one last
  heap,      \* the free list the thread's thunks live in
  thunks,    \* DataFlow.thunks: the pipeline, oldest first
  blocker,   \* Blocker::Thunk: at most one reference
  ctl,       \* the control future: running, waiting, woken or done
  root,      \* Thread::new: the parameters, and the result of the first call
  mem,
  allocas,    \* how many blocks the decoded allocas ask for
  outcome,
  result

vars == <<prog, code, stack, heap, thunks, blocker, ctl, root, mem, allocas, outcome, result>>

CFrame(addr, args) ==
  [fun |-> addr, block |-> 0, origin |-> NoLocal, pc |-> 0,
   temps |-> [i \in ToSet(code[addr].args) |->
                args[CHOOSE k \in DOMAIN args : code[addr].args[k] = i]],
   st |-> "decode", fn |-> <<>>, args |-> <<>>, n |-> 0, extra |-> <<>>, out |-> <<>>]

Init ==
  /\ prog \in Programs
  /\ code = compile_program(prog)
  /\ stack = <<>> /\ heap = EmptyHeap /\ thunks = <<>> /\ blocker = <<>>
  /\ ctl = "woken" /\ root = [st |-> "start", deps |-> <<>>, out |-> <<>>]
  /\ mem = <<>> /\ allocas = 0 /\ outcome = "run" /\ result = 0

Top == Last(stack)
Below == Front(stack)
CurrentBlock == code[Top.fun].blocks[Top.block + 1]
I == CurrentBlock.code[Top.pc]
Replace(fr) == stack' = Append(Below, fr)

-----------------------------------------------------------------------------
(* Thunks.  s = [heap, thunks, refs]: what decoding changes, and the       *)
(* references it has produced so far.                                      *)

Thunk(op, f, deps, addr, caps, fresh) ==
  [op |-> op, f |-> f, deps |-> deps, addr |-> addr, caps |-> caps, fresh |-> fresh,
   ready |-> FALSE, val |-> 0]

State == [heap |-> heap, thunks |-> thunks, refs |-> <<>>]

\* thunk_impl: a new cell, which the pipeline references too.
declare(s, thunk) ==
  LET a == alloc(s.heap, thunk)
  IN [heap |-> clone(a.heap, Ref(a.cell)), thunks |-> Append(s.thunks, a.cell),
      refs |-> Append(s.refs, Ref(a.cell))]

constant(s, v) == declare(s, Thunk("constant", "constant", <<>>, <<>>, <<>>, v))

decode_operand(s, fr, o) ==
  CASE o.k = "const" -> [s EXCEPT !.refs = Append(@, ConstantRef(o.v))]
    [] o.k = "expr" -> constant(s, o.v)
    [] o.k = "local" -> [s EXCEPT !.heap = clone(@, fr.temps[o.i]),
                                  !.refs = Append(@, fr.temps[o.i])]

decode_operands(s, fr, operands) ==
  Fold(LAMBDA acc, o : decode_operand(acc, fr, o), s, operands)

Old(temps, dest) == IF dest \in DOMAIN temps THEN <<temps[dest]>> ELSE <<>>

\* assign: the local's old thunk is dropped; a result without a local is dropped.
assigned(h, temps, dest, ref) ==
  IF dest = NoLocal THEN [heap |-> drop(h, ref), temps |-> temps]
  ELSE [heap |-> drop_all(h, Old(temps, dest)),
        temps |-> [i \in DOMAIN temps \cup {dest} |-> IF i = dest THEN ref ELSE temps[i]]]

Ready(ref) == IF ref.cell = 0 THEN TRUE ELSE heap.cells[ref.cell].value.ready
Val(ref) == IF ref.cell = 0 THEN ref.v ELSE heap.cells[ref.cell].value.val

\* The closure of a "mismatch" never returns (StepPanics).
Run1(thunk, x, m) ==
  IF thunk.op \in {"constant", "mismatch"} THEN [val |-> thunk.fresh, mem |-> m]
  ELSE Run(thunk.op, thunk.f, x, m, thunk.fresh)

-----------------------------------------------------------------------------
(* Decoding: the frame on top of the recursor runs.                        *)

Decoding(st) ==
  /\ ctl = "running" /\ outcome = "run" /\ stack # <<>>
  /\ Top.st = st

\* decode_operand panics without the local, decode without an operand for the origin.
HasLocal(fr, o) == o.k = "local" => o.i \in DOMAIN fr.temps
HasLocals == \A o \in ToSet(I.operands) : HasLocal(Top, o)
HasPhis ==
  \A phi \in ToSet(CurrentBlock.phis) :
    Top.origin \in DOMAIN phi.mapping /\ HasLocal(Top, phi.mapping[Top.origin])

AtCode(ops) == Decoding("decode") /\ Top.pc > 0 /\ I.op \in ops /\ HasLocals

\* control is polled.
Poll ==
  /\ ctl = "woken" /\ outcome = "run"
  /\ ctl' = "running"
  /\ UNCHANGED <<prog, code, stack, heap, thunks, blocker, root, mem, allocas, outcome, result>>

\* Thread::new: the parameters become constants, main is called with clones of them.
Start ==
  /\ ctl = "running" /\ root.st = "start"
  /\ LET s == Fold(constant, State, MainParams)
     IN /\ heap' = clone_all(s.heap, s.refs)
        /\ thunks' = s.thunks
        /\ root' = [root EXCEPT !.st = "call", !.deps = s.refs]
        /\ stack' = <<CFrame(Entry, s.refs)>>
  /\ UNCHANGED <<prog, code, blocker, ctl, mem, allocas, outcome, result>>

\* Mutant: each phi is assigned as soon as it is decoded.
DecodePhisInTurn ==
  /\ Decoding("decode") /\ Top.pc = 0 /\ HasPhis
  /\ LET phis == CurrentBlock.phis
         one(acc, k) ==
           LET s == decode_operand([acc.s EXCEPT !.refs = <<>>], [Top EXCEPT !.temps = acc.temps],
                                   phis[k].mapping[Top.origin])
               a == assigned(s.heap, acc.temps, phis[k].dest, s.refs[1])
           IN [s |-> [s EXCEPT !.heap = a.heap], temps |-> a.temps]
         b == Fold(one, [s |-> State, temps |-> Top.temps], [k \in DOMAIN phis |-> k])
     IN /\ Replace([Top EXCEPT !.temps = b.temps, !.pc = 1])
        /\ heap' = b.s.heap /\ thunks' = b.s.thunks
  /\ UNCHANGED <<prog, code, blocker, ctl, root, mem, allocas, outcome, result>>

\* All phis are decoded before any is assigned.
DecodePhis ==
  /\ Decoding("decode") /\ Top.pc = 0 /\ HasPhis
  /\ LET phis == CurrentBlock.phis
         s == decode_operands(State, Top, [k \in DOMAIN phis |-> phis[k].mapping[Top.origin]])
         a == Fold(LAMBDA acc, k : assigned(acc.heap, acc.temps, phis[k].dest, s.refs[k]),
                       [heap |-> s.heap, temps |-> Top.temps], [k \in DOMAIN phis |-> k])
     IN /\ Replace([Top EXCEPT !.temps = a.temps, !.pc = 1])
        /\ heap' = a.heap /\ thunks' = s.thunks
  /\ UNCHANGED <<prog, code, blocker, ctl, root, mem, allocas, outcome, result>>

(***************************************************************************)
(* Compute, Alloca, Load, Store, CmpXchg and AtomicRMW declare one thunk   *)
(* that depends on the operands; the four that access memory reference the *)
(* address a second time.                                                  *)
(***************************************************************************)
DecodeInstr ==
  /\ AtCode({"compute", "alloca", "load", "store", "rmw", "cmpxchg"})
  /\ LET s == decode_operands(State, Top, I.operands)
         addr == IF IsMemory(I.op) THEN <<s.refs[1]>> ELSE <<>>
         t == declare([s EXCEPT !.heap = clone_all(@, addr), !.refs = <<>>],
                      Thunk(I.op, I.f, s.refs, addr, <<>>, BlockBase + allocas))
         a == assigned(t.heap, Top.temps, I.dest, t.refs[1])
     IN /\ Replace([Top EXCEPT !.temps = a.temps, !.pc = @ + 1])
        /\ heap' = a.heap /\ thunks' = t.thunks
  /\ allocas' = IF I.op = "alloca" THEN allocas + 1 ELSE allocas
  /\ UNCHANGED <<prog, code, blocker, ctl, root, mem, outcome, result>>

\* A fence does nothing.
DecodeFence ==
  /\ AtCode({"fence"})
  /\ Replace([Top EXCEPT !.pc = @ + 1])
  /\ UNCHANGED <<prog, code, heap, thunks, blocker, ctl, root, mem, allocas, outcome, result>>

JumpTo(fr, target) == [fr EXCEPT !.origin = fr.block, !.block = target, !.pc = 0, !.st = "decode"]

DecodeBr ==
  /\ AtCode({"br"})
  /\ Replace(JumpTo(Top, I.targets[1]))
  /\ UNCHANGED <<prog, code, heap, thunks, blocker, ctl, root, mem, allocas, outcome, result>>

\* The callee and arguments of a call, or the condition of a branch, are decoded.
DecodeHeld ==
  /\ AtCode({"call", "invoke", "condbr", "switch"})
  /\ LET s == decode_operands(State, Top, I.operands)
     IN /\ Replace([Top EXCEPT !.fn = <<Head(s.refs)>>, !.args = Tail(s.refs),
                               !.st = IF I.op \in {"call", "invoke"} THEN "func" ELSE "cond"])
        /\ heap' = s.heap /\ thunks' = s.thunks
  /\ UNCHANGED <<prog, code, blocker, ctl, root, mem, allocas, outcome, result>>

-----------------------------------------------------------------------------
(* Awaiting.  What the top frame, or the thread when no frame is left,     *)
(* waits for.                                                              *)

NeedsValue(fr) == fr.n <= Len(code[fr.extra[1].v].needs) /\ code[fr.extra[1].v].needs[fr.n]

Awaited ==
  IF stack = <<>> THEN IF root.st = "value" THEN root.out ELSE <<>>
  ELSE CASE Top.st \in {"func", "cond"} -> Top.fn
         [] Top.st = "args" /\ Top.n <= Len(Top.args) /\ NeedsValue(Top) -> <<Top.args[Top.n]>>
         [] Top.st = "cbvalue" -> Top.out
         [] OTHER -> <<>>

\* Poll::Pending: the blocker references the thunk, whose waker wakes this thread.
AwaitPending ==
  /\ ctl = "running" /\ outcome = "run"
  /\ Awaited # <<>> /\ ~Ready(Awaited[1])
  /\ ctl' = "waiting"
  /\ heap' = drop_all(clone(heap, Awaited[1]), blocker)
  /\ blocker' = Awaited
  /\ UNCHANGED <<prog, code, stack, thunks, root, mem, allocas, outcome, result>>

\* Poll::Ready clears the blocker.
Got(st) == Decoding(st) /\ Awaited # <<>> /\ Ready(Awaited[1])
Unblocked == drop_all(heap, blocker)

Branch ==
  /\ Got("cond")
  /\ LET x == Val(Top.fn[1])
         which == IF I.op = "condbr" THEN IF x # 0 THEN 1 ELSE 2
                  ELSE IF x \in ToSet(I.cases) THEN CHOOSE i \in DOMAIN I.cases : I.cases[i] = x
                       ELSE Len(I.targets)
     IN Replace(JumpTo([Top EXCEPT !.fn = <<>>], I.targets[which]))
  /\ heap' = drop_all(Unblocked, Top.fn) /\ blocker' = <<>>
  /\ UNCHANGED <<prog, code, thunks, ctl, root, mem, allocas, outcome, result>>

\* A call drops the callee's thunk once it has its value; an invoke keeps it.
AfterLookup(h) == IF I.op = "call" THEN drop_all(h, Top.fn) ELSE h
Looked(fr) == IF I.op = "call" THEN [fr EXCEPT !.fn = <<>>] ELSE fr
FnAddr == Val(Top.fn[1])

\* A compiled function: its frame is pushed, with clones of the arguments.
CallFunction ==
  /\ Got("func") /\ FnAddr \in DOMAIN code
  /\ code[FnAddr].kind = "c" /\ Len(code[FnAddr].args) = Len(Top.args)
  /\ heap' = clone_all(AfterLookup(Unblocked), Top.args) /\ blocker' = <<>>
  /\ stack' = Below \o <<[Looked(Top) EXCEPT !.st = "call"], CFrame(FnAddr, Top.args)>>
  /\ UNCHANGED <<prog, code, thunks, ctl, root, mem, allocas, outcome, result>>

\* I::from_thunks inside the closure panics when an argument is missing.
CompOp(fn, args) == IF Len(args) < Len(fn.needs) THEN "mismatch" ELSE "compute"

\* native_comp: one thunk, which depends on the arguments and captures them.
CallComp ==
  /\ Got("func") /\ FnAddr \in DOMAIN code
  /\ code[FnAddr].kind = "comp"
  /\ LET h == clone_all(clone_all(AfterLookup(Unblocked), Top.args), Top.args)
         s == declare([State EXCEPT !.heap = h],
                      Thunk(CompOp(code[FnAddr], Top.args), code[FnAddr].f, Top.args, <<>>,
                            Top.args, 0))
     IN /\ heap' = s.heap /\ thunks' = s.thunks
        /\ Replace([Looked(Top) EXCEPT !.st = "take", !.out = s.refs])
  /\ blocker' = <<>>
  /\ UNCHANGED <<prog, code, ctl, root, mem, allocas, outcome, result>>

\* native_fn: its arguments are taken one by one (extra names the function meanwhile).
CallNative ==
  /\ Got("func") /\ FnAddr \in DOMAIN code
  /\ code[FnAddr].kind \in {"fn", "raise", "backtrace"}
  /\ heap' = AfterLookup(Unblocked) /\ blocker' = <<>>
  /\ Replace([Looked(Top) EXCEPT !.st = "args", !.n = 1, !.extra = <<ConstantRef(FnAddr)>>])
  /\ UNCHANGED <<prog, code, thunks, ctl, root, mem, allocas, outcome, result>>

NativeFn == code[Top.extra[1].v]

\* from_thunks_impl: the next argument, awaited when the parameter's type needs it.
NextArg ==
  /\ Decoding("args") /\ Top.n <= Len(Top.args) /\ Top.n <= Len(NativeFn.needs)
  /\ NeedsValue(Top) => Ready(Top.args[Top.n])
  /\ Replace([Top EXCEPT !.n = @ + 1])
  /\ IF NeedsValue(Top) THEN heap' = Unblocked /\ blocker' = <<>> ELSE UNCHANGED <<heap, blocker>>
  /\ UNCHANGED <<prog, code, thunks, ctl, root, mem, allocas, outcome, result>>

HasArgs(kind) ==
  /\ Decoding("args") /\ NativeFn.kind = kind
  /\ Top.n = Len(Top.args) + 1 /\ Len(Top.args) = Len(NativeFn.needs)

\* The value a native function returns becomes a constant.
NativeReturn ==
  /\ HasArgs("fn")
  /\ LET s == constant(State, Apply(NativeFn.f, [k \in DOMAIN Top.args |-> Val(Top.args[k])]))
     IN /\ heap' = s.heap /\ thunks' = s.thunks
        /\ Replace([Top EXCEPT !.st = "take", !.out = s.refs, !.extra = <<>>])
  /\ UNCHANGED <<prog, code, blocker, ctl, root, mem, allocas, outcome, result>>

\* _Unwind_RaiseException: Err(Panic).
NativeRaise ==
  /\ HasArgs("raise")
  /\ Replace([Top EXCEPT !.st = "err", !.extra = <<>>])
  /\ UNCHANGED <<prog, code, heap, thunks, blocker, ctl, root, mem, allocas, outcome, result>>

\* _Unwind_Backtrace begins its loop over the frames.
NativeLoop ==
  /\ HasArgs("backtrace")
  /\ Replace([Top EXCEPT !.st = "loop", !.n = 0, !.extra = <<>>])
  /\ UNCHANGED <<prog, code, heap, thunks, blocker, ctl, root, mem, allocas, outcome, result>>

\* FlowCtx::invoke: the arguments become constants, the callback gets clones.
LoopCall ==
  /\ Decoding("loop") /\ Top.n < Len(stack)
  /\ LET f == Val(Top.args[1])
         s == Fold(constant, State, <<stack[Len(stack) - Top.n].fun + 1, Val(Top.args[2])>>)
     IN /\ f \in DOMAIN code /\ code[f].kind = "c" /\ Len(code[f].args) = 2
        /\ heap' = clone_all(s.heap, s.refs) /\ thunks' = s.thunks
        /\ stack' = Below \o <<[Top EXCEPT !.st = "callback", !.extra = s.refs], CFrame(f, s.refs)>>
  /\ UNCHANGED <<prog, code, blocker, ctl, root, mem, allocas, outcome, result>>

\* The callback's value has been awaited and is not used.
LoopNext ==
  /\ Got("cbvalue")
  /\ heap' = drop_all(Unblocked, Top.out \o Top.extra) /\ blocker' = <<>>
  /\ Replace([Top EXCEPT !.st = "loop", !.out = <<>>, !.extra = <<>>])
  /\ UNCHANGED <<prog, code, thunks, ctl, root, mem, allocas, outcome, result>>

LoopDone ==
  /\ Decoding("loop") /\ Top.n = Len(stack)
  /\ LET s == constant(State, 0)
     IN /\ heap' = s.heap /\ thunks' = s.thunks
        /\ Replace([Top EXCEPT !.st = "take", !.n = 0, !.out = s.refs])
  /\ UNCHANGED <<prog, code, blocker, ctl, root, mem, allocas, outcome, result>>

-----------------------------------------------------------------------------
(* Returning.  A frame that is done leaves its output for the frame below, *)
(* which the recursor polls next.                                          *)

Delivered(fr, out) ==
  IF fr.st = "callback" THEN [fr EXCEPT !.st = "cbvalue", !.out = out, !.n = @ + 1]
  ELSE [fr EXCEPT !.st = "take", !.out = out]

\* The locals of a frame, which go with it.
TempRefs(fr) == Fold(LAMBDA acc, i : acc \o Old(fr.temps, i), <<>>,
                     [i \in DOMAIN code[fr.fun].locals |-> i - 1])

DecodeRet ==
  /\ AtCode({"ret"})
  /\ LET s == decode_operands(State, Top, I.operands)
     IN /\ heap' = drop_all(s.heap, TempRefs(Top)) /\ thunks' = s.thunks
        /\ IF Below = <<>>
           THEN stack' = <<>> /\ root' = [root EXCEPT !.st = "value", !.out = s.refs]
           ELSE /\ stack' = Append(Front(Below), Delivered(Last(Below), s.refs))
                /\ UNCHANGED root
  /\ UNCHANGED <<prog, code, blocker, ctl, mem, allocas, outcome, result>>

\* The result of a call is assigned; callee and arguments are dropped.
Take ==
  /\ Decoding("take")
  /\ LET a == assigned(heap, Top.temps, I.dest, Top.out[1])
         fr == [Top EXCEPT !.temps = a.temps, !.st = "decode", !.fn = <<>>, !.args = <<>>,
                           !.n = 0, !.out = <<>>]
     IN /\ heap' = drop_all(a.heap, Top.fn \o Top.args)
        /\ Replace(IF I.op = "invoke" THEN JumpTo(fr, I.targets[1]) ELSE [fr EXCEPT !.pc = @ + 1])
  /\ UNCHANGED <<prog, code, thunks, blocker, ctl, root, mem, allocas, outcome, result>>

\* Err(Panic) leaves the frame through `?`; an invoke does not catch it.
Unwind ==
  /\ Decoding("err")
  /\ heap' = drop_all(heap, Top.fn \o Top.args \o Top.extra \o TempRefs(Top))
  /\ stack' = IF Below = <<>> THEN <<>> ELSE Append(Front(Below), [Last(Below) EXCEPT !.st = "err"])
  /\ root' = IF Below = <<>> THEN [root EXCEPT !.st = "err"] ELSE root
  /\ UNCHANGED <<prog, code, thunks, blocker, ctl, mem, allocas, outcome, result>>

\* main.await.unwrap() on an error.
UnwrapPanics ==
  /\ ctl = "running" /\ root.st = "err" /\ outcome = "run"
  /\ outcome' = "panic" /\ ctl' = "done"
  /\ UNCHANGED <<prog, code, stack, heap, thunks, blocker, root, mem, allocas, result>>

\* The result's value is sent to whoever joins; control's locals are dropped.
Finish ==
  /\ ctl = "running" /\ stack = <<>> /\ root.st = "value" /\ Ready(root.out[1])
  /\ result' = Val(root.out[1]) /\ outcome' = "ok" /\ ctl' = "done"
  /\ heap' = drop_all(Unblocked, root.out \o root.deps) /\ blocker' = <<>>
  /\ root' = [st |-> "done", deps |-> <<>>, out |-> <<>>]
  /\ UNCHANGED <<prog, code, stack, thunks, mem, allocas>>

(***************************************************************************)
(* The panics of the decoder: Unreachable, Freeze, "No local", no operand  *)
(* of a phi for the origin, no function at the address, zip_eq on a wrong  *)
(* number of arguments, "Argument mismatch" and a native function that is  *)
(* only a name.  A computed native panics later, when it is stepped.       *)
(***************************************************************************)
Panics ==
  \/ AtCode({"unreachable", "freeze"})
  \/ Decoding("decode") /\ Top.pc > 0 /\ ~HasLocals
  \/ Decoding("decode") /\ Top.pc = 0 /\ ~HasPhis
  \/ /\ Got("func")
     /\ \/ FnAddr \notin DOMAIN code
        \/ /\ FnAddr \in DOMAIN code
           /\ \/ code[FnAddr].kind = "bomb"
              \/ code[FnAddr].kind = "c" /\ Len(code[FnAddr].args) # Len(Top.args)
  \/ /\ Decoding("args")
     /\ \/ Top.n <= Len(Top.args) /\ Top.n > Len(NativeFn.needs)
        \/ Top.n = Len(Top.args) + 1 /\ Len(Top.args) < Len(NativeFn.needs)

Crash ==
  /\ Panics
  /\ outcome' = "crash" /\ ctl' = "done"
  /\ UNCHANGED <<prog, code, stack, heap, thunks, blocker, root, mem, allocas, result>>

-----------------------------------------------------------------------------
(* step_pure: one pass over the pipeline, oldest thunk first, when control *)
(* is suspended or done.                                                   *)

Pending(c) == ~heap.cells[c].value.ready
ReadyIn(h, ref) == IF ref.cell = 0 THEN TRUE ELSE h.cells[ref.cell].value.ready
ValIn(h, ref) == IF ref.cell = 0 THEN ref.v ELSE h.cells[ref.cell].value.val

\* Thunk::step: nothing unless every dependency is ready; the closure, and
\* what it captured, is consumed.
step(p, c) ==
  LET thunk == p.heap.cells[c].value
      r == Run1(thunk, [d \in DOMAIN thunk.deps |-> ValIn(p.heap, thunk.deps[d])], p.mem)
      done == [thunk EXCEPT !.ready = TRUE, !.val = r.val, !.caps = <<>>]
  IN IF thunk.ready \/ \E d \in DOMAIN thunk.deps : ~ReadyIn(p.heap, thunk.deps[d]) THEN p
     ELSE [p EXCEPT !.heap = drop_all([@ EXCEPT !.cells[c].value = done], thunk.caps),
                    !.mem = r.mem]

(***************************************************************************)
(* p = [heap, mem, pending, stop]: an access whose address is unknown ends *)
(* the pass, one whose address was met earlier in the pass is left alone.  *)
(***************************************************************************)
scan(p, c) ==
  LET thunk == p.heap.cells[c].value
      addr == ValIn(p.heap, thunk.addr[1])
  IN CASE p.stop -> p
       [] ~p.stop /\ ~IsMemory(thunk.op) -> step(p, c)
       [] ~p.stop /\ IsMemory(thunk.op) /\ ~ReadyIn(p.heap, thunk.addr[1]) ->
            [p EXCEPT !.stop = TRUE]
       [] OTHER -> IF addr \in p.pending THEN p
                   ELSE step([p EXCEPT !.pending = @ \cup {addr}], c)

\* One pass: the thunks that were ready are taken off, the others are scanned in order.
Pass ==
  LET pending == {c \in ToSet(thunks) : Pending(c)}
      gone == Keep(thunks, ToSet(thunks) \ pending)
      kept == Keep(thunks, pending)
      h == drop_all(heap, [k \in DOMAIN gone |-> Ref(gone[k])])
      p == Fold(scan, [heap |-> h, mem |-> mem, pending |-> {}, stop |-> FALSE], kept)
  IN [thunks |-> kept, heap |-> p.heap, mem |-> p.mem]

CanStep == ctl # "running" /\ outcome \in {"run", "ok"} /\ thunks # <<>>

\* The pass p ran the closure of a computed native that lacks an argument.
RanMismatch(p) ==
  \E c \in ToSet(p.thunks) :
    p.heap.cells[c].value.op = "mismatch" /\ p.heap.cells[c].value.ready

\* Mutant: the thunk's wakers are not called.
StepPureSilently ==
  /\ CanStep
  /\ \E p \in {Pass} :
        /\ p.heap # heap /\ ~RanMismatch(p)
        /\ thunks' = p.thunks /\ heap' = p.heap /\ mem' = p.mem
  /\ UNCHANGED <<prog, code, stack, blocker, root, allocas, outcome, result, ctl>>

StepPure ==
  /\ CanStep
  /\ \E p \in {Pass} :
        /\ p.heap # heap /\ ~RanMismatch(p)
        /\ thunks' = p.thunks /\ heap' = p.heap /\ mem' = p.mem
        /\ ctl' = IF ctl = "waiting" /\ ReadyIn(p.heap, blocker[1]) THEN "woken" ELSE ctl
  /\ UNCHANGED <<prog, code, stack, blocker, root, allocas, outcome, result>>

\* The panic leaves step_pure; what the pass did before it nobody sees.
StepPanics ==
  /\ CanStep /\ \E p \in {Pass} : RanMismatch(p)
  /\ outcome' = "crash" /\ ctl' = "done"
  /\ UNCHANGED <<prog, code, stack, heap, thunks, blocker, root, mem, allocas, result>>

Control ==
  Poll \/ Start \/ DecodePhis \/ DecodeInstr \/ DecodeFence \/ DecodeBr \/ DecodeHeld
    \/ AwaitPending \/ Branch \/ CallFunction \/ CallComp \/ CallNative \/ NextArg
    \/ NativeReturn \/ NativeRaise \/ NativeLoop \/ LoopCall \/ LoopNext \/ LoopDone
    \/ DecodeRet \/ Take \/ Unwind \/ UnwrapPanics \/ Finish \/ Crash

Next == Control \/ StepPure \/ StepPanics

\* Process::step polls what is woken and steps what can step, until the thread is reaped.
Spec == Init /\ [][Next]_vars /\ WF_vars(Control) /\ WF_vars(StepPure \/ StepPanics)

-----------------------------------------------------------------------------
(* Properties.                                                             *)

Cells == DOMAIN heap.cells
Refs == [cell : Nat, v : Int]

\* Frames, references and the pipeline have their types; free cells are distinct.
InterpTypeOK ==
  /\ ctl \in {"running", "waiting", "woken", "done"}
  /\ outcome \in {"run", "ok", "panic", "crash"}
  /\ ToSet(thunks) \subseteq Cells
  /\ ToSet(heap.free) \subseteq Cells /\ IsInjective(heap.free) /\ IsInjective(thunks)
  /\ \A k \in DOMAIN stack :
       /\ \A i \in DOMAIN stack[k].temps : stack[k].temps[i].cell \in Cells \cup {0}
       /\ k < Len(stack) => stack[k].st \in {"call", "callback"}

\* Every reference there is: in frames, in the pipeline, in the thread and in cells.
AllRefs ==
  Fold(LAMBDA acc, fr : acc \o TempRefs(fr) \o fr.fn \o fr.args \o fr.extra \o fr.out, <<>>, stack)
  \o Fold(LAMBDA acc, c : acc \o Holds(c.value), <<>>, heap.cells)
  \o [k \in DOMAIN thunks |-> Ref(thunks[k])]
  \o blocker \o root.deps \o root.out

(***************************************************************************)
(* Reference counts are exact: a free cell is referenced by nobody, and    *)
(* any other cell has one reference more than its count.  So no frame,     *)
(* thunk or blocker is left holding a cell that alloc may overwrite, and   *)
(* no cell is lost (freelist.rs:60-80 does this with raw pointers).        *)
(***************************************************************************)
RefsCounted ==
  \A c \in Cells :
    Cardinality({k \in DOMAIN AllRefs : AllRefs[k].cell = c})
      = IF c \in ToSet(heap.free) THEN 0 ELSE heap.cells[c].refcount + 1

RefVal(vals, ref) == IF ref.cell = 0 THEN ref.v ELSE vals[ref.cell]

\* The pipeline resolved in program order.
Flushed ==
  Fold(LAMBDA acc, c :
             LET thunk == heap.cells[c].value
                 r == Run1(thunk, [d \in DOMAIN thunk.deps |-> RefVal(acc.vals, thunk.deps[d])], acc.mem)
             IN IF thunk.ready THEN acc
                ELSE [mem |-> r.mem, vals |-> [acc.vals EXCEPT ![c] = r.val]],
           [mem |-> mem, vals |-> [c \in Cells |-> heap.cells[c].value.val]], thunks)

NameOf(fr, i) == code[fr.fun].locals[i + 1]
BlockName(fr, b) == IF b = NoLocal THEN None ELSE prog[fr.fun].blocks[b + 1].name

\* A frame by its names, a result that is delivered counting as assigned.
Named(fr, vals) ==
  LET instr == code[fr.fun].blocks[fr.block + 1].code[fr.pc]
      env == [x \in {NameOf(fr, i) : i \in DOMAIN fr.temps} |->
                RefVal(vals, fr.temps[Position(code[fr.fun].locals, x)])]
      plain == [fun |-> fr.fun, block |-> BlockName(fr, fr.block), origin |-> BlockName(fr, fr.origin),
                pc |-> fr.pc, env |-> env,
                n |-> IF fr.st \in {"loop", "callback", "cbvalue"} THEN fr.n ELSE 0]
      out == RefVal(vals, fr.out[1])
      after == IF instr.dest = NoLocal THEN plain
               ELSE [plain EXCEPT !.env = (NameOf(fr, instr.dest) :> out) @@ @]
  IN IF fr.st # "take" THEN plain
     ELSE IF instr.op = "invoke"
          THEN [after EXCEPT !.origin = plain.block, !.block = BlockName(fr, instr.targets[1]), !.pc = 0]
          ELSE [after EXCEPT !.pc = @ + 1]

Unwinding == root.st = "err" \/ (stack # <<>> /\ Top.st = "err")

FirstFrame ==
  LET params == prog[Entry].params
  IN [fun |-> Entry, block |-> prog[Entry].blocks[1].name, origin |-> None, pc |-> 0, n |-> 0,
      env |-> [x \in ToSet(params) |-> 0]]

\* The panic of a computed native is due from the moment its thunk is declared.
Crashing ==
  \/ outcome = "crash"
  \/ \E c \in ToSet(thunks) : Pending(c) /\ heap.cells[c].value.op = "mismatch"

Source ==
  INSTANCE SSA WITH
    calls <- IF Crashing \/ Unwinding THEN <<>>
             ELSE IF root.st = "start" THEN <<FirstFrame>>
             ELSE [k \in DOMAIN stack |-> Named(stack[k], Flushed.vals)],
    mem <- IF Crashing THEN <<>> ELSE Flushed.mem,
    outcome <- IF Crashing THEN "crash" ELSE IF Unwinding THEN "panic"
               ELSE IF root.st = "value" THEN "ok" ELSE outcome,
    result <- IF Crashing THEN 0
              ELSE IF root.st = "value" THEN RefVal(Flushed.vals, root.out[1]) ELSE result

(***************************************************************************)
(* Decoding ahead of the values, numbering the locals and resolving thunks *)
(* out of order (data.rs:278-330) are invisible: with the pipeline taken   *)
(* as flushed, the thread runs its functions as SSA says, and it panics    *)
(* where SSA crashes, at once or when a computed native is stepped.        *)
(***************************************************************************)
ImplementsSSA == Source!Spec

(***************************************************************************)
(* A thread whose functions terminate ends: no call is left waiting for a  *)
(* frame or a thunk nobody will run (recursor.rs:84-106, data.rs:381-395). *)
(***************************************************************************)
Returns == <>(outcome # "run")
=============================================================================
