------------------------------- MODULE Linker -------------------------------
(***************************************************************************)
(* Loading a program: symbols.rs, definition.rs, Compiler::compile_modules *)
(* (compile/module.rs), Process::add_native and add_main, and the two      *)
(* things that are left until the program runs: compiling a function       *)
(* (util/lazy.rs) and allocating a thread-local (thread.rs).               *)
(*                                                                         *)
(* A module has functions, global variables and aliases.  Of a function    *)
(* only the names it mentions matter here, of a constant only whether it   *)
(* is a number or a name, and every object takes one address (module       *)
(* Memory has the layouts).                                                *)
(***************************************************************************)
EXTENDS Integers, Sequences, FiniteSets, SequencesExt, SeqFold

CONSTANTS
  Programs,   \* sequences of modules
  Natives,    \* the names native::builtins() defines, in order
  Threads,
  Words,      \* what a running program stores
  MaxOps      \* the operations of the running program

VARIABLES
  prog,
  work,         \* what main() still does before the first step
  status,       \* load, run, or panic
  forward, reverse, next_thread_local_key,   \* SymbolTableInner
  functions, thread_local_inits,             \* DefinitionsInner
  next, mem,                                 \* Memory
  locs,         \* func_inits and global_inits: the definition of each object
  thread_locals,
  got,          \* the pointer each thread computed last, and the variable it means
  meant,        \* history: the value each variable has in the source program
  ops

table == <<forward, reverse, next_thread_local_key>>
loaded == <<prog, work, status, table, thread_local_inits, locs>>
vars == <<loaded, functions, next, mem, thread_locals, got, meant, ops>>

Explode == "explode"
NoModule == 0

Func(name, linkage, refs) == [name |-> name, linkage |-> linkage, refs |-> refs]
Global(name, linkage, tl, init) == [name |-> name, linkage |-> linkage, tl |-> tl, init |-> init]
Alias(name, linkage, target) == [name |-> name, linkage |-> linkage, target |-> target]
Module(funcs, globals, aliases) == [funcs |-> funcs, globals |-> globals, aliases |-> aliases]
Num(n) == [c |-> "num", n |-> n]
NameOf(name) == [c |-> "name", name |-> name]
Declared == [c |-> "none"]      \* a global without initializer

\* What llvm_ir hands to the compiler, and that native::builtins() has explode.
Constants == [c : {"num"}, n : Int] \cup [c : {"name"}, name : STRING] \cup {Declared}
Modules ==
  [funcs : Seq([name : STRING, linkage : STRING, refs : Seq(STRING)]),
   globals : Seq([name : STRING, linkage : STRING, tl : BOOLEAN, init : Constants]),
   aliases : Seq([name : STRING, linkage : STRING, target : STRING])]
ASSUME LinkerAssumption ==
  /\ Programs \subseteq Seq(Modules)
  /\ Natives \in Seq(STRING) /\ Explode \in Range(Natives)
  /\ MaxOps \in Nat

\* Symbol::new; other linkages are todo!().
Linkages == {"external", "internal"}
External(name) == [k |-> "external", m |-> NoModule, name |-> name]
Symbol(linkage, m, name) ==
  IF linkage = "internal" THEN [k |-> "internal", m |-> m, name |-> name] ELSE External(name)

Address(a) == [k |-> "global", v |-> a]
Key(n) == [k |-> "tls", v |-> n]

With(f, x, v) == [y \in DOMAIN f \cup {x} |-> IF y = x THEN v ELSE f[y]]
Empty == [x \in {} |-> 0]

\* The order of main(): builtins, then functions and globals module by module,
\* then all aliases, then function definitions and initial values, then main.
Each(kind, m, s) == [i \in DOMAIN s |-> [k |-> kind, m |-> m, i |-> i]]
Declarations(p) ==
  Each("native", NoModule, Natives)
  \o FlattenSeq([m \in DOMAIN p |-> Each("func", m, p[m].funcs) \o Each("global", m, p[m].globals)])
Aliases(p) == FlattenSeq([m \in DOMAIN p |-> Each("alias", m, p[m].aliases)])
Definitions(p) ==
  FlattenSeq([m \in DOMAIN p |-> Each("define", m, p[m].funcs)])
  \o FlattenSeq([m \in DOMAIN p |-> Each("init", m, p[m].globals)])
\* Mutant of Work: each module's aliases are added with its other symbols.
WorkByModule(p) ==
  Each("native", NoModule, Natives)
  \o FlattenSeq([m \in DOMAIN p |-> Each("func", m, p[m].funcs) \o Each("global", m, p[m].globals)
                                    \o Each("alias", m, p[m].aliases)])
  \o Definitions(p) \o <<[k |-> "main", m |-> NoModule, i |-> 1]>>

Work(p) ==
  Declarations(p) \o Aliases(p) \o Definitions(p) \o <<[k |-> "main", m |-> NoModule, i |-> 1]>>

Init ==
  /\ prog \in Programs /\ work = Work(prog) /\ status = "load"
  /\ forward = Empty /\ reverse = Empty /\ next_thread_local_key = 0
  /\ functions = Empty /\ thread_local_inits = Empty
  /\ next = 1 /\ mem = Empty /\ locs = Empty
  /\ thread_locals = [t \in Threads |-> Empty] /\ got = [t \in Threads |-> <<>>]
  /\ meant = Empty /\ ops = 0

-----------------------------------------------------------------------------
(* SymbolTable.                                                            *)

lookup(m, name) ==
  IF m # NoModule /\ Symbol("internal", m, name) \in DOMAIN forward
  THEN forward[Symbol("internal", m, name)]
  ELSE IF External(name) \in DOMAIN forward THEN forward[External(name)]
  ELSE forward[External(Explode)]

\* compile_const: a number, the address of a global, or a thread-local's key.
compile_const(m, c) == IF c.c = "num" THEN [k |-> "num", v |-> c.n] ELSE lookup(m, c.name)
as_const(x) == x.k # "tls"

Item(kind) == status = "load" /\ work # <<>> /\ Head(work).k = kind
It == Head(work)
\* A failed assertion, unwrap() or todo!() while loading.
Panic == /\ status' = "panic"
         /\ UNCHANGED <<prog, work, table, functions, thread_local_inits, next, mem, locs,
                        thread_locals, got, meant, ops>>
Done == work' = Tail(work) /\ UNCHANGED <<prog, status, thread_locals, got, ops>>

\* Process::add_symbol and add_global: a new object for the symbol.
AddGlobal(sym) ==
  /\ forward' = With(forward, sym, Address(next))
  /\ reverse' = With(reverse, next, sym)
  /\ next' = next + 1 /\ UNCHANGED next_thread_local_key

\* add_thread_local
AddThreadLocal(sym) ==
  /\ forward' = With(forward, sym, Key(next_thread_local_key))
  /\ next_thread_local_key' = next_thread_local_key + 1 /\ UNCHANGED <<reverse, next>>

AddNative ==
  /\ Item("native")
  /\ LET sym == External(Natives[It.i])
     IN IF sym \in DOMAIN forward THEN Panic
        ELSE /\ AddGlobal(sym) /\ Done
             /\ functions' = With(functions, next, [lazy |-> FALSE, it |-> It, refs |-> <<>>])
             /\ locs' = With(locs, It, Address(next))
             /\ UNCHANGED <<thread_local_inits, mem, meant>>

DeclareFunc ==
  /\ Item("func")
  /\ LET f == prog[It.m].funcs[It.i]
         sym == Symbol(f.linkage, It.m, f.name)
     IN IF f.linkage \notin Linkages \/ sym \in DOMAIN forward THEN Panic
        ELSE /\ AddGlobal(sym) /\ Done
             /\ locs' = With(locs, It, Address(next))
             /\ UNCHANGED <<functions, thread_local_inits, mem, meant>>

DeclareGlobal ==
  /\ Item("global")
  /\ LET g == prog[It.m].globals[It.i]
         sym == Symbol(g.linkage, It.m, g.name)
     IN IF g.init = Declared
        THEN Done /\ UNCHANGED <<table, functions, thread_local_inits, next, mem, locs, meant>>
        ELSE IF g.linkage \notin Linkages \/ sym \in DOMAIN forward THEN Panic
        ELSE /\ IF g.tl THEN AddThreadLocal(sym) ELSE AddGlobal(sym)
             /\ locs' = With(locs, It, forward'[sym]) /\ Done
             /\ UNCHANGED <<functions, thread_local_inits, mem, meant>>

\* Mutant of AddAlias: a symbol that is defined already is defined again.
AddAliasAnyway ==
  /\ Item("alias")
  /\ LET a == prog[It.m].aliases[It.i]
         target == lookup(It.m, a.target)
     IN IF a.linkage \notin Linkages \/ ~as_const(target) THEN Panic
        ELSE /\ forward' = With(forward, Symbol(a.linkage, It.m, a.name), target) /\ Done
             /\ UNCHANGED <<reverse, next_thread_local_key, functions, thread_local_inits,
                            next, mem, locs, meant>>

\* lookup finds what the table has by now: an alias of a later alias gets explode.
AddAlias ==
  /\ Item("alias")
  /\ LET a == prog[It.m].aliases[It.i]
         sym == Symbol(a.linkage, It.m, a.name)
         target == lookup(It.m, a.target)
     IN IF \/ a.linkage \notin Linkages
           \/ ~as_const(target)
           \/ sym \in DOMAIN forward /\ forward[sym] # target
        THEN Panic
        ELSE /\ forward' = With(forward, sym, target) /\ Done
             /\ UNCHANGED <<reverse, next_thread_local_key, functions, thread_local_inits,
                            next, mem, locs, meant>>

\* add_func, with the compilation of the function left to its first call.
DefineFunc ==
  /\ Item("define") /\ Done
  /\ functions' = With(functions, locs[[It EXCEPT !.k = "func"]].v,
                       [lazy |-> TRUE, it |-> It, refs |-> <<>>])
  /\ UNCHANGED <<table, thread_local_inits, next, mem, locs, meant>>

-----------------------------------------------------------------------------
(* What names mean, by the rules of linkage: the object of the module      *)
(* itself, else the object any module exports, an alias meaning what its   *)
(* target means, wherever in the program either of them is defined.        *)

AliasAt(p, k) == p[Aliases(p)[k].m].aliases[Aliases(p)[k].i]

Objects(p) ==
  {x \in ToSet(Declarations(p)) : x.k = "global" => p[x.m].globals[x.i].init # Declared}

Source(p, x) == IF x.k = "func" THEN p[x.m].funcs[x.i]
                ELSE IF x.k = "global" THEN p[x.m].globals[x.i]
                ELSE [name |-> Natives[x.i], linkage |-> "external", tl |-> FALSE]
ObjectSym(p, x) == Symbol(Source(p, x).linkage, x.m, Source(p, x).name)
AliasSym(p, k) == Symbol(AliasAt(p, k).linkage, Aliases(p)[k].m, AliasAt(p, k).name)
Named(x, m, name, linkage) ==
  x.name = name /\ x.linkage = linkage /\ (linkage = "internal" => m)

\* Objects and numbers of aliases called name in m, or exported under it.
ObjectsNamed(p, m, name, linkage) ==
  {x \in Objects(p) : Named(Source(p, x), x.m = m, name, linkage)}
AliasesNamed(p, m, name, linkage) ==
  {k \in DOMAIN Aliases(p) : Named(AliasAt(p, k), Aliases(p)[k].m = m, name, linkage)}

ExplodeObject(p) == CHOOSE x \in Objects(p) : x.k = "native" /\ Natives[x.i] = Explode

\* What a name denotes if the aliases denote targets.
Denote(p, m, name, targets) ==
  LET any(linkage) == \/ ObjectsNamed(p, m, name, linkage) # {}
                      \/ AliasesNamed(p, m, name, linkage) # {}
      pick(linkage) == IF ObjectsNamed(p, m, name, linkage) # {}
                       THEN CHOOSE x \in ObjectsNamed(p, m, name, linkage) : TRUE
                       ELSE targets[Min(AliasesNamed(p, m, name, linkage))]
  IN IF any("internal") THEN pick("internal")
     ELSE IF any("external") THEN pick("external")
     ELSE ExplodeObject(p)

\* What the aliases denote.  Each round follows them one alias further, so that
\* as many rounds as there are aliases end every chain; LLVM rejects cycles.
Follow(p, targets) ==
  [k \in DOMAIN Aliases(p) |-> Denote(p, Aliases(p)[k].m, AliasAt(p, k).target, targets)]
Targets(p) ==
  Fold(LAMBDA targets, a : Follow(p, targets),
       [k \in DOMAIN Aliases(p) |-> ExplodeObject(p)], Aliases(p))

Meaning(p, m, name) == Denote(p, m, name, Targets(p))

\* The aliases that the target of alias k names: none if it names an object.
Via(p, k) ==
  LET objects(linkage) == ObjectsNamed(p, Aliases(p)[k].m, AliasAt(p, k).target, linkage)
      aliases(linkage) == AliasesNamed(p, Aliases(p)[k].m, AliasAt(p, k).target, linkage)
  IN IF objects("internal") # {} THEN {}
     ELSE IF aliases("internal") # {} THEN aliases("internal")
     ELSE IF objects("external") # {} THEN {}
     ELSE aliases("external")

\* No alias has its target among the aliases after it.
InOrder(p) == \A k \in DOMAIN Aliases(p) : Via(p, k) # {} => Min(Via(p, k)) < k

ThreadLocal(p, x) == x.k = "global" /\ Source(p, x).tl

\* A variable is a global, or a thread's own copy of a thread-local.
Variable(t, x) == IF ThreadLocal(prog, x) THEN <<x, t>> ELSE <<x>>

-----------------------------------------------------------------------------

Initial(p, m, c) == IF c.c = "num" THEN c.n ELSE locs[Meaning(p, m, c.name)].v

\* The last pass: a global's memory is written, a thread-local's value is kept.
InitGlobal ==
  /\ Item("init")
  /\ LET g == prog[It.m].globals[It.i]
         x == [It EXCEPT !.k = "global"]
         init == compile_const(It.m, g.init)
         start == Initial(prog, It.m, g.init)
     IN IF g.init = Declared
        THEN Done /\ UNCHANGED <<table, functions, thread_local_inits, next, mem, locs, meant>>
        ELSE IF ~as_const(init) THEN Panic
        ELSE /\ IF g.tl
                THEN /\ thread_local_inits' = With(thread_local_inits, locs[x].v, init.v)
                     /\ meant' = [v \in DOMAIN meant \cup {<<x, t>> : t \in Threads} |->
                                    IF v \in DOMAIN meant THEN meant[v] ELSE start]
                     /\ UNCHANGED mem
                ELSE /\ mem' = With(mem, locs[x].v, init.v)
                     /\ meant' = With(meant, <<x>>, start)
                     /\ UNCHANGED thread_local_inits
             /\ Done /\ UNCHANGED <<table, functions, next, locs>>

\* Mutant of AddMain: any object called main will do.
AddMainUnchecked ==
  /\ Item("main")
  /\ IF External("main") \in DOMAIN forward
     THEN /\ status' = "run" /\ work' = <<>>
          /\ UNCHANGED <<prog, table, functions, thread_local_inits, next, mem, locs,
                         thread_locals, got, meant, ops>>
     ELSE Panic

\* add_main: the symbol must be a function that is defined.
AddMain ==
  /\ Item("main")
  /\ IF External("main") \in DOMAIN forward /\ as_const(forward[External("main")])
        /\ forward[External("main")].v \in DOMAIN functions
     THEN /\ status' = "run" /\ work' = <<>>
          /\ UNCHANGED <<prog, table, functions, thread_local_inits, next, mem, locs,
                         thread_locals, got, meant, ops>>
     ELSE Panic

Load == \/ AddNative \/ DeclareFunc \/ DeclareGlobal \/ AddAlias \/ DefineFunc \/ InitGlobal
        \/ AddMain

-----------------------------------------------------------------------------
(* The running program.                                                    *)

Running == status = "run" /\ ops < MaxOps /\ ops' = ops + 1

\* A function is compiled when it is called for the first time (Lazy::force).
CallFunc(a) ==
  /\ Running /\ functions[a].lazy
  /\ LET f == functions[a]
         m == f.it.m
         refs == prog[m].funcs[f.it.i].refs
     IN functions' = [functions EXCEPT ![a].lazy = FALSE,
                        ![a].refs = [i \in DOMAIN refs |-> compile_const(m, NameOf(refs[i]))]]
  /\ UNCHANGED <<loaded, next, mem, thread_locals, got, meant>>

\* Mutant of EvaluateThreadLocal: every use makes a new object.
EvaluateThreadLocalAnew(t, a, i) ==
  /\ Running /\ ~as_const(functions[a].refs[i])
  /\ LET key == functions[a].refs[i].v
         m == functions[a].it.m
     IN /\ thread_locals' = [thread_locals EXCEPT ![t] = With(@, key, next)]
        /\ mem' = With(mem, next, thread_local_inits[key])
        /\ next' = next + 1
        /\ got' = [got EXCEPT ![t] = <<thread_locals'[t][key],
                     Variable(t, Meaning(prog, m, prog[m].funcs[functions[a].it.i].refs[i]))>>]
  /\ UNCHANGED <<loaded, functions, meant>>

\* FlowCtx::evaluate of a name in a compiled function; the first use of a
\* thread-local by a thread makes its object.
EvaluateThreadLocal(t, a, i) ==
  /\ Running /\ ~as_const(functions[a].refs[i])
  /\ LET key == functions[a].refs[i].v
         m == functions[a].it.m
     IN /\ IF key \in DOMAIN thread_locals[t] THEN UNCHANGED <<thread_locals, mem, next>>
           ELSE /\ thread_locals' = [thread_locals EXCEPT ![t] = With(@, key, next)]
                /\ mem' = With(mem, next, thread_local_inits[key])
                /\ next' = next + 1
        /\ got' = [got EXCEPT ![t] = <<thread_locals'[t][key],
                     Variable(t, Meaning(prog, m, prog[m].funcs[functions[a].it.i].refs[i]))>>]
  /\ UNCHANGED <<loaded, functions, meant>>

EvaluateGlobal(t, a, i) ==
  /\ Running /\ as_const(functions[a].refs[i])
  /\ LET m == functions[a].it.m
     IN got' = [got EXCEPT ![t] = <<functions[a].refs[i].v,
                  Variable(t, Meaning(prog, m, prog[m].funcs[functions[a].it.i].refs[i]))>>]
  /\ UNCHANGED <<loaded, functions, next, mem, thread_locals, meant>>

\* libc.rs, dlsym: external names only, and only globals.
Dlsym(t, name) ==
  /\ Running /\ as_const(lookup(NoModule, name))
  /\ got' = [got EXCEPT ![t] = <<lookup(NoModule, name).v,
                                 Variable(t, Meaning(prog, NoModule, name))>>]
  /\ UNCHANGED <<loaded, functions, next, mem, thread_locals, meant>>

\* A store through the pointer, if it points to a variable.
Store(t, w) ==
  /\ Running /\ got[t] # <<>> /\ got[t][1] \in DOMAIN mem /\ got[t][2] \in DOMAIN meant
  /\ mem' = [mem EXCEPT ![got[t][1]] = w]
  /\ meant' = [meant EXCEPT ![got[t][2]] = w]
  /\ UNCHANGED <<loaded, functions, next, thread_locals, got>>

Exported == {Source(prog, x).name : x \in Objects(prog)} \cup {a.name : a \in UNION
              {ToSet(prog[m].aliases) : m \in DOMAIN prog}}

Run ==
  \/ \E a \in DOMAIN functions : CallFunc(a)
  \/ \E t \in Threads :
       \/ \E a \in DOMAIN functions : \E i \in DOMAIN functions[a].refs :
            EvaluateThreadLocal(t, a, i) \/ EvaluateGlobal(t, a, i)
       \/ \E name \in Exported : Dlsym(t, name)
       \/ \E w \in Words : Store(t, w)

Next == Load \/ Run

Spec == Init /\ [][Next]_vars

-----------------------------------------------------------------------------

\* The two tables of symbols.rs are inverse to each other up to aliases: an address
\* is named by a symbol that is bound to it, and every function compiled or global
\* bound has a name that reverse_lookup finds.
LinkTypeOK ==
  /\ status \in {"load", "run", "panic"} /\ ops \in 0..MaxOps
  /\ \A sym \in DOMAIN forward : forward[sym].k \in {"global", "tls"}
  /\ \A a \in DOMAIN reverse : a < next /\ forward[reverse[a]] = Address(a)
  /\ \A d \in Range(forward) : d.k = "global" => d.v \in DOMAIN reverse
  /\ DOMAIN functions \subseteq DOMAIN reverse

\* Every name in a compiled function is bound to the object it denotes by the
\* rules of linkage, directly or through aliases of aliases, although lookup only
\* sees what the table has when the compiler asks; to explode when no module
\* defines it.  Programs that alias an alias before it is defined are excluded:
\* the code binds the former to explode without a word.
NamesDenote ==
  InOrder(prog) =>
    \A a \in DOMAIN functions :
      LET f == functions[a]
      IN \A i \in DOMAIN f.refs :
           f.refs[i] = locs[Meaning(prog, f.it.m, prog[f.it.m].funcs[f.it.i].refs[i])]

\* Every variable of the source program has memory of its own, which holds the
\* value last assigned to it or else its initial value: globals from the start
\* of the program, thread-locals in each thread that has used them.  The aliases
\* are in order, as for NamesDenote.
VariablesHold ==
  status = "run" /\ InOrder(prog) =>
    \A v \in DOMAIN meant :
      LET d == locs[v[1]]
      IN IF Len(v) = 1 THEN mem[d.v] = meant[v]
         ELSE IF d.v \in DOMAIN thread_locals[v[2]]
         THEN mem[thread_locals[v[2]][d.v]] = meant[v]
         ELSE meant[v] = thread_local_inits[d.v]

\* What a program must satisfy to be loaded.
WellFormed(p) ==
  LET numbers == DOMAIN Aliases(p)
      target(k) == Targets(p)[k]
  IN /\ \A x \in Objects(p) : Source(p, x).linkage \in Linkages
     /\ \A k \in numbers : AliasAt(p, k).linkage \in Linkages
     /\ \A x, y \in Objects(p) : x # y => ObjectSym(p, x) # ObjectSym(p, y)
     /\ \A k \in numbers : ~ThreadLocal(p, target(k))
     /\ \A k \in numbers : \A x \in Objects(p) : AliasSym(p, k) = ObjectSym(p, x) => target(k) = x
     /\ \A k, j \in numbers : AliasSym(p, k) = AliasSym(p, j) => target(k) = target(j)
     /\ \A x \in Objects(p) : x.k = "global" /\ Source(p, x).init.c = "name" =>
          ~ThreadLocal(p, Meaning(p, x.m, Source(p, x).init.name))
     /\ \/ \E x \in Objects(p) : ObjectSym(p, x) = External("main")
        \/ \E k \in numbers : AliasSym(p, k) = External("main")
     /\ Meaning(p, NoModule, "main").k # "global"

\* The assertions of the symbol table, of compile_modules and of add_main stop
\* exactly the programs that define a symbol twice, have a linkage that is not
\* supported, alias a thread-local, initialise a global with a thread-local's
\* address, or have no main or one that is a variable.  The aliases are in order,
\* as for NamesDenote: what a later alias stands for is not looked at.
PanicsIfIllFormed ==
  InOrder(prog) =>
    (status = "panic" => ~WellFormed(prog)) /\ (status = "run" => WellFormed(prog))
=============================================================================
