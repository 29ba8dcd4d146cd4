------------------------------ MODULE MCInterp ------------------------------
(***************************************************************************)
(* Programs for checking Interp.  Function 1 is main; natives are at 10    *)
(* and above; 99 is no function.                                           *)
(***************************************************************************)
EXTENDS Interp

N(x) == Local(x)
C(v) == Const(v)

Natives ==
  (10 :> Native("comp", "sub", <<TRUE, TRUE>>))
    @@ (11 :> Native("fn", "add", <<TRUE, FALSE>>))
    @@ (12 :> Native("raise", "raise", <<TRUE>>))
    @@ (13 :> Native("backtrace", "backtrace", <<TRUE, TRUE>>))
    @@ (14 :> Native("bomb", "bomb", <<>>))

Main(blocks) == 1 :> Function(<<"argc", "argv">>, blocks)
Entry1(instrs, term) == <<Block("entry", instrs, term)>>

\* Recursion: the same names live in every frame; the function pointer is loaded.
Recursion ==
  Main(Entry1(<<Alloca("p", C(1)), Store(N("p"), C(2)), Load("f", N("p")),
                Call("n", N("f"), <<C(2)>>), Fence>>, Ret(N("n"))))
    @@ (2 :> Function(<<"n">>,
          <<Block("entry", <<Compute("c", "eq", <<N("n"), C(0)>>)>>, CondBr(N("c"), "base", "rec")),
            Block("base", <<>>, Ret(C(1))),
            Block("rec", <<Compute("m", "sub", <<N("n"), C(1)>>),
                           Call("r", C(2), <<N("m")>>),
                           Compute("r", "add", <<N("r"), N("n")>>)>>, Ret(N("r")))>>))

\* A loop whose phis swap two locals, one of them not numbered yet.
Swap ==
  Main(<<Block("entry", <<>>, Br("loop")),
         Block("loop", <<Phi("a", <<<<N("argc"), "entry">>, <<N("b"), "loop">>>>),
                         Phi("b", <<<<Expr(1), "entry">>, <<N("a"), "loop">>>>),
                         Phi("i", <<<<C(0), "entry">>, <<N("j"), "loop">>>>),
                         Compute("j", "add", <<N("i"), C(1)>>),
                         Compute("c", "eq", <<N("j"), C(3)>>)>>,
               CondBr(N("c"), "exit", "loop")),
         Block("exit", <<Compute("r", "sub", <<N("a"), N("b")>>)>>,
               Switch(N("r"), <<0, -1>>, <<"entry", "done", "loop">>)),
         Block("done", <<>>, Ret(N("r")))>>)

\* The phis of the loop take each other's old values in every way.
Rotate(x, y, z) ==
  Main(<<Block("entry", <<>>, Br("loop")),
         Block("loop", <<Phi("a", <<<<C(1), "entry">>, <<N(x), "loop">>>>),
                         Phi("b", <<<<C(2), "entry">>, <<N(y), "loop">>>>),
                         Phi("c", <<<<C(0), "entry">>, <<N(z), "loop">>>>)>>,
               CondBr(N("c"), "exit", "loop")),
         Block("exit", <<Compute("r", "sub", <<N("a"), N("b")>>)>>, Ret(N("r")))>>)

\* Accesses through p and through s, a copy of p that is loaded from memory.
Pointers(accesses) ==
  Main(Entry1(<<Alloca("p", C(1)), Alloca("q", C(1)), Store(N("q"), N("p")), Load("s", N("q")),
                Compute("v", "add", <<C(1), C(1)>>)>> \o accesses,
             Ret(N("v"))))

Access ==
  {Store(N("s"), C(3)), Store(N("p"), N("v")), Load("v", N("p")), Load("v", N("s")),
   AtomicRMW("v", "add", N("s"), C(1))}

Exchange ==
  Main(Entry1(<<Alloca("p", C(1)), CmpXchg("x", N("p"), C(0), C(4)),
                Compute("ok", "second", <<N("x")>>), CmpXchg("x", N("p"), C(5), C(6)),
                Compute("old", "first", <<N("x")>>), Compute("r", "add", <<N("old"), N("ok")>>)>>,
             Ret(N("r"))))

\* Natives: a lazy one with an argument too many, a strict one, invoked and called.
CallNatives ==
  Main(<<Block("entry", <<Call("x", C(10), <<C(7), N("argc"), C(0)>>),
                          Call(None, C(11), <<N("x"), N("argv")>>)>>,
               Invoke("y", C(11), <<N("x"), N("x")>>, "next")),
         Block("next", <<Call("z", C(10), <<N("y"), N("x")>>)>>, Ret(N("z")))>>)

\* An exception raised two frames down, past an invoke.
Exception ==
  Main(<<Block("entry", <<Compute("k", "add", <<C(1), C(1)>>)>>, Invoke("x", N("k"), <<N("k")>>, "next")),
         Block("next", <<>>, Ret(N("x")))>>)
    @@ (2 :> Function(<<"e">>, Entry1(<<Call(None, C(12), <<N("e")>>)>>, Ret(C(0)))))

\* A native that calls back once per frame; the callback may raise.
Backtrace(callback) ==
  Main(Entry1(<<Call("x", C(2), <<>>)>>, Ret(N("x"))))
    @@ (2 :> Function(<<>>, Entry1(<<Call("x", C(13), <<C(3), C(5)>>)>>, Ret(N("x")))))
    @@ (3 :> Function(<<"ctx", "arg">>, Entry1(callback, Ret(N("ctx")))))

\* A computed native without its second argument, while the decoder runs on.
Lacking(argument, last) ==
  Main(Entry1(<<Compute("k", "add", <<C(1), C(1)>>), Alloca("p", C(1)), Call("r", C(10), <<argument>>),
                Store(N("p"), C(1))>> \o last, Ret(N("k"))))

\* Programs that crash.
CrashPrograms ==
  {Main(Entry1(<<i>>, t)) :
     <<i, t>> \in {<<Call(None, C(99), <<>>), Ret(C(0))>>, <<Call(None, C(14), <<>>), Ret(C(0))>>,
                   <<Call(None, C(1), <<C(1)>>), Ret(C(0))>>, <<Call(None, C(11), <<C(1)>>), Ret(C(0))>>,
                   <<Call(None, C(11), <<C(1), C(2), C(3)>>), Ret(C(0))>>,
                   <<Call("r", C(10), <<C(1)>>), Ret(N("r"))>>, <<Call(None, C(10), <<>>), Ret(C(0))>>,
                   <<Freeze, Ret(C(0))>>, <<Fence, Unreachable>>,
                   <<Compute("r", "add", <<C(1), N("s")>>), Ret(N("r"))>>,
                   <<Phi("a", <<<<C(1), "entry">>>>), Ret(N("a"))>>}}

AllPrograms ==
  {p @@ Natives : p \in
     {Recursion, Swap, Exchange, CallNatives, Exception,
      Backtrace(<<>>), Backtrace(<<Call(None, C(12), <<N("arg")>>)>>)}
     \cup {Rotate(x, y, "a") : x \in {"a", "b", "c"}, y \in {"a", "b", "c"}}
     \cup {Rotate(x, y, "b") : x \in {"a", "b", "c"}, y \in {"a", "b"}}
     \cup {Pointers(<<x, y, z>>) : x \in Access, y \in Access, z \in Access}
     \cup {Lacking(N("k"), <<>>), Lacking(C(1), <<Call(None, C(12), <<N("k")>>)>>),
           Lacking(C(1), <<Call("s", N("r"), <<>>)>>), Lacking(C(1), <<Freeze>>)}
     \cup CrashPrograms}
=============================================================================
