------------------------------ MODULE MCLinker ------------------------------
(***************************************************************************)
(* Programs of one or two modules: names that are internal here and        *)
(* external there, aliases of aliases in both orders, undefined names,     *)
(* thread-locals, initial values that are addresses; and one program for   *)
(* each reason why a program is refused.                                   *)
(***************************************************************************)
EXTENDS Linker

ext == "external"
int == "internal"
Main(refs) == Func("main", ext, refs)
OneModule(globals, aliases) == <<Module(<<Main(<<>>)>>, globals, aliases)>>

\* Both modules have an own x; y is exported by the second and names its x.
Shadow ==
  <<Module(<<Main(<<"x", "y", "f">>)>>, <<Global("x", int, FALSE, Num(1)), Global("y", ext, FALSE, Declared)>>, <<>>),
    Module(<<Func("f", ext, <<"x">>)>>, <<Global("x", ext, FALSE, Num(2)), Global("y", ext, FALSE, NameOf("x"))>>, <<>>)>>

\* Thread-locals, one of them exported, next to a global of the same name.
Locals ==
  <<Module(<<Main(<<"k", "l">>)>>, <<Global("k", int, TRUE, Num(1)), Global("l", ext, TRUE, NameOf("main"))>>, <<>>),
    Module(<<Func("f", int, <<"k", "l">>)>>, <<Global("k", int, FALSE, Num(2))>>, <<>>)>>

\* Aliases of aliases and of objects, across the modules in both directions.
Chain ==
  <<Module(<<Main(<<"b", "c", "e", "none">>)>>, <<Global("x", int, FALSE, Num(1))>>,
      <<Alias("a", ext, "x"), Alias("b", int, "a"), Alias("e", int, "z")>>),
    Module(<<Func("f", ext, <<"d">>)>>, <<Global("z", ext, FALSE, NameOf("d"))>>,
      <<Alias("c", ext, "a"), Alias("d", int, "c")>>)>>

\* An alias of a later alias, which the code binds to explode.
Late ==
  <<Module(<<Main(<<"late", "x">>)>>,
      <<Global("x", int, FALSE, Num(1)), Global("y", int, FALSE, NameOf("late"))>>,
      <<Alias("late", ext, "a"), Alias("a", int, "x")>>)>>

\* main is an alias; an alias repeated with the same target.
AliasMain ==
  <<Module(<<Func("start", int, <<"main">>)>>, <<>>,
      <<Alias("main", ext, "start"), Alias("main", ext, "start")>>)>>

IllFormed ==
  {OneModule(<<Global("x", ext, FALSE, Num(1)), Global("x", ext, TRUE, Num(1))>>, <<>>),
   <<Module(<<Main(<<>>), Func("malloc", ext, <<>>)>>, <<>>, <<>>)>>,
   <<Module(<<Main(<<>>)>>, <<>>, <<>>), Module(<<Main(<<>>)>>, <<>>, <<>>)>>,
   OneModule(<<Global("x", ext, FALSE, Num(1)), Global("y", ext, FALSE, Num(1))>>, <<Alias("x", ext, "y")>>),
   OneModule(<<Global("k", int, TRUE, Num(1))>>, <<Alias("a", ext, "k")>>),
   OneModule(<<Global("k", int, TRUE, Num(1)), Global("p", int, FALSE, NameOf("k"))>>, <<>>),
   OneModule(<<Global("x", "weak", FALSE, Num(1))>>, <<>>),
   OneModule(<<>>, <<Alias("a", "weak", "main")>>),
   <<Module(<<Func("main", int, <<>>)>>, <<>>, <<>>)>>,
   <<Module(<<Func("main", "weak", <<>>)>>, <<>>, <<>>)>>,
   <<Module(<<>>, <<Global("main", ext, FALSE, Num(1))>>, <<>>)>>}

MCPrograms == {Shadow, Locals, Chain, Late, AliasMain} \cup IllFormed
MCNatives == <<"explode", "malloc">>
=============================================================================
