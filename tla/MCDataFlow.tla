---------------------------- MODULE MCDataFlow ----------------------------
(***************************************************************************)
(* Program sets for checking DataFlow: each is a CONSTANT Programs.        *)
(***************************************************************************)
EXTENDS DataFlow

Program(main, others) == [t \in ThreadId |-> IF t = Main THEN main ELSE others[t]]

\* pthread_create as the decoder sees it at position n of a trace: the thread is
\* added, then its id is stored (at byte 0) and the store awaited.
PthreadCreate(t, n) == <<CreateThread(t), Store(0, 0, {0}, "None"), Await(n + 1)>>

\* The thread returns a constant: thread.rs:81 awaits it.
Return == Await(0)

-----------------------------------------------------------------------------
(* One thread: every trace of three thunks over two bytes, with all        *)
(* orderings, addresses that are constants or the thunk before, and values *)
(* that depend on the thunk before; and every trace of four atomic loads.  *)

Prev(i) == {0, i - 1}

AnyThunk(i) ==
  {Compute({}), Compute(1..(i - 1))}
    \cup {Load(a, {b}, o) : a \in Prev(i), b \in {1, 2}, o \in Orderings \ {"AcqRel"}}
    \cup {Store(0, v, {b}, o) : v \in Prev(i) \ {0}, b \in {1, 2}, o \in {"None", "Relaxed"}}

AtomicLoad(i) ==
  {Load(a, {b}, o) : a \in Prev(i), b \in {1, 2}, o \in {"Relaxed", "Acquire", "Release"}}

SoloTraces ==
  {<<w, x, y, Await(3)>> : w \in AnyThunk(1), x \in AnyThunk(2), y \in AnyThunk(3)}
    \cup {<<w, x, y, z, Await(4)>> :
            w \in AtomicLoad(1), x \in AtomicLoad(2), y \in AtomicLoad(3), z \in AtomicLoad(4)}

SoloPrograms == {Program(s, <<<<>>>>) : s \in SoloTraces}

-----------------------------------------------------------------------------
(* Message passing: main writes twice, the thread it creates reads twice,  *)
(* awaiting its first read or not.                                         *)

MPWrite == {Store(0, 0, {b}, o) : b \in {1, 2}, o \in {"None", "Relaxed", "Release"}}
             \cup {AtomicRMW(0, 0, {b}, "Release") : b \in {1, 2}}
MPRead == {Load(0, {b}, o) : b \in {1, 2}, o \in {"None", "Relaxed", "Acquire"}}
            \cup {CmpXchg(0, 0, 0, {b}, "Acquire", "Relaxed") : b \in {1, 2}}

MPMain == {PthreadCreate(1, 1) \o <<x, y, Await(5)>> : x \in MPWrite, y \in MPWrite}
MPThread == {<<x, y, Await(2)>> : x \in MPRead, y \in MPRead}
              \cup {<<x, Await(1), y, Await(3)>> : x \in MPRead, y \in MPRead}

MPPrograms == {Program(m, <<s>>) : m \in MPMain, s \in MPThread}

CorePrograms == SoloPrograms \cup MPPrograms

-----------------------------------------------------------------------------
(* Life cycle: main creates two threads and joins them in some order, or   *)
(* not at all; the threads compute, wait, join each other or fill the      *)
(* pipeline.                                                               *)

Relaxed(b) == Load(0, {b}, "Relaxed")

CreateBoth == PthreadCreate(1, 1) \o PthreadCreate(2, 4)

LifeMain ==
  {CreateBoth, CreateBoth \o <<JoinThread(2), Relaxed(1), Relaxed(2), Await(8)>>,
   PthreadCreate(1, 1) \o <<JoinThread(1)>> \o PthreadCreate(2, 5) \o <<JoinThread(2), Return>>}
    \cup {CreateBoth \o s : s \in {<<JoinThread(1), JoinThread(2), Return>>,
                                   <<JoinThread(2), JoinThread(1), Return>>,
                                   <<Relaxed(1), Await(7), JoinThread(1), Return>>}}

LifeThread(other) ==
  {<<Compute({}), Await(1)>>, <<Return>>, <<Relaxed(1), Await(1), Return>>,
   <<Relaxed(1), Relaxed(2), Await(1)>>, <<Relaxed(1), Relaxed(2), Relaxed(1), Await(3)>>,
   <<Store(0, 0, {1}, "Release"), Await(1)>>,
   <<JoinThread(other), Return>>, <<Relaxed(1), Await(1), JoinThread(other), Return>>}

LifePrograms == {Program(m, <<s, u>>) : m \in LifeMain, s \in LifeThread(2), u \in LifeThread(1)}

-----------------------------------------------------------------------------
(* One program for each disagreement                                       *)

\* y.store(x.load(Relaxed), Relaxed)
DependentStore == {Program(<<Relaxed(1), Store(0, 1, {2}, "Relaxed"), Await(2)>>, <<>>)}

\* A relaxed store, then an acquire-release swap.
SwapAfterStore ==
  {Program(<<Store(0, 0, {1}, "Relaxed"), AtomicRMW(0, 0, {2}, "AcqRel"), Await(2)>>, <<>>)}

\* More thunks than the pipeline holds before the first await.
LongBlock == {Program(<<Relaxed(1), Relaxed(2), Relaxed(3), Await(3)>>, <<>>)}

\* par(2, f): spawn both, join both in order.
Par == {Program(CreateBoth \o <<JoinThread(1), JoinThread(2), Return>>,
                <<<<Relaxed(1), Await(1)>>, <<Relaxed(2), Await(1)>>>>)}
=============================================================================
