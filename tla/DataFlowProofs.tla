-------------------------- MODULE DataFlowProofs --------------------------
(***************************************************************************)
(* Proofs that DataFlow keeps its type invariant, that release and acquire *)
(* barriers and per-location program order hold, and that together they    *)
(* order what one thread reads after what another has written (message     *)
(* passing), for every set of threads, bytes and programs and every        *)
(* PIPELINE_SIZE.                                                          *)
(***************************************************************************)
EXTENDS DataFlow, TLAPS

-----------------------------------------------------------------------------
(* The inductive invariant, in parts                                       *)

\* The program is one of Programs and no control task runs past its end.
InvProgram ==
  /\ prog \in Programs
  /\ \A t \in ThreadId : pc[t] <= Len(prog[t]) + 1

\* Nothing is on offer while decoding, and what is on offer during a pass comes
\* from the threads the pass has already reached.
InvOffers ==
  /\ phase = "decode" => resolvable = {}
  /\ phase = "pure" => \A x \in resolvable : x[1] <= scan

\* During a pass that has stepped nothing, the thunks of the scanned thread are
\* all pending; if in addition nothing is on offer, none has been passed.
InvScan ==
  phase = "pure" /\ ~progress =>
    /\ thunks[scan] \cap ready[scan] = {}
    /\ resolvable = {} => pending = {} /\ \A i \in thunks[scan] : i > pos

\* In a pass that has stepped nothing, a release on offer is the oldest
\* pending thunk of its thread.
InvRelease ==
  phase \in {"pure", "reap", "choose"} /\ (~progress \/ phase = "choose") =>
    \A x \in resolvable : prog[x[1]][x[2]].ord = "Release" =>
      \A i \in Thunks(x[1]) : i < x[2] => i \in ready[x[1]]

\* pending is made up of the ranges of accesses the scan has passed.
InvPending ==
  phase = "pure" =>
    \A b \in pending : \E k \in MemOps(scan) :
      k <= pos /\ b \in prog[scan][k].range /\ prog[scan][k].range \subseteq pending

\* Every access the scan has passed is covered by pending, unless the scan of
\* this thread is over.
InvPassed ==
  phase = "pure" /\ Uniform(scan) =>
    \/ \A i \in thunks[scan] : i <= pos
    \/ \A i \in thunks[scan] : i <= pos /\ Mem(scan, i) => prog[scan][i].range \subseteq pending

\* What is on offer overlaps no earlier pending access.
InvCoherence ==
  \A x \in resolvable : Uniform(x[1]) =>
    \A i \in MemOps(x[1]) : i < x[2] /\ Overlap(x[1], i, x[2]) => i \in ready[x[1]]

\* The scan has passed no acquire that aliases nothing earlier, unless it is
\* over.
InvStopped ==
  phase = "pure" =>
    \/ \A i \in thunks[scan] : i <= pos
    \/ \A i \in thunks[scan] :
         i <= pos /\ Mem(scan, i) /\ prog[scan][i].ord \in AcquireClass => ~Unshadowed(scan, i)

\* What is on offer has no such acquire pending before it.
InvAcquire ==
  \A x \in resolvable : \A i \in MemOps(x[1]) :
    i < x[2] /\ prog[x[1]][i].ord \in AcquireClass /\ Unshadowed(x[1], i) => i \in ready[x[1]]

-----------------------------------------------------------------------------
(* Facts about programs                                                    *)

\* A thunk of a trace is a record of the first kind, its operands are earlier
\* thunks, its address is an operand or a constant, and it is non-atomic if it
\* has no address: what the decoder guarantees (WellFormed).
LEMMA ThunkFacts ==
  ASSUME prog \in Programs, NEW t \in ThreadId, NEW i \in Thunks(t)
  PROVE  /\ i \in Nat /\ i > 0 /\ i <= Len(prog[t])
         /\ prog[t][i].range \subseteq Byte
         /\ prog[t][i].ord \in Orderings
         /\ prog[t][i].deps \subseteq {j \in Thunks(t) : j < i}
         /\ prog[t][i].addr \in prog[t][i].deps \cup {0}
         /\ ~Mem(t, i) => prog[t][i].ord = "None"
<1>1. prog[t] \in Seq(Instrs) /\ WellFormed(prog[t])
  BY ConstantsAssumption
<1>2. i \in 1..Len(prog[t]) /\ prog[t][i].op = "thunk"
  BY DEF Thunks
<1>3. prog[t][i] \in Instrs /\ Len(prog[t]) \in Nat
  BY <1>1, <1>2
<1>4. prog[t][i] \in [op : {"thunk"}, access : Accesses, addr : Nat, deps : SUBSET Nat,
                      range : SUBSET Byte, ord : Orderings]
  BY <1>2, <1>3 DEF Instrs
<1>5. /\ prog[t][i].deps \subseteq {j \in 1..(i - 1) : prog[t][j].op = "thunk"}
      /\ prog[t][i].addr \in prog[t][i].deps \cup {0}
      /\ prog[t][i].access = "pure" => prog[t][i].ord = "None"
  BY <1>1, <1>2 DEF WellFormed
<1>6. prog[t][i].deps \subseteq {j \in Thunks(t) : j < i}
  BY <1>2, <1>3, <1>5 DEF Thunks
<1> QED
  BY <1>2, <1>3, <1>4, <1>5, <1>6 DEF Mem

\* The target of a pthread_create is a thread.
LEMMA TargetFacts ==
  ASSUME prog \in Programs, NEW t \in ThreadId, NEW i \in 1..Len(prog[t]),
         prog[t][i].op = "create"
  PROVE  prog[t][i].target \in ThreadId
<1>1. prog[t] \in Seq(Instrs)
  BY ConstantsAssumption
<1>2. prog[t][i] \in Instrs
  BY <1>1
<1> QED
  BY <1>2 DEF Instrs

\* Declared thunks are thunks of the trace.
LEMMA DeclaredFacts ==
  ASSUME InvProgram, TypeOK, NEW t \in ThreadId
  PROVE  /\ Declared(t) \subseteq Thunks(t)
         /\ thunks[t] \subseteq Thunks(t)
         /\ ready[t] \subseteq Thunks(t)
         /\ \A i \in Declared(t) : \A j \in Thunks(t) : j < i => j \in Declared(t)
<1>1. prog[t] \in Seq(Instrs) /\ Len(prog[t]) \in Nat /\ pc[t] \in Nat /\ pc[t] <= Len(prog[t]) + 1
  BY ConstantsAssumption DEF InvProgram, TypeOK
<1>2. Declared(t) \subseteq Thunks(t)
  BY <1>1 DEF Declared, Thunks
<1>3. thunks[t] \cup ready[t] = Declared(t)
  BY DEF TypeOK
<1>4. \A i \in Declared(t) : \A j \in Thunks(t) : j < i => j \in Declared(t)
  BY <1>1 DEF Declared, Thunks
<1> QED
  BY <1>2, <1>3, <1>4

-----------------------------------------------------------------------------
(* Types                                                                   *)

TypeInv == InvProgram /\ TypeOK /\ InvOffers

\* The initial state is well typed.
LEMMA TypeInit == Init => TypeInv
<1> SUFFICES ASSUME Init PROVE TypeInv
  OBVIOUS
<1>1. prog \in [ThreadId -> Seq(Instrs)] /\ Main \in ThreadId
  BY ConstantsAssumption DEF Init
<1>2. \A t \in ThreadId : Declared(t) = {}
  BY DEF Init, Declared
<1>3. InvProgram
  BY <1>1 DEF Init, InvProgram
<1>4. InvOffers
  BY DEF Init, InvOffers
<1>5. progress \in BOOLEAN /\ reads \subseteq ThunkId \X Byte \X ThunkId
  BY DEF Init
<1>6. mem \in [Byte -> ThunkId]
  BY <1>1 DEF Init, Zero, ThunkId
<1>7. ctl \in [ThreadId -> ControlStates] /\ phase \in Phases
  BY DEF Init, ControlStates, Phases
<1>8. TypeOK
  BY <1>1, <1>2, <1>5, <1>6, <1>7 DEF Init, TypeOK
<1> QED
  BY <1>3, <1>4, <1>8 DEF TypeInv

\* A control task that decodes an instruction keeps the types.
LEMMA TypeDecode ==
  ASSUME TypeInv, NEW t \in ThreadId, Decode(t)
  PROVE  TypeInv'
<1> USE DEF TypeInv
<1>1. prog' = prog /\ prog \in [ThreadId -> Seq(Instrs)] /\ UNCHANGED pipelineVars
  BY ConstantsAssumption
     DEF InvProgram, Decode, Poll, Declare, BlockPipeline, AwaitReady, AwaitPending, AwaitPanic,
         Create, JoinDone, JoinWait, JoinPanic, Finish
<1>2. phase = "decode" /\ phase' \in {"decode", "panic_thread", "panic_join"}
  BY DEF Decode, Decoding, Poll, Declare, BlockPipeline, AwaitReady, AwaitPending, AwaitPanic,
         Create, JoinDone, JoinWait, JoinPanic, Finish
<1>3. ctl' \in [ThreadId -> ControlStates] /\ threads' \subseteq ThreadId
  <2>1. CASE Create(t)
    <3>1. prog[t][pc[t]].target \in ThreadId
      <4>1. pc[t] \in 1..Len(prog[t]) /\ prog[t][pc[t]].op = "create"
        BY <1>1, <2>1 DEF Create, Decoding, TypeOK
      <4> QED
        BY <4>1, TargetFacts DEF InvProgram
    <3> QED
      BY <2>1, <3>1 DEF Create, TypeOK, ControlStates
  <2>2. CASE Finish(t)
    BY <2>2 DEF Finish, TypeOK, ControlStates
  <2> QED
    BY <2>1, <2>2
       DEF Decode, Poll, Declare, BlockPipeline, AwaitReady, AwaitPending, AwaitPanic, Suspend,
           JoinDone, JoinWait, JoinPanic, TypeOK, ControlStates
<1>4. /\ pc' \in [ThreadId -> Nat \ {0}]
      /\ thunks' \in [ThreadId -> SUBSET Nat]
      /\ \A u \in ThreadId : pc'[u] <= Len(prog[u]) + 1
      /\ \A u \in ThreadId : thunks'[u] \cup ready[u] = Declared(u)'
      /\ \A u \in ThreadId : thunks[u] \subseteq thunks'[u]
  <2>1. CASE Declare(t)
    <3>1. /\ pc' = [pc EXCEPT ![t] = @ + 1]
          /\ thunks' = [thunks EXCEPT ![t] = @ \cup {pc[t]}]
          /\ pc[t] <= Len(prog[t]) /\ prog[t][pc[t]].op = "thunk"
          /\ pc[t] \in Nat \ {0} /\ Len(prog[t]) \in Nat
      BY <1>1, <2>1 DEF Declare, Decoding, Advance, TypeOK
    <3>2. Declared(t)' = Declared(t) \cup {pc[t]}
      BY <1>1, <3>1 DEF Declared, TypeOK
    <3>3. \A u \in ThreadId : u # t => Declared(u)' = Declared(u)
      BY <1>1, <3>1 DEF Declared, TypeOK
    <3>4. \A u \in ThreadId : thunks[u] \cup ready[u] = Declared(u)
      BY DEF TypeOK
    <3> QED
      BY <3>1, <3>2, <3>3, <3>4 DEF TypeOK, InvProgram
  <2>2. CASE AwaitReady(t) \/ Create(t) \/ JoinDone(t)
    <3>1. /\ pc' = [pc EXCEPT ![t] = @ + 1]
          /\ thunks' = thunks
          /\ pc[t] <= Len(prog[t]) /\ prog[t][pc[t]].op # "thunk"
          /\ pc[t] \in Nat \ {0} /\ Len(prog[t]) \in Nat
      BY <1>1, <2>2 DEF AwaitReady, Create, JoinDone, Decoding, Advance, TypeOK
    <3>2. \A u \in ThreadId : Declared(u)' = Declared(u)
      BY <1>1, <3>1 DEF Declared, TypeOK
    <3> QED
      BY <3>1, <3>2 DEF TypeOK, InvProgram
  <2>3. CASE UNCHANGED <<pc, thunks>>
    BY <1>1, <2>3 DEF TypeOK, InvProgram, Declared
  <2> QED
    BY <2>1, <2>2, <2>3
       DEF Decode, Poll, BlockPipeline, AwaitPending, AwaitPanic, JoinWait, JoinPanic, Finish
<1>5. InvProgram'
  BY <1>1, <1>4 DEF InvProgram
<1>6. InvOffers'
  BY <1>1, <1>2 DEF InvOffers, pipelineVars
<1>7. TypeOK'
  BY <1>1, <1>2, <1>3, <1>4 DEF TypeOK, pipelineVars, Phases
<1> QED
  BY <1>5, <1>6, <1>7

\* What resolving a thunk of the pipeline leaves: typed state, one more Ready
\* thunk, the same thunks declared.
LEMMA TypeResolve ==
  ASSUME TypeInv, NEW t \in ThreadId, NEW i \in thunks[t], Resolve(t, i)
  PROVE  /\ ready' = [ready EXCEPT ![t] = @ \cup {i}]
         /\ ready' \in [ThreadId -> SUBSET Nat]
         /\ \A u \in ThreadId : ready[u] \subseteq ready'[u]
         /\ \A u \in ThreadId : thunks[u] \cup ready'[u] = Declared(u)
         /\ ctl' \in [ThreadId -> ControlStates]
         /\ mem' \in [Byte -> ThunkId]
         /\ reads' \subseteq ThunkId \X Byte \X ThunkId
<1> USE DEF TypeInv
<1>1. i \in Thunks(t) /\ i \in Nat /\ prog[t][i].range \subseteq Byte /\ <<t, i>> \in ThunkId
  <2>1. i \in Thunks(t)
    BY DeclaredFacts
  <2> QED
    BY <2>1, ThunkFacts DEF InvProgram, ThunkId
<1>2. ready' = [ready EXCEPT ![t] = @ \cup {i}]
  BY DEF Resolve
<1>3. /\ ready' \in [ThreadId -> SUBSET Nat]
      /\ \A u \in ThreadId : ready[u] \subseteq ready'[u]
      /\ \A u \in ThreadId : thunks[u] \cup ready'[u] = Declared(u)
  BY <1>1, <1>2 DEF TypeOK
<1>4. ctl' \in [ThreadId -> ControlStates]
  BY DEF Resolve, TypeOK, ControlStates
<1>5. mem' \in [Byte -> ThunkId]
  <2>1. PICK w \in MayWrite(prog[t][i].access) :
          mem' = [b \in Byte |-> IF w /\ b \in prog[t][i].range THEN <<t, i>> ELSE mem[b]]
    BY DEF Resolve
  <2>2. \A b \in Byte : mem[b] \in ThunkId
    BY DEF TypeOK
  <2> QED
    BY <1>1, <2>1, <2>2
<1>6. reads' \subseteq ThunkId \X Byte \X ThunkId
  <2>1. \A b \in Byte : mem[b] \in ThunkId
    BY DEF TypeOK
  <2>2. reads' = reads \cup {<<<<t, i>>, b, mem[b]>> :
                               b \in {c \in prog[t][i].range : DoesRead(prog[t][i].access)}}
    BY DEF Resolve
  <2>3. reads \subseteq ThunkId \X Byte \X ThunkId
    BY DEF TypeOK
  <2> QED
    BY <1>1, <2>1, <2>2, <2>3
<1> QED
  BY <1>2, <1>3, <1>4, <1>5, <1>6

\* The variables a look at one thunk may change, and how.
LEMMA ScanFacts ==
  ASSUME TypeInv, NEW i \in thunks[scan], ScanThunk(i)
  PROVE  /\ UNCHANGED scanStatic /\ phase = "pure" /\ i > pos
         /\ pos' \in {i, Len(prog[scan])}
         /\ pending' \in {pending, pending \cup prog[scan][i].range}
         /\ resolvable' \in {resolvable, resolvable \cup {<<scan, i>>}}
         /\ \/ UNCHANGED unstepped
            \/ Resolve(scan, i) /\ progress' = TRUE
<1> USE DEF ScanThunk, IsNext, Unaliased, Break, Offer
<1>1. CASE ScanPure(i)
  BY <1>1 DEF ScanPure, StepNow, unstepped
<1>2. CASE ScanUnknown(i)
  BY <1>2 DEF ScanUnknown
<1>3. CASE ScanAliased(i)
  BY <1>3 DEF ScanAliased
<1>4. CASE ScanNone(i)
  BY <1>4 DEF ScanNone, StepNow, unstepped
<1>5. CASE ScanRelaxed(i)
  BY <1>5 DEF ScanRelaxed
<1>6. CASE ScanRelease(i)
  BY <1>6 DEF ScanRelease
<1>7. CASE ScanAcquire(i)
  BY <1>7 DEF ScanAcquire
<1> QED
  BY <1>1, <1>2, <1>3, <1>4, <1>5, <1>6, <1>7

\* Looking at one thunk keeps the types.
LEMMA TypeScan ==
  ASSUME TypeInv, NEW i \in thunks[scan], ScanThunk(i)
  PROVE  TypeInv'
<1> USE DEF TypeInv
<1>1. /\ UNCHANGED <<prog, pc, thunks, threads, phase, scan>> /\ phase = "pure"
      /\ pos' \in {i, Len(prog[scan])}
      /\ pending' \in {pending, pending \cup prog[scan][i].range}
      /\ resolvable' \in {resolvable, resolvable \cup {<<scan, i>>}}
  BY ScanFacts DEF scanStatic
<1>2. scan \in ThreadId /\ i \in Nat /\ prog[scan][i].range \subseteq Byte /\ Len(prog[scan]) \in Nat
  <2>1. scan \in ThreadId /\ prog[scan] \in Seq(Instrs)
    BY DEF TypeOK
  <2>2. i \in Thunks(scan)
    BY <2>1, DeclaredFacts
  <2> QED
    BY <2>1, <2>2, ThunkFacts DEF InvProgram
<1>3. /\ ready' \in [ThreadId -> SUBSET Nat]
      /\ \A u \in ThreadId : thunks[u] \cup ready'[u] = Declared(u)
      /\ ctl' \in [ThreadId -> ControlStates]
      /\ mem' \in [Byte -> ThunkId]
      /\ reads' \subseteq ThunkId \X Byte \X ThunkId
  <2>1. CASE UNCHANGED unstepped
    BY <2>1 DEF unstepped, TypeOK
  <2>2. CASE Resolve(scan, i)
    BY <1>2, <2>2, TypeResolve
  <2> QED
    BY <2>1, <2>2, ScanFacts
<1>4. progress' \in BOOLEAN
  <2>1. CASE UNCHANGED unstepped
    BY <2>1 DEF unstepped, TypeOK
  <2>2. CASE progress' = TRUE
    BY <2>2
  <2> QED
    BY <2>1, <2>2, ScanFacts
<1>5. InvProgram'
  BY <1>1 DEF InvProgram
<1>6. InvOffers'
  <2>1. scan \in Nat
    BY <1>2, ConstantsAssumption
  <2>2. \A x \in resolvable' : x \in resolvable \/ x = <<scan, i>>
    BY <1>1
  <2>3. \A x \in resolvable' : x[1] <= scan
    BY <1>1, <2>1, <2>2 DEF InvOffers
  <2> QED
    BY <1>1, <2>3 DEF InvOffers
<1>7. \A x \in resolvable' : x[1] \in ThreadId /\ x[2] \in thunks[x[1]]
  <2>1. \A x \in resolvable' : x \in resolvable \/ x = <<scan, i>>
    BY <1>1
  <2> QED
    BY <1>2, <2>1 DEF TypeOK
<1>8. \A u \in ThreadId : Declared(u)' = Declared(u)
  BY <1>1 DEF Declared
<1>9. TypeOK'
  BY <1>1, <1>2, <1>3, <1>4, <1>7, <1>8 DEF TypeOK
<1> QED
  BY <1>5, <1>6, <1>9

\* Starting a pass or going on to the next thread keeps the types: the thunks
\* dropped are Ready, and nothing is on offer from the thread that is entered.
LEMMA TypeEnter ==
  ASSUME TypeInv, StartPass \/ NextThread
  PROVE  TypeInv'
<1> USE DEF TypeInv
<1>1. /\ UNCHANGED <<prog, pc, ctl, ready, mem, reads, threads, resolvable>>
      /\ progress' \in {progress, FALSE}
      /\ phase' \in {"pure", "reap"}
  BY DEF StartPass, NextThread, EnterAbove
<1>2. PICK lo \in Nat \cup {-1} :
        /\ EnterAbove(lo)
        /\ \A x \in resolvable : x[1] <= lo
  <2>1. CASE StartPass
    BY <2>1 DEF StartPass, InvOffers
  <2>2. CASE NextThread
    BY <2>2, ConstantsAssumption DEF NextThread, InvOffers, TypeOK
  <2> QED
    BY <2>1, <2>2
<1>3. InvProgram'
  BY <1>1 DEF InvProgram
<1>4. \A u \in ThreadId : Declared(u)' = Declared(u)
  BY <1>1 DEF Declared
<1>5. progress' \in BOOLEAN
  BY <1>1 DEF TypeOK
<1>6. CASE phase' = "reap"
  <2>1. UNCHANGED <<scan, pos, pending, thunks>>
    BY <1>2, <1>6 DEF EnterAbove
  <2>2. InvOffers'
    BY <1>1, <1>6 DEF InvOffers
  <2>3. TypeOK'
    BY <1>1, <1>4, <1>5, <1>6, <2>1 DEF TypeOK, Phases
  <2> QED
    BY <1>3, <2>2, <2>3
<1>7. CASE phase' = "pure"
  <2>1. PICK t \in threads :
          /\ t > lo /\ scan' = t /\ pos' = 0 /\ pending' = {}
          /\ thunks' = [thunks EXCEPT ![t] = @ \ ready[t]]
    BY <1>2, <1>7 DEF EnterAbove
  <2>2. t \in ThreadId /\ t \in Nat
    BY ConstantsAssumption DEF TypeOK
  <2>3. \A x \in resolvable : x[1] \in ThreadId /\ x[1] \in Nat /\ x[1] <= lo
    BY <1>2, ConstantsAssumption DEF TypeOK
  <2>4. InvOffers'
    <3>1. \A x \in resolvable : x[1] <= t
      BY <1>2, <2>1, <2>2, <2>3
    <3> QED
      BY <1>1, <1>7, <2>1, <3>1 DEF InvOffers
  <2>5. \A x \in resolvable : x[1] # t /\ x[2] \in thunks'[x[1]]
    BY <1>2, <2>1, <2>2, <2>3 DEF TypeOK
  <2>6. /\ thunks' \in [ThreadId -> SUBSET Nat]
        /\ \A u \in ThreadId : thunks'[u] \cup ready[u] = Declared(u)
    BY <2>1, <2>2 DEF TypeOK
  <2>7. TypeOK'
    BY <1>1, <1>4, <1>5, <1>7, <2>1, <2>2, <2>3, <2>5, <2>6 DEF TypeOK, Phases
  <2> QED
    BY <1>3, <2>4, <2>7
<1> QED
  BY <1>1, <1>6, <1>7

\* Reaping, the choice and the end of Process::step keep the types.
LEMMA TypeChoose ==
  ASSUME TypeInv,
         Reap \/ Exit \/ \E x \in resolvable : ChooseStep(x[1], x[2]) \/ ChoosePanic(x[1], x[2])
  PROVE  TypeInv'
<1> USE DEF TypeInv
<1>1. UNCHANGED <<prog, pc, thunks, scan, pos, pending, progress>>
  BY DEF Reap, Exit, ChooseStep, ChoosePanic, chooseStatic
<1>2. /\ threads' \subseteq threads
      /\ resolvable' \in {{}, resolvable}
      /\ phase' \in Phases \ {"pure"}
      /\ phase' = "decode" => resolvable' = {}
  BY DEF Reap, Exit, ChooseStep, ChoosePanic, chooseStatic, Phases
<1>3. /\ ready' \in [ThreadId -> SUBSET Nat]
      /\ \A u \in ThreadId : thunks[u] \cup ready'[u] = Declared(u)
      /\ ctl' \in [ThreadId -> ControlStates]
      /\ mem' \in [Byte -> ThunkId]
      /\ reads' \subseteq ThunkId \X Byte \X ThunkId
  <2>1. CASE UNCHANGED <<ready, reads, mem, ctl>>
    BY <2>1 DEF TypeOK
  <2>2. CASE \E x \in resolvable : Resolve(x[1], x[2])
    <3>1. PICK x \in resolvable : Resolve(x[1], x[2])
      BY <2>2
    <3>2. x[1] \in ThreadId /\ x[2] \in thunks[x[1]]
      BY DEF TypeOK
    <3> QED
      BY <3>1, <3>2, TypeResolve
  <2> QED
    BY <2>1, <2>2 DEF Reap, Exit, ChooseStep, ChoosePanic
<1>4. InvProgram'
  BY <1>1 DEF InvProgram
<1>5. InvOffers'
  BY <1>2 DEF InvOffers
<1>6. \A u \in ThreadId : Declared(u)' = Declared(u)
  BY <1>1 DEF Declared
<1>7. TypeOK'
  BY <1>1, <1>2, <1>3, <1>6 DEF TypeOK
<1> QED
  BY <1>4, <1>5, <1>7

\* TypeInv is inductive.
LEMMA TypeNext == TypeInv /\ [Next]_vars => TypeInv'
<1> SUFFICES ASSUME TypeInv, [Next]_vars PROVE TypeInv'
  OBVIOUS
<1>1. CASE \E t \in ThreadId : Decode(t)
  BY <1>1, TypeDecode
<1>2. CASE StartPass \/ NextThread
  BY <1>2, TypeEnter
<1>3. CASE \E i \in thunks[scan] : ScanThunk(i)
  BY <1>3, TypeScan
<1>4. CASE Reap \/ Exit \/ \E x \in resolvable : ChooseStep(x[1], x[2]) \/ ChoosePanic(x[1], x[2])
  BY <1>4, TypeChoose
<1>5. CASE UNCHANGED vars
  BY <1>5 DEF vars, TypeInv, InvProgram, InvOffers, TypeOK, Declared
<1> QED
  BY <1>1, <1>2, <1>3, <1>4, <1>5 DEF Next

\* Type correctness: in every reachable state the variables have their types,
\* the pipeline and the Ready thunks make up the declared thunks, and only
\* thunks in the pipeline are on offer to Process::step.
THEOREM TypeCorrect == Spec => []TypeOK
<1>1. Init => TypeInv
  BY TypeInit
<1>2. TypeInv /\ [Next]_vars => TypeInv'
  BY TypeNext
<1>3. TypeInv => TypeOK
  BY DEF TypeInv
<1> QED
  BY <1>1, <1>2, <1>3, PTL DEF Spec

-----------------------------------------------------------------------------
(* What every step does to the state the barriers depend on                *)

\* Decoding changes neither the Ready thunks nor the offers, and ends outside
\* of a pass.
LEMMA DecodeFacts ==
  ASSUME NEW t \in ThreadId, Decode(t)
  PROVE  /\ UNCHANGED <<prog, ready, resolvable>>
         /\ phase = "decode" /\ phase' \in {"decode", "panic_thread", "panic_join"}
<1>1. UNCHANGED <<prog, ready, resolvable>>
  BY DEF Decode, Poll, Declare, BlockPipeline, AwaitReady, AwaitPending, AwaitPanic,
         Create, JoinDone, JoinWait, JoinPanic, Finish, pipelineVars
<1>2. phase = "decode" /\ phase' \in {"decode", "panic_thread", "panic_join"}
  BY DEF Decode, Decoding, Poll, Declare, BlockPipeline, AwaitReady, AwaitPending, AwaitPanic,
         Create, JoinDone, JoinWait, JoinPanic, Finish
<1> QED
  BY <1>1, <1>2

\* Entering a thread starts with an empty pending set and no Ready thunks.
LEMMA EnterFacts ==
  ASSUME TypeInv, StartPass \/ NextThread
  PROVE  /\ UNCHANGED <<prog, ready, resolvable>>
         /\ phase' \in {"pure", "reap"}
         /\ phase = "decode" \/ (phase = "pure" /\ UNCHANGED progress)
         /\ phase' = "pure" =>
              /\ pending' = {} /\ pos' = 0
              /\ thunks'[scan'] \cap ready'[scan'] = {}
              /\ \A i \in thunks'[scan'] : i > 0
<1>1. /\ UNCHANGED <<prog, ready, resolvable>>
      /\ phase' \in {"pure", "reap"}
      /\ phase = "decode" \/ (phase = "pure" /\ UNCHANGED progress)
      /\ phase' = "pure" =>
           /\ pending' = {} /\ pos' = 0
           /\ scan' \in threads
           /\ thunks' = [thunks EXCEPT ![scan'] = @ \ ready[scan']]
  BY DEF StartPass, NextThread, EnterAbove
<1>2. ASSUME phase' = "pure"
      PROVE  /\ thunks'[scan'] = thunks[scan'] \ ready[scan']
             /\ \A i \in thunks[scan'] : i > 0
  <2>1. scan' \in ThreadId
    BY <1>1, <1>2 DEF TypeInv, TypeOK
  <2>2. thunks[scan'] \subseteq Thunks(scan')
    BY <2>1, DeclaredFacts DEF TypeInv
  <2>3. \A i \in Thunks(scan') : i > 0
    BY <2>1, ThunkFacts DEF TypeInv, InvProgram
  <2>4. thunks'[scan'] = thunks[scan'] \ ready[scan']
    BY <1>1, <1>2, <2>1 DEF TypeInv, TypeOK
  <2> QED
    BY <2>2, <2>3, <2>4
<1> QED
  BY <1>1, <1>2

\* Before the next thunk of a scan, everything declared that is not in the part
\* of the pipeline already passed is Ready.
LEMMA BeforeNext ==
  ASSUME TypeInv, NEW i \in thunks[scan], IsNext(i), NEW j \in Thunks(scan), j < i,
         j \notin ready[scan]
  PROVE  j \in thunks[scan] /\ j <= pos
<1>1. scan \in ThreadId /\ pos \in Nat
  BY DEF TypeInv, TypeOK
<1>2. i \in Declared(scan) /\ i \in Nat /\ j \in Nat
  <2>1. i \in Declared(scan) /\ i \in Thunks(scan)
    BY <1>1, DeclaredFacts DEF TypeInv, TypeOK
  <2> QED
    BY <1>1, <2>1, ThunkFacts DEF TypeInv, InvProgram
<1>3. j \in Declared(scan)
  BY <1>1, <1>2, DeclaredFacts DEF TypeInv
<1>4. j \in thunks[scan]
  BY <1>1, <1>3 DEF TypeInv, TypeOK
<1> QED
  BY <1>1, <1>2, <1>4 DEF IsNext

\* The oldest pending thunk of a thread can always step.
LEMMA OldestSteps ==
  ASSUME TypeInv, InvScan, ~progress, resolvable = {},
         NEW i \in thunks[scan], IsNext(i)
  PROVE  /\ \A j \in Thunks(scan) : j < i => j \in ready[scan]
         /\ CanStep(scan, i) /\ AddressKnown(i) /\ pending = {}
<1>1. scan \in ThreadId /\ pos \in Nat /\ prog \in Programs /\ phase = "pure"
  BY DEF TypeInv, TypeOK, InvProgram, IsNext
<1>2. /\ thunks[scan] \cap ready[scan] = {}
      /\ pending = {} /\ \A k \in thunks[scan] : k > pos
  BY <1>1 DEF InvScan
<1>3. i \in Thunks(scan)
  BY <1>1, DeclaredFacts DEF TypeInv
<1>4. \A j \in Thunks(scan) : j \in Nat
  BY <1>1, ThunkFacts
<1>5. \A j \in Thunks(scan) : j < i => j \in ready[scan]
  BY <1>1, <1>2, <1>4, BeforeNext
<1>6. prog[scan][i].deps \subseteq ready[scan] /\ prog[scan][i].addr \in ready[scan] \cup {0}
  BY <1>1, <1>3, <1>5, ThunkFacts
<1> QED
  BY <1>2, <1>5, <1>6 DEF CanStep, AddressKnown

-----------------------------------------------------------------------------
(* The outcomes of looking at one thunk                                    *)

Kept(i) == UNCHANGED <<ready, progress>>
Clear(i) == prog[scan][i].range \cap pending = {}
Covered(i) == pending' = pending \cup prog[scan][i].range

\* It was stepped: it is not atomic and, if it accesses memory, not aliased.
DidStep(i) ==
  /\ ready' = [ready EXCEPT ![scan] = @ \cup {i}] /\ progress' = TRUE
  /\ prog[scan][i].ord = "None"
  /\ pos' = i /\ resolvable' = resolvable
  /\ IF Mem(scan, i) THEN Clear(i) /\ Covered(i) ELSE pending' = pending

\* It could not step yet.
DidFail(i) ==
  /\ Kept(i) /\ ~CanStep(scan, i)
  /\ prog[scan][i].ord = "None"
  /\ pos' = i /\ resolvable' = resolvable
  /\ IF Mem(scan, i) THEN Clear(i) /\ Covered(i) ELSE pending' = pending

\* Its address is unknown.
DidStop(i) ==
  /\ Kept(i) /\ ~AddressKnown(i)
  /\ pos' = Len(prog[scan]) /\ resolvable' = resolvable /\ pending' = pending

\* It is aliased.
DidSkip(i) ==
  /\ Kept(i) /\ ~Clear(i)
  /\ pos' = i /\ resolvable' = resolvable /\ pending' = pending

\* It is offered: it is atomic and not aliased, a release is the first offer,
\* an acquire ends the scan.
DidOffer(i) ==
  /\ Kept(i) /\ Mem(scan, i) /\ Clear(i) /\ Covered(i)
  /\ prog[scan][i].ord # "None"
  /\ prog[scan][i].ord = "Release" => resolvable = {}
  /\ resolvable' = resolvable \cup {<<scan, i>>}
  /\ IF prog[scan][i].ord \in AcquireClass THEN pos' = Len(prog[scan]) ELSE pos' = i

\* It is a release that has to wait.
DidHold(i) ==
  /\ Kept(i) /\ Mem(scan, i) /\ Clear(i) /\ Covered(i)
  /\ prog[scan][i].ord = "Release"
  /\ resolvable # {} /\ resolvable' = resolvable /\ pos' = i

\* These are all the outcomes.
LEMMA ScanOutcome ==
  ASSUME TypeInv, NEW i \in thunks[scan], ScanThunk(i)
  PROVE  /\ UNCHANGED <<prog, thunks, phase, scan>>
         /\ IsNext(i) /\ phase = "pure"
         /\ scan \in ThreadId /\ i \in Thunks(scan) /\ i \in Nat
         /\ prog \in Programs /\ pos \in Nat
         /\ DidStep(i) \/ DidFail(i) \/ DidStop(i) \/ DidSkip(i) \/ DidOffer(i) \/ DidHold(i)
<1>1. UNCHANGED <<prog, thunks, phase, scan>>
  BY ScanFacts DEF scanStatic
<1>2. /\ scan \in ThreadId /\ i \in Thunks(scan) /\ i \in Nat
      /\ prog \in Programs /\ pos \in Nat
  <2>1. scan \in ThreadId /\ prog \in Programs /\ pos \in Nat
    BY DEF TypeInv, TypeOK, InvProgram
  <2>2. i \in Thunks(scan)
    BY <2>1, DeclaredFacts DEF TypeInv
  <2> QED
    BY <2>1, <2>2, ThunkFacts
<1>3. IsNext(i) /\ phase = "pure"
  BY DEF ScanThunk, ScanPure, ScanUnknown, ScanAliased, ScanNone, ScanRelaxed, ScanRelease,
         ScanAcquire, Unaliased, IsNext
<1>4. StepNow(i) => \/ ready' = [ready EXCEPT ![scan] = @ \cup {i}] /\ progress' = TRUE
                    \/ Kept(i) /\ ~CanStep(scan, i)
  BY <1>2, TypeResolve DEF StepNow, Kept
<1>5. UNCHANGED unstepped => Kept(i)
  BY DEF unstepped, Kept
<1>6. CASE ScanPure(i)
  <2>1. prog[scan][i].ord = "None" /\ ~Mem(scan, i)
    BY <1>2, <1>6, ThunkFacts DEF ScanPure
  <2> QED
    BY <1>1, <1>2, <1>3, <1>4, <1>6, <2>1 DEF ScanPure, DidStep, DidFail
<1>7. CASE ScanUnknown(i)
  BY <1>1, <1>2, <1>3, <1>5, <1>7 DEF ScanUnknown, DidStop, Break
<1>8. CASE ScanAliased(i)
  BY <1>1, <1>2, <1>3, <1>5, <1>8 DEF ScanAliased, DidSkip, Clear
<1>9. CASE ScanNone(i)
  <2>1. Mem(scan, i) /\ Clear(i) /\ Covered(i) /\ prog[scan][i].ord = "None"
    BY <1>9 DEF ScanNone, Unaliased, Clear, Covered
  <2> QED
    BY <1>1, <1>2, <1>3, <1>4, <1>9, <2>1 DEF ScanNone, DidStep, DidFail
<1>10. CASE ScanRelaxed(i) \/ ScanRelease(i) \/ ScanAcquire(i)
  <2>1. Mem(scan, i) /\ Clear(i) /\ Covered(i) /\ Kept(i)
    BY <1>5, <1>10 DEF ScanRelaxed, ScanRelease, ScanAcquire, Unaliased, Clear, Covered
  <2>2. CASE ScanRelaxed(i)
    BY <1>1, <1>2, <1>3, <2>1, <2>2
       DEF ScanRelaxed, Unaliased, Offer, DidOffer, AcquireClass
  <2>3. CASE ScanRelease(i)
    BY <1>1, <1>2, <1>3, <2>1, <2>3
       DEF ScanRelease, Unaliased, Offer, DidOffer, DidHold, AcquireClass
  <2>4. CASE ScanAcquire(i)
    BY <1>1, <1>2, <1>3, <2>1, <2>4
       DEF ScanAcquire, Unaliased, Offer, Break, DidOffer, AcquireClass
  <2> QED
    BY <1>10, <2>2, <2>3, <2>4
<1> QED
  BY <1>6, <1>7, <1>8, <1>9, <1>10 DEF ScanThunk

\* The end of Process::step: nothing or one operation on offer becomes Ready,
\* and what follows is not a pass.
LEMMA ChooseFacts ==
  ASSUME TypeInv,
         Reap \/ Exit \/ \E x \in resolvable : ChooseStep(x[1], x[2]) \/ ChoosePanic(x[1], x[2])
  PROVE  /\ UNCHANGED <<prog, progress>>
         /\ phase \in {"reap", "choose"} /\ phase' # "pure"
         /\ \/ /\ UNCHANGED <<ready>>
               /\ resolvable' \in {{}, resolvable}
               /\ phase' \in {"reap", "choose"} => phase = "reap" /\ ~progress
            \/ /\ phase = "choose" /\ phase' = "decode" /\ resolvable' = {}
               /\ \E x \in resolvable :
                    /\ x[1] \in ThreadId /\ x[2] \in thunks[x[1]]
                    /\ ready' = [ready EXCEPT ![x[1]] = @ \cup {x[2]}]
<1>1. CASE Reap
  BY <1>1 DEF Reap
<1>2. CASE Exit
  BY <1>2 DEF Exit, chooseStatic
<1>3. ASSUME NEW x \in resolvable, ChooseStep(x[1], x[2]) \/ ChoosePanic(x[1], x[2])
      PROVE  /\ UNCHANGED <<prog, progress>>
             /\ phase = "choose"
             /\ \/ /\ UNCHANGED <<ready, resolvable>>
                   /\ phase' = "panic_step"
                \/ /\ phase' = "decode" /\ resolvable' = {}
                   /\ x[1] \in ThreadId /\ x[2] \in thunks[x[1]]
                   /\ ready' = [ready EXCEPT ![x[1]] = @ \cup {x[2]}]
  <2>1. x[1] \in ThreadId /\ x[2] \in thunks[x[1]]
    BY DEF TypeInv, TypeOK
  <2>2. Resolve(x[1], x[2]) => ready' = [ready EXCEPT ![x[1]] = @ \cup {x[2]}]
    BY <2>1, TypeResolve
  <2> QED
    BY <1>3, <2>1, <2>2 DEF ChooseStep, ChoosePanic, chooseStatic
<1> QED
  BY <1>1, <1>2, <1>3

-----------------------------------------------------------------------------
(* The release barrier                                                     *)

ReleaseInv == InvScan /\ InvRelease /\ ReleaseBarrier

\* Looking at one thunk keeps the release invariant.
LEMMA ReleaseScan ==
  ASSUME TypeInv, ReleaseInv, NEW i \in thunks[scan], ScanThunk(i)
  PROVE  ReleaseInv'
<1> USE DEF ReleaseInv
<1>1. /\ UNCHANGED <<prog, thunks, phase, scan>>
      /\ IsNext(i) /\ phase = "pure"
      /\ scan \in ThreadId /\ i \in Thunks(scan) /\ i \in Nat /\ pos \in Nat
      /\ DidStep(i) \/ DidFail(i) \/ DidStop(i) \/ DidSkip(i) \/ DidOffer(i) \/ DidHold(i)
  BY ScanOutcome
<1>2. \A u : Thunks(u)' = Thunks(u)
  BY <1>1 DEF Thunks
<1>3. CASE DidStep(i)
  <2>1. progress' = TRUE /\ phase' = "pure"
    BY <1>1, <1>3 DEF DidStep
  <2>2. InvScan' /\ InvRelease'
    BY <2>1 DEF InvScan, InvRelease
  <2>3. ReleaseBarrier'
    BY <1>1, <1>2, <1>3 DEF DidStep, ReleaseBarrier, TypeInv, TypeOK
  <2> QED
    BY <2>2, <2>3
<1>4. CASE DidFail(i) \/ DidStop(i) \/ DidSkip(i) \/ DidOffer(i) \/ DidHold(i)
  <2>1. UNCHANGED <<ready, progress>>
    BY <1>4 DEF DidFail, DidStop, DidSkip, DidOffer, DidHold, Kept
  <2>2. ReleaseBarrier'
    BY <1>1, <1>2, <2>1 DEF ReleaseBarrier
  <2>3. ~progress /\ resolvable = {} => DidOffer(i)
    BY <1>1, <1>4, OldestSteps DEF DidFail, DidStop, DidSkip, DidHold, Clear
  <2>4. InvScan'
    <3>1. DidOffer(i) => resolvable' # {}
      BY DEF DidOffer
    <3>2. resolvable # {} => resolvable' # {}
      BY <1>4 DEF DidFail, DidStop, DidSkip, DidOffer, DidHold
    <3> QED
      BY <1>1, <2>1, <2>3, <3>1, <3>2 DEF InvScan
  <2>5. InvRelease'
    <3> SUFFICES ASSUME ~progress, NEW x \in resolvable', prog[x[1]][x[2]].ord = "Release",
                        NEW k \in Thunks(x[1]), k < x[2]
                 PROVE  k \in ready[x[1]]
      BY <1>1, <1>2, <2>1 DEF InvRelease
    <3>1. CASE x \in resolvable
      BY <1>1, <3>1 DEF InvRelease
    <3>2. CASE x \notin resolvable
      <4>1. x = <<scan, i>> /\ resolvable = {}
        BY <1>4, <3>2 DEF DidFail, DidStop, DidSkip, DidOffer, DidHold
      <4> QED
        BY <1>1, <4>1, OldestSteps
    <3> QED
      BY <3>1, <3>2
  <2> QED
    BY <2>2, <2>4, <2>5
<1> QED
  BY <1>1, <1>3, <1>4

\* The release invariant is inductive.
LEMMA ReleaseNext ==
  ASSUME TypeInv, ReleaseInv, [Next]_vars
  PROVE  ReleaseInv'
<1>1. CASE \E t \in ThreadId : Decode(t)
  <2>1. UNCHANGED <<prog, ready>> /\ phase' \notin {"pure", "reap", "choose"}
    BY <1>1, DecodeFacts
  <2> QED
    BY <2>1 DEF ReleaseInv, InvScan, InvRelease, ReleaseBarrier, Thunks
<1>2. CASE StartPass \/ NextThread
  <2>1. /\ UNCHANGED <<prog, ready, resolvable>>
        /\ phase' \in {"pure", "reap"}
        /\ phase = "decode" \/ (phase = "pure" /\ UNCHANGED progress)
        /\ phase' = "pure" =>
              /\ pending' = {} /\ pos' = 0
              /\ thunks'[scan'] \cap ready'[scan'] = {}
              /\ \A i \in thunks'[scan'] : i > 0
    BY <1>2, EnterFacts
  <2>2. phase = "decode" => resolvable = {}
    BY DEF TypeInv, InvOffers
  <2>3. InvScan'
    BY <2>1 DEF InvScan
  <2>4. InvRelease'
    BY <2>1, <2>2 DEF ReleaseInv, InvRelease, Thunks
  <2>5. ReleaseBarrier'
    BY <2>1 DEF ReleaseInv, ReleaseBarrier, Thunks
  <2> QED
    BY <2>3, <2>4, <2>5 DEF ReleaseInv
<1>3. CASE \E i \in thunks[scan] : ScanThunk(i)
  BY <1>3, ReleaseScan
<1>4. CASE Reap \/ Exit \/ \E x \in resolvable : ChooseStep(x[1], x[2]) \/ ChoosePanic(x[1], x[2])
  <2>1. UNCHANGED <<prog, progress>> /\ phase \in {"reap", "choose"} /\ phase' # "pure"
    BY <1>4, ChooseFacts
  <2>2. \A u : Thunks(u)' = Thunks(u)
    BY <2>1 DEF Thunks
  <2>3. CASE /\ UNCHANGED <<ready>>
             /\ resolvable' \in {{}, resolvable}
             /\ phase' \in {"reap", "choose"} => phase = "reap" /\ ~progress
    BY <2>1, <2>2, <2>3 DEF ReleaseInv, InvScan, InvRelease, ReleaseBarrier
  <2>4. CASE /\ phase = "choose" /\ phase' = "decode" /\ resolvable' = {}
             /\ \E x \in resolvable :
                  /\ x[1] \in ThreadId /\ x[2] \in thunks[x[1]]
                  /\ ready' = [ready EXCEPT ![x[1]] = @ \cup {x[2]}]
    <3>1. PICK x \in resolvable :
                  /\ x[1] \in ThreadId /\ x[2] \in thunks[x[1]]
                  /\ ready' = [ready EXCEPT ![x[1]] = @ \cup {x[2]}]
      BY <2>4
    <3>2. prog[x[1]][x[2]].ord = "Release" =>
            \A i \in Thunks(x[1]) : i < x[2] => i \in ready[x[1]]
      BY <2>4 DEF ReleaseInv, InvRelease
    <3>3. ReleaseBarrier'
      BY <2>1, <2>2, <3>1, <3>2 DEF ReleaseInv, ReleaseBarrier, TypeInv, TypeOK
    <3> QED
      BY <2>4, <3>3 DEF ReleaseInv, InvScan, InvRelease
  <2> QED
    BY <1>4, <2>3, <2>4, ChooseFacts
<1>5. CASE UNCHANGED vars
  BY <1>5 DEF vars, ReleaseInv, InvScan, InvRelease, ReleaseBarrier, Thunks
<1> QED
  BY <1>1, <1>2, <1>3, <1>4, <1>5 DEF Next

\* In the initial state nothing is Ready and no pass is under way.
LEMMA ReleaseInit == Init => ReleaseInv
<1> SUFFICES ASSUME Init PROVE ReleaseInv
  OBVIOUS
<1>1. phase = "decode" /\ \A t \in ThreadId : ready[t] = {}
  BY DEF Init
<1> QED
  BY <1>1 DEF ReleaseInv, InvScan, InvRelease, ReleaseBarrier

\* The release barrier holds in every reachable state of every program: when a
\* release is Ready, so is everything before it in its thread.
THEOREM ReleaseBarrierHolds == Spec => []ReleaseBarrier
<1>1. Init => TypeInv /\ ReleaseInv
  BY TypeInit, ReleaseInit
<1>2. TypeInv /\ ReleaseInv /\ [Next]_vars => TypeInv' /\ ReleaseInv'
  BY TypeNext, ReleaseNext
<1>3. ReleaseInv => ReleaseBarrier
  BY DEF ReleaseInv
<1> QED
  BY <1>1, <1>2, <1>3, PTL DEF Spec

-----------------------------------------------------------------------------
(* Program order per location and the acquire barrier                      *)

OrderInv ==
  /\ InvPending /\ InvPassed /\ InvCoherence /\ Coherence
  /\ InvStopped /\ InvAcquire /\ AcquireBarrier

\* The program does not change, and with it what is defined from it alone.
LEMMA StaticFacts ==
  ASSUME prog' = prog
  PROVE  /\ \A u : MemOps(u)' = MemOps(u) /\ (Uniform(u)' <=> Uniform(u))
         /\ \A u, i : (Mem(u, i)' <=> Mem(u, i)) /\ (Unshadowed(u, i)' <=> Unshadowed(u, i))
         /\ \A u, i, j : Overlap(u, i, j)' <=> Overlap(u, i, j)
  BY DEF MemOps, Thunks, Uniform, Mem, Unshadowed, Overlap

\* The next thunk of a scan, if it is not aliased, overlaps no earlier pending
\* access; and no acquire is pending before it that aliases nothing earlier.
LEMMA NextIsOrdered ==
  ASSUME TypeInv, OrderInv, NEW i \in thunks[scan], IsNext(i), NEW k \in MemOps(scan), k < i,
         k \notin ready[scan]
  PROVE  /\ Clear(i) /\ Uniform(scan) => ~Overlap(scan, k, i)
         /\ prog[scan][k].ord \in AcquireClass => ~Unshadowed(scan, k)
<1>1. k \in thunks[scan] /\ k <= pos /\ Mem(scan, k)
  BY BeforeNext DEF MemOps
<1>2. phase = "pure" /\ ~(\A j \in thunks[scan] : j <= pos)
  <2>1. i > pos /\ phase = "pure"
    BY DEF IsNext
  <2>2. i \in Nat /\ pos \in Nat
    BY DEF TypeInv, TypeOK
  <2> QED
    BY <2>1, <2>2
<1>3. Uniform(scan) => prog[scan][k].range \subseteq pending
  BY <1>1, <1>2 DEF OrderInv, InvPassed
<1>4. prog[scan][k].ord \in AcquireClass => ~Unshadowed(scan, k)
  BY <1>1, <1>2 DEF OrderInv, InvStopped
<1> QED
  BY <1>3, <1>4 DEF Clear, Overlap

\* An aliased thunk overlaps an earlier access, whose range pending covers.
LEMMA SkippedIsShadowed ==
  ASSUME TypeInv, OrderInv, NEW i \in thunks[scan], IsNext(i), Mem(scan, i), ~Clear(i)
  PROVE  ~Unshadowed(scan, i) /\ (Uniform(scan) => prog[scan][i].range \subseteq pending)
<1>1. scan \in ThreadId /\ i \in MemOps(scan) /\ i \in Nat /\ pos \in Nat /\ i > pos /\ phase = "pure"
  <2>1. scan \in ThreadId /\ pos \in Nat /\ i \in Nat
    BY DEF TypeInv, TypeOK
  <2>2. i \in Thunks(scan)
    BY <2>1, DeclaredFacts DEF TypeInv
  <2> QED
    BY <2>1, <2>2 DEF MemOps, IsNext
<1>2. PICK b \in pending : b \in prog[scan][i].range
  BY DEF Clear
<1>3. PICK k \in MemOps(scan) :
        k <= pos /\ b \in prog[scan][k].range /\ prog[scan][k].range \subseteq pending
  BY <1>1 DEF OrderInv, InvPending
<1>4. k \in Nat
  BY <1>1, ThunkFacts DEF MemOps, TypeInv, InvProgram
<1>5. k < i /\ Overlap(scan, k, i)
  BY <1>1, <1>2, <1>3, <1>4 DEF Overlap
<1>6. ~Unshadowed(scan, i)
  BY <1>3, <1>5 DEF Unshadowed
<1>7. Uniform(scan) => prog[scan][k].range = prog[scan][i].range
  BY <1>1, <1>3, <1>5 DEF Uniform
<1> QED
  BY <1>3, <1>6, <1>7

\* Looking at one thunk keeps pending and the passed accesses in step.
LEMMA OrderScanPass ==
  ASSUME TypeInv, OrderInv, NEW i \in thunks[scan], ScanThunk(i)
  PROVE  InvPending' /\ InvPassed' /\ InvStopped'
<1>1. /\ UNCHANGED <<prog, thunks, phase, scan>>
      /\ IsNext(i) /\ phase = "pure"
      /\ scan \in ThreadId /\ i \in Thunks(scan) /\ i \in Nat /\ pos \in Nat
      /\ prog \in Programs
      /\ DidStep(i) \/ DidFail(i) \/ DidStop(i) \/ DidSkip(i) \/ DidOffer(i) \/ DidHold(i)
  BY ScanOutcome
<1>2. /\ \A u : MemOps(u)' = MemOps(u) /\ (Uniform(u)' <=> Uniform(u))
      /\ \A u, k : (Mem(u, k)' <=> Mem(u, k)) /\ (Unshadowed(u, k)' <=> Unshadowed(u, k))
  BY <1>1, StaticFacts
<1>3. /\ \A k \in Thunks(scan) : k \in Nat /\ k <= Len(prog[scan])
      /\ thunks[scan] \subseteq Thunks(scan)
      /\ Len(prog[scan]) \in Nat
  <2>1. prog[scan] \in Seq(Instrs)
    BY <1>1 DEF TypeInv, TypeOK
  <2> QED
    BY <1>1, <2>1, ThunkFacts, DeclaredFacts DEF TypeInv
<1>4. i > pos /\ \A k \in thunks[scan] : k <= i => k <= pos \/ k = i
  BY <1>1, <1>3 DEF IsNext
<1>5. pos' \in {i, Len(prog[scan])} /\ pos' \in Nat /\ pos <= pos' /\ i <= pos'
  BY <1>1, <1>3, <1>4 DEF DidStep, DidFail, DidStop, DidSkip, DidOffer, DidHold
<1>6. \/ pending' = pending
      \/ pending' = pending \cup prog[scan][i].range /\ Mem(scan, i)
  BY <1>1 DEF DidStep, DidFail, DidStop, DidSkip, DidOffer, DidHold, Covered
<1>7. InvPending'
  <2> SUFFICES ASSUME NEW b \in pending'
               PROVE  \E k \in MemOps(scan) :
                        /\ k <= pos' /\ b \in prog[scan][k].range
                        /\ prog[scan][k].range \subseteq pending'
    BY <1>1, <1>2 DEF InvPending
  <2>1. CASE b \in pending
    <3>1. PICK k \in MemOps(scan) :
            k <= pos /\ b \in prog[scan][k].range /\ prog[scan][k].range \subseteq pending
      BY <1>1, <2>1 DEF OrderInv, InvPending
    <3>2. k \in Nat
      BY <1>3 DEF MemOps
    <3> QED
      BY <1>1, <1>5, <1>6, <3>1, <3>2
  <2>2. CASE b \notin pending
    <3>1. b \in prog[scan][i].range /\ i \in MemOps(scan) /\ prog[scan][i].range \subseteq pending'
      BY <1>1, <1>6, <2>2 DEF MemOps
    <3> QED
      BY <1>5, <3>1
  <2> QED
    BY <2>1, <2>2
<1>8. CASE pos' = Len(prog[scan])
  BY <1>1, <1>3, <1>7, <1>8 DEF InvPassed, InvStopped
<1>9. CASE pos' = i /\ pos' # Len(prog[scan])
  <2>1. ~(\A k \in thunks[scan] : k <= pos)
    BY <1>1, <1>4
  <2>2. Mem(scan, i) /\ Uniform(scan) => prog[scan][i].range \subseteq pending'
    <3>1. DidSkip(i) => pending' = pending /\ ~Clear(i)
      BY DEF DidSkip
    <3>2. ~DidStop(i)
      BY <1>9 DEF DidStop
    <3> QED
      BY <1>1, <3>1, <3>2, SkippedIsShadowed
         DEF DidStep, DidFail, DidOffer, DidHold, Covered
  <2>3. Mem(scan, i) /\ prog[scan][i].ord \in AcquireClass => ~Unshadowed(scan, i)
    <3>1. CASE DidSkip(i)
      BY <1>1, <3>1, SkippedIsShadowed DEF DidSkip
    <3> QED
      BY <1>1, <1>9, <3>1 DEF DidStep, DidFail, DidStop, DidOffer, DidHold, AcquireClass
  <2>4. \A k \in thunks[scan] : k <= pos /\ Mem(scan, k) /\ Uniform(scan) =>
          prog[scan][k].range \subseteq pending
    BY <1>1, <2>1 DEF OrderInv, InvPassed
  <2>5. \A k \in thunks[scan] : k <= pos /\ Mem(scan, k) /\ prog[scan][k].ord \in AcquireClass =>
          ~Unshadowed(scan, k)
    BY <1>1, <2>1 DEF OrderInv, InvStopped
  <2>6. InvPassed'
    BY <1>1, <1>2, <1>4, <1>6, <1>9, <2>2, <2>4 DEF InvPassed
  <2>7. InvStopped'
    BY <1>1, <1>2, <1>4, <1>9, <2>3, <2>5 DEF InvStopped
  <2> QED
    BY <1>7, <2>6, <2>7
<1> QED
  BY <1>5, <1>8, <1>9

\* Looking at one thunk keeps the order of the completed and offered accesses.
LEMMA OrderScanReady ==
  ASSUME TypeInv, OrderInv, NEW i \in thunks[scan], ScanThunk(i)
  PROVE  InvCoherence' /\ Coherence' /\ InvAcquire' /\ AcquireBarrier'
<1>1. /\ UNCHANGED <<prog, thunks, phase, scan>>
      /\ IsNext(i) /\ scan \in ThreadId
      /\ DidStep(i) \/ DidFail(i) \/ DidStop(i) \/ DidSkip(i) \/ DidOffer(i) \/ DidHold(i)
  BY ScanOutcome
<1>2. /\ \A u : MemOps(u)' = MemOps(u) /\ (Uniform(u)' <=> Uniform(u))
      /\ \A u, k : (Mem(u, k)' <=> Mem(u, k)) /\ (Unshadowed(u, k)' <=> Unshadowed(u, k))
      /\ \A u, k, j : Overlap(u, k, j)' <=> Overlap(u, k, j)
  BY <1>1, StaticFacts
<1>3. \A k \in MemOps(scan) : k < i /\ k \notin ready[scan] =>
        /\ Clear(i) /\ Uniform(scan) => ~Overlap(scan, k, i)
        /\ prog[scan][k].ord \in AcquireClass => ~Unshadowed(scan, k)
  BY <1>1, NextIsOrdered
<1>4. CASE DidStep(i)
  <2>1. /\ ready' = [ready EXCEPT ![scan] = @ \cup {i}] /\ resolvable' = resolvable
        /\ Mem(scan, i) => Clear(i)
        /\ ready \in [ThreadId -> SUBSET Nat]
    BY <1>4 DEF DidStep, TypeInv, TypeOK
  <2>2. \A u \in ThreadId : ready[u] \subseteq ready'[u] /\ (u # scan => ready'[u] = ready[u])
    BY <1>1, <2>1
  <2>3. \A x \in resolvable : x[1] \in ThreadId
    BY DEF TypeInv, TypeOK
  <2>4. ready'[scan] = ready[scan] \cup {i}
    BY <1>1, <2>1
  <2>5. InvCoherence'
    BY <1>1, <1>2, <2>1, <2>2, <2>3 DEF OrderInv, InvCoherence
  <2>6. InvAcquire'
    BY <1>1, <1>2, <2>1, <2>2, <2>3 DEF OrderInv, InvAcquire
  <2>7. Coherence'
    BY <1>1, <1>2, <1>3, <2>1, <2>2, <2>4 DEF OrderInv, Coherence
  <2>8. AcquireBarrier'
    BY <1>1, <1>2, <1>3, <2>1, <2>2, <2>4 DEF OrderInv, AcquireBarrier
  <2> QED
    BY <2>5, <2>6, <2>7, <2>8
<1>5. CASE DidFail(i) \/ DidStop(i) \/ DidSkip(i) \/ DidOffer(i) \/ DidHold(i)
  <2>1. /\ UNCHANGED ready
        /\ \/ resolvable' = resolvable
           \/ resolvable' = resolvable \cup {<<scan, i>>} /\ Clear(i)
    BY <1>5 DEF DidFail, DidStop, DidSkip, DidOffer, DidHold, Kept
  <2>2. Coherence' /\ AcquireBarrier'
    BY <1>1, <1>2, <2>1 DEF OrderInv, Coherence, AcquireBarrier
  <2>3. \A x \in resolvable' : x \in resolvable \/ (x = <<scan, i>> /\ Clear(i))
    BY <2>1
  <2>4. InvCoherence'
    BY <1>1, <1>2, <1>3, <2>1, <2>3 DEF OrderInv, InvCoherence
  <2>5. InvAcquire'
    BY <1>1, <1>2, <1>3, <2>1, <2>3 DEF OrderInv, InvAcquire
  <2> QED
    BY <2>2, <2>4, <2>5
<1> QED
  BY <1>1, <1>4, <1>5

\* The order invariant is inductive.
LEMMA OrderNext ==
  ASSUME TypeInv, OrderInv, [Next]_vars
  PROVE  OrderInv'
<1>1. CASE \E t \in ThreadId : Decode(t)
  <2>1. UNCHANGED <<prog, ready, resolvable>> /\ phase' # "pure"
    BY <1>1, DecodeFacts
  <2>2. InvPending' /\ InvPassed' /\ InvStopped'
    BY <2>1 DEF InvPending, InvPassed, InvStopped
  <2>3. InvCoherence' /\ Coherence' /\ InvAcquire' /\ AcquireBarrier'
    BY <2>1, StaticFacts DEF OrderInv, InvCoherence, Coherence, InvAcquire, AcquireBarrier
  <2> QED
    BY <2>2, <2>3 DEF OrderInv
<1>2. CASE StartPass \/ NextThread
  <2>1. /\ UNCHANGED <<prog, ready, resolvable>>
        /\ phase' = "pure" =>
              /\ pending' = {} /\ pos' = 0
              /\ \A i \in thunks'[scan'] : i > 0
    BY <1>2, EnterFacts
  <2>2. phase' = "pure" => \A i \in thunks'[scan'] : ~(i <= pos')
    <3>1. TypeInv'
      BY TypeEnter, <1>2
    <3>2. \A i \in thunks'[scan'] : i \in Nat
      BY <3>1 DEF TypeInv, TypeOK
    <3> QED
      BY <2>1, <3>2
  <2>3. InvPending' /\ InvPassed' /\ InvStopped'
    BY <2>1, <2>2 DEF InvPending, InvPassed, InvStopped
  <2>4. InvCoherence' /\ Coherence' /\ InvAcquire' /\ AcquireBarrier'
    BY <2>1, StaticFacts DEF OrderInv, InvCoherence, Coherence, InvAcquire, AcquireBarrier
  <2> QED
    BY <2>3, <2>4 DEF OrderInv
<1>3. CASE \E i \in thunks[scan] : ScanThunk(i)
  BY <1>3, OrderScanPass, OrderScanReady DEF OrderInv
<1>4. CASE Reap \/ Exit \/ \E x \in resolvable : ChooseStep(x[1], x[2]) \/ ChoosePanic(x[1], x[2])
  <2>1. prog' = prog /\ phase' # "pure"
    BY <1>4, ChooseFacts
  <2>2. InvPending' /\ InvPassed' /\ InvStopped'
    BY <2>1 DEF InvPending, InvPassed, InvStopped
  <2>3. CASE UNCHANGED <<ready>> /\ resolvable' \in {{}, resolvable}
    BY <2>1, <2>2, <2>3, StaticFacts
       DEF OrderInv, InvCoherence, Coherence, InvAcquire, AcquireBarrier
  <2>4. CASE /\ resolvable' = {}
             /\ \E x \in resolvable :
                  /\ x[1] \in ThreadId /\ x[2] \in thunks[x[1]]
                  /\ ready' = [ready EXCEPT ![x[1]] = @ \cup {x[2]}]
    <3>1. PICK x \in resolvable :
                  /\ x[1] \in ThreadId /\ x[2] \in thunks[x[1]]
                  /\ ready' = [ready EXCEPT ![x[1]] = @ \cup {x[2]}]
      BY <2>4
    <3>2. /\ \A u \in ThreadId : ready[u] \subseteq ready'[u] /\ (u # x[1] => ready'[u] = ready[u])
          /\ ready'[x[1]] = ready[x[1]] \cup {x[2]}
      BY <3>1 DEF TypeInv, TypeOK
    <3>3. InvCoherence' /\ InvAcquire'
      BY <2>4 DEF InvCoherence, InvAcquire
    <3>4. Uniform(x[1]) =>
            \A i \in MemOps(x[1]) : i < x[2] /\ Overlap(x[1], i, x[2]) => i \in ready[x[1]]
      BY DEF OrderInv, InvCoherence
    <3>5. Coherence'
      BY <2>1, <3>1, <3>2, <3>4, StaticFacts DEF OrderInv, Coherence
    <3>6. \A i \in MemOps(x[1]) :
            i < x[2] /\ prog[x[1]][i].ord \in AcquireClass /\ Unshadowed(x[1], i) =>
              i \in ready[x[1]]
      BY DEF OrderInv, InvAcquire
    <3>7. AcquireBarrier'
      BY <2>1, <3>1, <3>2, <3>6, StaticFacts DEF OrderInv, AcquireBarrier
    <3> QED
      BY <2>2, <3>3, <3>5, <3>7 DEF OrderInv
  <2> QED
    BY <1>4, <2>3, <2>4, ChooseFacts
<1>5. CASE UNCHANGED vars
  <2>1. prog' = prog
    BY <1>5 DEF vars
  <2> QED
    BY <1>5, <2>1, StaticFacts
       DEF vars, OrderInv, InvPending, InvPassed, InvStopped, InvCoherence, Coherence,
           InvAcquire, AcquireBarrier
<1> QED
  BY <1>1, <1>2, <1>3, <1>4, <1>5 DEF Next

\* In the initial state nothing is Ready, nothing is on offer and no pass is
\* under way.
LEMMA OrderInit == Init => OrderInv
<1> SUFFICES ASSUME Init PROVE OrderInv
  OBVIOUS
<1>1. phase = "decode" /\ resolvable = {} /\ \A t \in ThreadId : ready[t] = {}
  BY DEF Init
<1> QED
  BY <1>1 DEF OrderInv, InvPending, InvPassed, InvStopped, InvCoherence, Coherence, InvAcquire,
              AcquireBarrier

\* Accesses of one thread to one location complete in program order, in every
\* reachable state of every program whose overlapping ranges are equal.
THEOREM CoherenceHolds == Spec => []Coherence
<1>1. Init => TypeInv /\ OrderInv
  BY TypeInit, OrderInit
<1>2. TypeInv /\ OrderInv /\ [Next]_vars => TypeInv' /\ OrderInv'
  BY TypeNext, OrderNext
<1>3. OrderInv => Coherence
  BY DEF OrderInv
<1> QED
  BY <1>1, <1>2, <1>3, PTL DEF Spec

\* No memory access completes before an earlier acquire of its thread that
\* aliases nothing before it, in every reachable state of every program.
THEOREM AcquireBarrierHolds == Spec => []AcquireBarrier
<1>1. Init => TypeInv /\ OrderInv
  BY TypeInit, OrderInit
<1>2. TypeInv /\ OrderInv /\ [Next]_vars => TypeInv' /\ OrderInv'
  BY TypeNext, OrderNext
<1>3. OrderInv => AcquireBarrier
  BY DEF OrderInv
<1> QED
  BY <1>1, <1>2, <1>3, PTL DEF Spec

-----------------------------------------------------------------------------
(* Orderings                                                               *)

\* ordering.rs, union: the ordering a cmpxchg gets is the weakest one that is
\* at least as strong as its success and its failure ordering.
THEOREM UnionIsLub == \A a, b \in Orderings : IsLub(a, b, Union(a, b))
<1> SUFFICES ASSUME NEW a \in Orderings, NEW b \in Orderings
             PROVE  IsLub(a, b, Union(a, b))
  OBVIOUS
<1>1. /\ Rank["None"] = 0 /\ Rank["Relaxed"] = 1 /\ Rank["Acquire"] = 2
      /\ Rank["Release"] = 2 /\ Rank["AcqRel"] = 3 /\ Rank["SeqCst"] = 4
  BY DEF Rank, Orderings
<1>2. AtMost(a, Union(a, b)) /\ AtMost(b, Union(a, b))
  BY <1>1 DEF AtMost, Union, Orderings
<1>3. ASSUME NEW d \in Orderings, AtMost(a, d), AtMost(b, d)
      PROVE  AtMost(Union(a, b), d)
  BY <1>1, <1>3 DEF AtMost, Union, Orderings
<1> QED BY <1>2, <1>3 DEF IsLub

-----------------------------------------------------------------------------
(* Message passing: the invariant, in parts                                *)

\* What memory holds was written by thunks that are Ready.
InvMem == \A b \in Byte : mem[b][2] # 0 => mem[b][2] \in ready[mem[b][1]]

\* Whatever has read is a memory access that is Ready, and so is what it read.
InvReads ==
  \A e \in reads :
    /\ e[1][2] \in ready[e[1][1]] /\ Mem(e[1][1], e[1][2])
    /\ e[3][2] # 0 => e[3][2] \in ready[e[3][1]]

\* w of s overwrites byte c.
Overwrites(s, w, c) == prog[s][w].access \in {"store", "rmw"} /\ c \in prog[s][w].range

\* v is neither the initial value nor a write of s before w.
NotBefore(v, s, w) == v # Zero /\ ~(v[1] = s /\ v[2] < w)

\* When a write is Ready, memory holds nothing from before it.
InvNewest ==
  \A s \in ThreadId : Uniform(s) =>
    \A w \in ready[s] : \A c \in Byte : Overwrites(s, w, c) => NotBefore(mem[c], s, w)

MessageInv == InvMem /\ InvReads /\ InvNewest /\ MessagePassing

-----------------------------------------------------------------------------
(* The only step that touches memory                                       *)

\* A pending thunk that can step is resolved.
Performs(t, i) == CanStep(t, i) /\ Resolve(t, i)

\* Memory, the history of loads and the Ready thunks change together, when one
\* thunk is resolved.
LEMMA MemoryKinds ==
  ASSUME TypeInv, [Next]_vars
  PROVE  /\ UNCHANGED prog
         /\ \/ UNCHANGED <<ready, mem, reads>>
            \/ \E t \in ThreadId : \E i \in thunks[t] : Performs(t, i)
<1>1. ASSUME NEW t \in ThreadId, Decode(t)
      PROVE  UNCHANGED <<prog, ready, mem, reads>>
  BY <1>1 DEF Decode, Poll, Declare, BlockPipeline, AwaitReady, AwaitPending, AwaitPanic,
              Create, JoinDone, JoinWait, JoinPanic, Finish, pipelineVars
<1>2. CASE StartPass \/ NextThread \/ Reap \/ Exit
  BY <1>2 DEF StartPass, NextThread, Reap, Exit, chooseStatic
<1>3. ASSUME NEW i \in thunks[scan], ScanThunk(i)
      PROVE  UNCHANGED prog /\ (UNCHANGED <<ready, mem, reads>> \/ Performs(scan, i))
  <2>1. UNCHANGED prog
    BY <1>3, ScanFacts DEF scanStatic
  <2>2. StepNow(i) => UNCHANGED <<ready, mem, reads>> \/ Performs(scan, i)
    BY DEF StepNow, Performs
  <2>3. UNCHANGED unstepped => UNCHANGED <<ready, mem, reads>>
    BY DEF unstepped
  <2> QED
    BY <1>3, <2>1, <2>2, <2>3 DEF ScanThunk, ScanPure, ScanUnknown, ScanAliased, ScanNone,
                                  ScanRelaxed, ScanRelease, ScanAcquire
<1>4. ASSUME NEW x \in resolvable, ChooseStep(x[1], x[2]) \/ ChoosePanic(x[1], x[2])
      PROVE  UNCHANGED prog /\ (UNCHANGED <<ready, mem, reads>> \/ Performs(x[1], x[2]))
  BY <1>4 DEF ChooseStep, ChoosePanic, chooseStatic, Performs
<1>5. CASE UNCHANGED vars
  BY <1>5 DEF vars
<1>6. scan \in ThreadId /\ \A x \in resolvable : x[1] \in ThreadId /\ x[2] \in thunks[x[1]]
  BY DEF TypeInv, TypeOK
<1> QED
  BY <1>1, <1>2, <1>3, <1>4, <1>5, <1>6 DEF Next

\* What resolving thunk i of t does: it becomes Ready, what it loads is what
\* memory held, and it overwrites its range if it must.
LEMMA PerformFacts ==
  ASSUME TypeInv, NEW t \in ThreadId, NEW i \in thunks[t], Performs(t, i)
  PROVE  /\ i \in Thunks(t) /\ i \in Nat /\ i # 0 /\ i \notin ready[t]
         /\ prog[t][i].range \subseteq Byte
         /\ ready'[t] = ready[t] \cup {i}
         /\ \A u \in ThreadId : u # t => ready'[u] = ready[u]
         /\ \A e \in reads' : e \notin reads =>
              \E b \in prog[t][i].range : e = <<<<t, i>>, b, mem[b]>> /\ Mem(t, i)
         /\ reads \subseteq reads'
         /\ \A c \in Byte : mem'[c] = mem[c] \/ (mem'[c] = <<t, i>> /\ Mem(t, i) /\ c \in prog[t][i].range)
         /\ \A c \in Byte : Overwrites(t, i, c) => mem'[c] = <<t, i>>
<1>1. i \in Thunks(t)
  BY DeclaredFacts DEF TypeInv
<1>2. i \in Nat /\ i # 0 /\ prog[t][i].range \subseteq Byte
  BY <1>1, ThunkFacts DEF TypeInv, InvProgram
<1>3. i \notin ready[t]
  BY DEF Performs, CanStep
<1>4. /\ ready'[t] = ready[t] \cup {i}
      /\ \A u \in ThreadId : u # t => ready'[u] = ready[u]
  BY DEF Performs, Resolve, TypeInv, TypeOK
<1>5. reads' = reads \cup {<<<<t, i>>, b, mem[b]>> :
                             b \in {c \in prog[t][i].range : DoesRead(prog[t][i].access)}}
  BY DEF Performs, Resolve
<1>6. DoesRead(prog[t][i].access) => Mem(t, i)
  BY DEF DoesRead, Mem
<1>7. PICK w \in MayWrite(prog[t][i].access) :
        mem' = [b \in Byte |-> IF w /\ b \in prog[t][i].range THEN <<t, i>> ELSE mem[b]]
  BY DEF Performs, Resolve
<1>8. w => Mem(t, i)
  BY DEF MayWrite, Mem
<1>9. prog[t][i].access \in {"store", "rmw"} => w
  BY DEF MayWrite
<1>10. \A c \in Byte : mem'[c] = mem[c] \/ (mem'[c] = <<t, i>> /\ Mem(t, i) /\ c \in prog[t][i].range)
  BY <1>7, <1>8
<1>11. \A c \in Byte : Overwrites(t, i, c) => mem'[c] = <<t, i>>
  BY <1>7, <1>9 DEF Overwrites
<1>12. \A e \in reads' : e \notin reads =>
         \E b \in prog[t][i].range : e = <<<<t, i>>, b, mem[b]>> /\ Mem(t, i)
  BY <1>5, <1>6
<1> QED
  BY <1>1, <1>2, <1>3, <1>4, <1>5, <1>10, <1>11, <1>12

\* Memory and the history name only Ready thunks.
LEMMA MemPerforms ==
  ASSUME TypeInv, InvMem, InvReads, NEW t \in ThreadId, NEW i \in thunks[t], Performs(t, i),
         prog' = prog
  PROVE  InvMem' /\ InvReads'
<1>1. \A u \in ThreadId : ready[u] \subseteq ready'[u]
  BY PerformFacts
<1>2. \A b \in Byte : mem[b] \in ThunkId
  BY DEF TypeInv, TypeOK
<1>3. \A e \in reads : e[1][1] \in ThreadId /\ e[3][1] \in ThreadId
  BY DEF TypeInv, TypeOK, ThunkId
<1>4. i \in ready'[t] /\ prog[t][i].range \subseteq Byte
  BY PerformFacts
<1>5. InvMem'
  <2> SUFFICES ASSUME NEW b \in Byte, mem'[b][2] # 0
               PROVE  mem'[b][2] \in ready'[mem'[b][1]]
    BY DEF InvMem
  <2>1. CASE mem'[b] = mem[b]
    BY <1>1, <1>2, <2>1 DEF InvMem, ThunkId
  <2>2. CASE mem'[b] = <<t, i>>
    BY <1>4, <2>2
  <2> QED
    BY <2>1, <2>2, PerformFacts
<1>6. InvReads'
  <2> SUFFICES ASSUME NEW e \in reads'
               PROVE  /\ e[1][2] \in ready'[e[1][1]] /\ Mem(e[1][1], e[1][2])
                      /\ e[3][2] # 0 => e[3][2] \in ready'[e[3][1]]
    BY DEF InvReads, Mem
  <2>1. CASE e \in reads
    BY <1>1, <1>3, <2>1 DEF InvReads
  <2>2. CASE e \notin reads
    <3>1. PICK b \in prog[t][i].range : e = <<<<t, i>>, b, mem[b]>> /\ Mem(t, i)
      BY <2>2, PerformFacts
    <3>2. e[1][1] = t /\ e[1][2] = i /\ e[3] = mem[b] /\ b \in Byte /\ mem[b][1] \in ThreadId
      BY <1>2, <1>4, <3>1 DEF ThunkId
    <3> QED
      BY <1>1, <1>4, <3>1, <3>2 DEF InvMem
  <2> QED
    BY <2>1, <2>2
<1> QED
  BY <1>5, <1>6

\* A write hides what was written before it in its thread: were an older write
\* resolved after it, program order per location would be broken.
LEMMA NewestPerforms ==
  ASSUME TypeInv, InvNewest, Coherence, NEW t \in ThreadId, NEW i \in thunks[t], Performs(t, i),
         prog' = prog
  PROVE  InvNewest'
<1> SUFFICES ASSUME NEW s \in ThreadId, Uniform(s), NEW w \in ready'[s], NEW c \in Byte,
                    Overwrites(s, w, c)
             PROVE  NotBefore(mem'[c], s, w)
  <2>1. \A s \in ThreadId : Uniform(s)' <=> Uniform(s)
    BY StaticFacts
  <2>2. Zero' = Zero
    BY DEF Zero
  <2> QED
    BY <2>1, <2>2 DEF InvNewest, NotBefore, Overwrites
<1>1. /\ i \in Thunks(t) /\ i \in Nat /\ i # 0 /\ i \notin ready[t]
      /\ ready'[t] = ready[t] \cup {i}
      /\ \A u \in ThreadId : u # t => ready'[u] = ready[u]
  BY PerformFacts
<1>2. <<t, i>> # Zero
  BY <1>1 DEF Zero
<1>3. CASE w \notin ready[s]
  <2>1. s = t /\ w = i
    BY <1>1, <1>3
  <2>2. mem'[c] = <<t, i>>
    BY <2>1, PerformFacts
  <2> QED
    BY <1>1, <1>2, <2>1, <2>2 DEF NotBefore
<1>4. CASE w \in ready[s] /\ mem'[c] = mem[c]
  BY <1>4 DEF InvNewest
<1>5. CASE w \in ready[s] /\ mem'[c] = <<t, i>> /\ Mem(t, i) /\ c \in prog[t][i].range
  <2>1. SUFFICES ASSUME s = t, i < w PROVE FALSE
    BY <1>2, <1>5 DEF NotBefore
  <2>2. i \in MemOps(t) /\ Mem(t, w) /\ Overlap(t, i, w)
    BY <1>1, <1>5, <2>1 DEF MemOps, Mem, Overlap, Overwrites
  <2> QED
    BY <1>1, <1>5, <2>1, <2>2 DEF Coherence
<1> QED
  BY <1>3, <1>4, <1>5, PerformFacts

\* The premise of MessagePassing and its conclusion, for two loads.
Passes(e, f) ==
  LET t == e[1][1]  a == e[1][2]  s == e[3][1]  r == e[3][2]
  IN  /\ f[1][1] = t /\ a < f[1][2] /\ s # t /\ r # 0
      /\ Uniform(s)
      /\ prog[t][a].ord \in AcquireClass /\ Unshadowed(t, a)
      /\ prog[s][r].ord = "Release"

Received(e, f) ==
  \A w \in MemOps(e[3][1]) :
    WritesBefore(e[3][1], w, e[3][2], f[2]) => NotBefore(f[3], e[3][1], w)

\* MessagePassing, in terms of the two.
LEMMA PassingFacts ==
  MessagePassing <=> \A e, f \in reads : Passes(e, f) => Received(e, f)
BY DEF MessagePassing, Passes, Received, NotBefore

\* The argument of message passing.  A load after the acquire that is resolved
\* now finds everything before the release Ready, so memory holds nothing older;
\* and an acquire that is resolved now has no later load behind it.
LEMMA PassingPerforms ==
  ASSUME TypeInv, MessageInv, ReleaseBarrier, AcquireBarrier,
         NEW t \in ThreadId, NEW i \in thunks[t], Performs(t, i), prog' = prog
  PROVE  MessagePassing'
<1>1. \A e, f : (Passes(e, f)' <=> Passes(e, f)) /\ (Received(e, f)' <=> Received(e, f))
  BY StaticFacts DEF Passes, Received, NotBefore, WritesBefore, Zero
<1>2. SUFFICES ASSUME NEW e \in reads', NEW f \in reads', Passes(e, f)
               PROVE  Received(e, f)
  BY <1>1 DEF MessagePassing, Passes, Received, NotBefore
<1>3. CASE e \in reads /\ f \in reads
  BY <1>2, <1>3, PassingFacts DEF MessageInv
<1>4. CASE e \in reads /\ f \notin reads
  <2>1. PICK b \in prog[t][i].range : f = <<<<t, i>>, b, mem[b]>>
    BY <1>4, PerformFacts
  <2>2. b \in Byte /\ f[2] = b /\ f[3] = mem[b]
    BY <2>1, PerformFacts
  <2>3. e[3][1] \in ThreadId /\ e[3][2] \in ready[e[3][1]]
    BY <1>2, <1>4 DEF MessageInv, InvReads, Passes, TypeInv, TypeOK, ThunkId
  <2>4. ASSUME NEW w \in MemOps(e[3][1]), WritesBefore(e[3][1], w, e[3][2], b)
        PROVE  NotBefore(mem[b], e[3][1], w)
    <3>1. w \in Thunks(e[3][1]) /\ w < e[3][2] /\ Overwrites(e[3][1], w, b)
      BY <2>4 DEF MemOps, WritesBefore, Overwrites
    <3>2. w \in ready[e[3][1]]
      BY <1>2, <2>3, <3>1 DEF ReleaseBarrier, Passes
    <3> QED
      BY <1>2, <2>2, <2>3, <3>1, <3>2 DEF MessageInv, InvNewest, Passes
  <2> QED
    BY <2>2, <2>4 DEF Received
<1>5. CASE e \notin reads
  <2>1. PICK b \in prog[t][i].range : e = <<<<t, i>>, b, mem[b]>> /\ Mem(t, i)
    BY <1>5, PerformFacts
  <2>2. e[1][1] = t /\ e[1][2] = i /\ f[1][1] = t /\ i < f[1][2]
    BY <1>2, <2>1 DEF Passes
  <2>3. i \in MemOps(t) /\ i \notin ready[t] /\ i \in Nat
    BY <2>1, PerformFacts DEF MemOps
  <2>4. f \in reads
    <3>1. SUFFICES ASSUME f \notin reads PROVE FALSE
      OBVIOUS
    <3>2. f[1][2] = i
      BY <3>1, PerformFacts
    <3> QED
      BY <2>2, <2>3, <3>2
  <2>5. f[1][2] \in ready[t] /\ Mem(t, f[1][2])
    BY <2>2, <2>4 DEF MessageInv, InvReads
  <2> QED
    BY <1>2, <2>2, <2>3, <2>5 DEF AcquireBarrier, Passes
<1> QED
  BY <1>3, <1>4, <1>5

\* The invariant is inductive, given the barriers.
LEMMA MessageNext ==
  ASSUME TypeInv, ReleaseInv, OrderInv, MessageInv, [Next]_vars
  PROVE  MessageInv'
<1>1. ReleaseBarrier /\ Coherence /\ AcquireBarrier
  BY DEF ReleaseInv, OrderInv
<1>2. prog' = prog
  BY MemoryKinds
<1>3. CASE UNCHANGED <<ready, mem, reads>>
  <2>1. InvMem' /\ InvReads'
    BY <1>2, <1>3 DEF MessageInv, InvMem, InvReads, Mem
  <2>2. InvNewest'
    BY <1>2, <1>3, StaticFacts DEF MessageInv, InvNewest, NotBefore, Overwrites, Zero
  <2>3. MessagePassing'
    BY <1>2, <1>3, StaticFacts DEF MessageInv, MessagePassing, WritesBefore, Zero
  <2> QED
    BY <2>1, <2>2, <2>3 DEF MessageInv
<1>4. CASE \E t \in ThreadId : \E i \in thunks[t] : Performs(t, i)
  BY <1>1, <1>2, <1>4, MemPerforms, NewestPerforms, PassingPerforms DEF MessageInv
<1> QED
  BY <1>3, <1>4, MemoryKinds

\* Initially nothing is Ready and nothing has been read.
LEMMA MessageInit == Init => MessageInv
<1> SUFFICES ASSUME Init PROVE MessageInv
  OBVIOUS
<1>1. reads = {} /\ (\A t \in ThreadId : ready[t] = {}) /\ \A b \in Byte : mem[b] = Zero
  BY DEF Init
<1> QED
  BY <1>1 DEF MessageInv, InvMem, InvReads, InvNewest, MessagePassing, Zero

-----------------------------------------------------------------------------
(* Message passing: the theorem                                            *)

\* tests/src/main.rs, message passing through data.rs, step_pure: once an
\* acquire has read from a release of another thread, no later load of its
\* thread returns what memory held before a write that precedes the release.
THEOREM MessagesArrive == Spec => []MessagePassing
<1>1. Init => TypeInv /\ ReleaseInv /\ OrderInv /\ MessageInv
  BY TypeInit, ReleaseInit, OrderInit, MessageInit
<1>2. TypeInv /\ ReleaseInv /\ OrderInv /\ MessageInv /\ [Next]_vars
        => TypeInv' /\ ReleaseInv' /\ OrderInv' /\ MessageInv'
  BY TypeNext, ReleaseNext, OrderNext, MessageNext
<1>3. MessageInv => MessagePassing
  BY DEF MessageInv
<1> QED
  BY <1>1, <1>2, <1>3, PTL DEF Spec
=============================================================================
