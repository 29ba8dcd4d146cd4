----------------------------- MODULE DataFlow -----------------------------
(***************************************************************************)
(* The pipeline of the simulator: the control tasks that decode threads    *)
(* into thunks (src/src/interp.rs, src/src/flow.rs, src/src/thread.rs),    *)
(* the per-thread DataFlow that decides which thunks may complete          *)
(* (src/src/data.rs), and Process::step, which runs the control tasks,     *)
(* steps every thread and picks one atomic operation at random             *)
(* (src/src/process.rs, src/src/scheduler.rs).                             *)
(*                                                                         *)
(* A thread is the straight-line trace of instructions its control task    *)
(* decodes; the position of an instruction is the sequence number of its   *)
(* thunk, so program order and the order of the IndexSet are the order of  *)
(* the positions.  A value is abstracted to the write it comes from.       *)
(***************************************************************************)
EXTENDS Ordering, Integers, Sequences, FiniteSets

CONSTANTS
  ThreadId,       \* the threads a program may create, ordered as in the BTreeMap
  Main,           \* ThreadId::main()
  Byte,           \* simulated addresses
  Programs,       \* the programs to run: functions from ThreadId to traces
  PIPELINE_SIZE   \* data.rs:34

VARIABLES
  prog,        \* the program, chosen initially and never changed
  pc,          \* per thread: the instruction its control task is about to decode
  ctl,         \* per thread: the state of its control task in the LocalPool
  thunks,      \* per thread: DataFlowInner.thunks
  ready,       \* per thread: the thunks in state Ready
  mem,         \* per byte: the thunk that wrote it last
  reads,       \* history: <<thunk, byte, writer>> for every byte ever loaded
  threads,     \* SchedulerInner.threads
  phase,       \* where Process::step is
  scan,        \* the thread whose thunks step_pure is iterating over
  pos,         \* the last position that iteration has passed
  pending,     \* step_pure's `pending`, as the set of bytes it covers
  resolvable,  \* Process::step's `resolvable`
  progress     \* Process::step's `progress`

vars == <<prog, pc, ctl, thunks, ready, mem, reads, threads, phase, scan, pos,
          pending, resolvable, progress>>

-----------------------------------------------------------------------------
(* Instructions: what a control task does next.                            *)

\* A thunk with no address (DataFlow::thunk): it reads its operands only.
Compute(deps) ==
  [op |-> "thunk", access |-> "pure", addr |-> 0, deps |-> deps, range |-> {}, ord |-> "None"]

\* Address 0 is a constant, which is Ready before the thread starts.
NonConstant(ids) == ids \ {0}

\* DataFlow::load, DataFlow::store, FlowCtx::atomicrmw and FlowCtx::cmpxchg:
\* a thunk with an address thunk, a range and an ordering; the address is
\* always among the dependencies.
Load(addr, range, ord) ==
  [op |-> "thunk", access |-> "load", addr |-> addr, deps |-> NonConstant({addr}),
   range |-> range, ord |-> ord]

Store(addr, value, range, ord) ==
  [op |-> "thunk", access |-> "store", addr |-> addr,
   deps |-> NonConstant({addr, value}), range |-> range, ord |-> ord]

AtomicRMW(addr, value, range, ord) ==
  [Store(addr, value, range, ord) EXCEPT !.access = "rmw"]

CmpXchg(addr, expected, replacement, range, success, failure) ==
  [op |-> "thunk", access |-> "cmpxchg", addr |-> addr,
   deps |-> NonConstant({addr, expected, replacement}), range |-> range,
   ord |-> Union(success, failure)]

\* The control task awaits a thunk: a branch condition, a callee, the argument
\* of a native function, the result of the thread.  0 is a constant.
Await(of) == [op |-> "await", of |-> of]

\* pthread_create and pthread_join.
CreateThread(t) == [op |-> "create", target |-> t]
JoinThread(t) == [op |-> "join", target |-> t]

Accesses == {"pure", "load", "store", "rmw", "cmpxchg"}

Instrs ==
  [op : {"thunk"}, access : Accesses, addr : Nat, deps : SUBSET Nat,
   range : SUBSET Byte, ord : Orderings]
    \cup [op : {"await"}, of : Nat]
    \cup [op : {"create", "join"}, target : ThreadId]

IsThunk(s, i) == i \in 1..Len(s) /\ s[i].op = "thunk"

\* What the decoder guarantees of a trace: operands are earlier thunks (SSA),
\* the address is one of them, a thunk without an address is not atomic; in the
\* end the result of the thread is awaited.
WellFormed(s) ==
  /\ s # <<>> => s[Len(s)].op = "await"
  /\ \A i \in 1..Len(s) :
      /\ s[i].op = "thunk" =>
           /\ s[i].deps \subseteq {j \in 1..(i - 1) : s[j].op = "thunk"}
           /\ s[i].addr \in s[i].deps \cup {0}
           /\ s[i].access = "pure" => s[i].ord = "None"
      /\ s[i].op = "await" => s[i].of = 0 \/ (s[i].of < i /\ IsThunk(s, s[i].of))

\* Scheduler::new_threadid: every pthread_create makes a thread of its own.
CreatesOnce(p) ==
  \A t, u \in ThreadId : \A i \in 1..Len(p[t]), j \in 1..Len(p[u]) :
    /\ p[t][i].op = "create"
    /\ p[u][j].op = "create"
    /\ p[t][i].target = p[u][j].target
    => t = u /\ i = j /\ p[t][i].target # Main

ASSUME ConstantsAssumption ==
  /\ ThreadId \subseteq Nat
  /\ Main \in ThreadId
  /\ PIPELINE_SIZE \in Nat \ {0}
  /\ Programs \subseteq [ThreadId -> Seq(Instrs)]
  /\ \A p \in Programs : CreatesOnce(p) /\ \A t \in ThreadId : WellFormed(p[t])

-----------------------------------------------------------------------------
(* State                                                                   *)

ThunkId == ThreadId \X Nat

\* Memory starts as zeroes: written by no thunk.
Zero == <<Main, 0>>

Mem(t, i) == prog[t][i].access # "pure"

\* The thunks a control task has declared.
Declared(t) == {i \in 1..(pc[t] - 1) : prog[t][i].op = "thunk"}

Phases == {"decode", "pure", "reap", "choose", "exit",
           "panic_step", "panic_threads", "panic_join", "panic_thread"}

\* new: not created; woken: in the executor's ready queue; running: being
\* polled; thunk, join, pipeline: returned Poll::Pending there; done.
ControlStates == {"new", "woken", "running", "thunk", "join", "pipeline", "done"}

\* Every variable has its type; the thunks in the pipeline and the Ready ones
\* are together exactly the declared ones, and only thunks still in the
\* pipeline are ever offered to Process::step.
TypeOK ==
  /\ prog \in [ThreadId -> Seq(Instrs)]
  /\ pc \in [ThreadId -> Nat \ {0}]
  /\ ctl \in [ThreadId -> ControlStates]
  /\ thunks \in [ThreadId -> SUBSET Nat]
  /\ ready \in [ThreadId -> SUBSET Nat]
  /\ \A t \in ThreadId : thunks[t] \cup ready[t] = Declared(t)
  /\ mem \in [Byte -> ThunkId]
  /\ reads \subseteq ThunkId \X Byte \X ThunkId
  /\ threads \subseteq ThreadId
  /\ phase \in Phases
  /\ scan \in ThreadId
  /\ pos \in Nat
  /\ pending \subseteq Byte
  /\ \A x \in resolvable : x[1] \in ThreadId /\ x[2] \in thunks[x[1]]
  /\ progress \in BOOLEAN

\* Process::new and add_main: the main thread is in the scheduler and its
\* control task has been spawned, so the executor will poll it.
Init ==
  /\ prog \in Programs
  /\ pc = [t \in ThreadId |-> 1]
  /\ ctl = [t \in ThreadId |-> IF t = Main THEN "woken" ELSE "new"]
  /\ thunks = [t \in ThreadId |-> {}]
  /\ ready = [t \in ThreadId |-> {}]
  /\ mem = [b \in Byte |-> Zero]
  /\ reads = {}
  /\ threads = {Main}
  /\ phase = "decode"
  /\ scan = Main
  /\ pos = 0
  /\ pending = {}
  /\ resolvable = {}
  /\ progress = FALSE

-----------------------------------------------------------------------------
(* Decoding: LocalPool::run_until_stalled polls the woken control tasks,   *)
(* one at a time, each until it returns Poll::Pending.                     *)

pipelineVars == <<ready, mem, reads, scan, pos, pending, resolvable, progress>>

\* The instruction the running control task of t has reached.
Decoding(t, op) ==
  /\ phase = "decode"
  /\ ctl[t] = "running"
  /\ pc[t] <= Len(prog[t])
  /\ prog[t][pc[t]].op = op

Advance(t) == pc' = [pc EXCEPT ![t] = @ + 1]
Suspend(t, s) == ctl' = [ctl EXCEPT ![t] = s]

\* FuturesUnordered hands the pool some woken task.
Poll(t) ==
  /\ phase = "decode"
  /\ ctl[t] = "woken"
  /\ \A u \in ThreadId : ctl[u] # "running"
  /\ Suspend(t, "running")
  /\ UNCHANGED <<prog, pc, thunks, threads, phase, pipelineVars>>

\* DataFlow::thunk_impl, once the pipeline has room.
\* Mutant: the sequence number is read after it is incremented.
DeclareNextSeq(t) ==
  /\ Decoding(t, "thunk")
  /\ Cardinality(thunks[t]) < PIPELINE_SIZE
  /\ thunks' = [thunks EXCEPT ![t] = @ \cup {pc[t] + 1}]
  /\ Advance(t)
  /\ UNCHANGED <<prog, ctl, threads, phase, pipelineVars>>

Declare(t) ==
  /\ Decoding(t, "thunk")
  /\ Cardinality(thunks[t]) < PIPELINE_SIZE
  /\ thunks' = [thunks EXCEPT ![t] = @ \cup {pc[t]}]
  /\ Advance(t)
  /\ UNCHANGED <<prog, ctl, threads, phase, pipelineVars>>

\* DataFlow::thunk_impl with a full pipeline: pending_once returns Pending
\* without keeping the waker.
BlockPipeline(t) ==
  /\ Decoding(t, "thunk")
  /\ Cardinality(thunks[t]) >= PIPELINE_SIZE
  /\ Suspend(t, "pipeline")
  /\ UNCHANGED <<prog, pc, thunks, threads, phase, pipelineVars>>

\* <Thunk as Future>::poll looks up the thread of the thunk, which for a
\* constant is the main thread, and unwraps the answer.
Owner(t, i) == IF i = 0 THEN Main ELSE t

AwaitReady(t) ==
  /\ Decoding(t, "await")
  /\ LET i == prog[t][pc[t]].of
     IN  /\ i = 0 \/ i \in ready[t]
         /\ Owner(t, i) \in threads
  /\ Advance(t)
  /\ UNCHANGED <<prog, ctl, thunks, threads, phase, pipelineVars>>

\* The waker of the control task is stored in the thunk.
AwaitPending(t) ==
  /\ Decoding(t, "await")
  /\ prog[t][pc[t]].of \notin ready[t] \cup {0}
  /\ Suspend(t, "thunk")
  /\ UNCHANGED <<prog, pc, thunks, threads, phase, pipelineVars>>

\* Awaiting a constant when the main thread has been reaped: unwrap on None.
AwaitPanic(t) ==
  /\ Decoding(t, "await")
  /\ prog[t][pc[t]].of = 0
  /\ Main \notin threads
  /\ phase' = "panic_thread"
  /\ UNCHANGED <<prog, pc, ctl, thunks, threads, pipelineVars>>

\* pthread_create: Process::add_thread spawns the control task and inserts
\* the thread into the scheduler.
Create(t) ==
  /\ Decoding(t, "create")
  /\ LET u == prog[t][pc[t]].target
     IN  /\ ctl[u] = "new"
         /\ ctl' = [ctl EXCEPT ![u] = "woken"]
         /\ threads' = threads \cup {u}
  /\ Advance(t)
  /\ UNCHANGED <<prog, thunks, phase, pipelineVars>>

\* Mutant: a thread that is still running can be joined.
JoinDoneEarly(t) ==
  /\ Decoding(t, "join")
  /\ prog[t][pc[t]].target \in threads
  /\ Advance(t)
  /\ UNCHANGED <<prog, ctl, thunks, threads, phase, pipelineVars>>

\* pthread_join of a thread whose join handle is set.
JoinDone(t) ==
  /\ Decoding(t, "join")
  /\ LET u == prog[t][pc[t]].target IN u \in threads /\ ctl[u] = "done"
  /\ Advance(t)
  /\ UNCHANGED <<prog, ctl, thunks, threads, phase, pipelineVars>>

\* pthread_join of a thread that is still running: wait for its join handle.
JoinWait(t) ==
  /\ Decoding(t, "join")
  /\ LET u == prog[t][pc[t]].target IN u \in threads /\ ctl[u] # "done"
  /\ Suspend(t, "join")
  /\ UNCHANGED <<prog, pc, thunks, threads, phase, pipelineVars>>

\* pthread_join of a thread that is not in the scheduler: unwrap on None.
JoinPanic(t) ==
  /\ Decoding(t, "join")
  /\ prog[t][pc[t]].target \notin threads
  /\ phase' = "panic_join"
  /\ UNCHANGED <<prog, pc, ctl, thunks, threads, pipelineVars>>

Joining(u, t) == ctl[u] = "join" /\ prog[u][pc[u]].target = t

\* The control task has returned: join_signal.send wakes whoever joins t.
\* Mutant: the join signal is dropped unsent and wakes nobody.
FinishSilently(t) ==
  /\ phase = "decode"
  /\ ctl[t] = "running"
  /\ pc[t] > Len(prog[t])
  /\ ctl' = [ctl EXCEPT ![t] = "done"]
  /\ UNCHANGED <<prog, pc, thunks, threads, phase, pipelineVars>>

Finish(t) ==
  /\ phase = "decode"
  /\ ctl[t] = "running"
  /\ pc[t] > Len(prog[t])
  /\ ctl' = [u \in ThreadId |-> IF u = t THEN "done"
                                ELSE IF Joining(u, t) THEN "woken"
                                ELSE ctl[u]]
  /\ UNCHANGED <<prog, pc, thunks, threads, phase, pipelineVars>>

Decode(t) ==
  \/ Poll(t) \/ Declare(t) \/ BlockPipeline(t)
  \/ AwaitReady(t) \/ AwaitPending(t) \/ AwaitPanic(t)
  \/ Create(t) \/ JoinDone(t) \/ JoinWait(t) \/ JoinPanic(t)
  \/ Finish(t)

Stalled == \A t \in ThreadId : ctl[t] \notin {"woken", "running"}

-----------------------------------------------------------------------------
(* Thunk::step                                                             *)

\* step() returns true: every dependency is Ready and the thunk is not.
CanStep(t, i) == prog[t][i].deps \subseteq ready[t] /\ i \notin ready[t]

\* Whether a cmpxchg stores depends on the values it compares.
MayWrite(access) ==
  CASE access \in {"store", "rmw"} -> {TRUE}
    [] access = "cmpxchg" -> {TRUE, FALSE}
    [] OTHER -> {FALSE}

DoesRead(access) == access \in {"load", "rmw", "cmpxchg"}

\* The control task of t awaits thunk i, so its waker is in i.
Waiting(t, i) == ctl[t] = "thunk" /\ prog[t][pc[t]].of = i

\* The thunk computes its value (load_impl, then store_impl), becomes Ready
\* and wakes the control task that awaits it.
\* Mutant: the wakers are not drained.
ResolveSilently(t, i) ==
  LET I == prog[t][i]
  IN  /\ ready' = [ready EXCEPT ![t] = @ \cup {i}]
      /\ reads' = reads \cup
                    {<<<<t, i>>, b, mem[b]>> : b \in {c \in I.range : DoesRead(I.access)}}
      /\ \E w \in MayWrite(I.access) :
           mem' = [b \in Byte |-> IF w /\ b \in I.range THEN <<t, i>> ELSE mem[b]]
      /\ ctl' = ctl

Resolve(t, i) ==
  LET I == prog[t][i]
  IN  /\ ready' = [ready EXCEPT ![t] = @ \cup {i}]
      /\ reads' = reads \cup
                    {<<<<t, i>>, b, mem[b]>> : b \in {c \in I.range : DoesRead(I.access)}}
      /\ \E w \in MayWrite(I.access) :
           mem' = [b \in Byte |-> IF w /\ b \in I.range THEN <<t, i>> ELSE mem[b]]
      /\ ctl' = IF Waiting(t, i) THEN [ctl EXCEPT ![t] = "woken"] ELSE ctl

\* progress |= thunk.step()
StepNow(i) ==
  \/ /\ CanStep(scan, i)
     /\ Resolve(scan, i)
     /\ progress' = TRUE
  \/ /\ ~CanStep(scan, i)
     /\ UNCHANGED <<ready, reads, mem, ctl, progress>>

-----------------------------------------------------------------------------
(* DataFlow::step_pure, one action per thunk it looks at                   *)

scanStatic == <<prog, pc, thunks, threads, phase, scan>>
unstepped == <<ready, reads, mem, ctl, progress>>

\* Enter step_pure of the first thread above lo, dropping its Ready thunks, or
\* leave the loop over the threads.
EnterAbove(lo) ==
  \/ \E t \in threads :
       /\ t > lo /\ \A u \in threads : u > lo => t <= u
       /\ phase' = "pure"
       /\ scan' = t
       /\ pos' = 0
       /\ pending' = {}
       /\ thunks' = [thunks EXCEPT ![t] = @ \ ready[t]]
  \/ /\ \A t \in threads : t <= lo
     /\ phase' = "reap"
     /\ UNCHANGED <<scan, pos, pending, thunks>>

\* The executor has stalled: start a pass over the threads.
\* Mutant: `progress` is declared outside the loop.
StartPassKeeps ==
  /\ phase = "decode"
  /\ Stalled
  /\ EnterAbove(-1)
  /\ UNCHANGED <<prog, pc, ctl, ready, mem, reads, threads, resolvable, progress>>

StartPass ==
  /\ phase = "decode"
  /\ Stalled
  /\ progress' = FALSE
  /\ EnterAbove(-1)
  /\ UNCHANGED <<prog, pc, ctl, ready, mem, reads, threads, resolvable>>

\* No thunk is left for this thread: go on to the next one.
NextThread ==
  /\ phase = "pure"
  /\ \A i \in thunks[scan] : i <= pos
  /\ EnterAbove(scan)
  /\ UNCHANGED <<prog, pc, ctl, ready, mem, reads, threads, resolvable, progress>>

IsNext(i) ==
  /\ phase = "pure"
  /\ i \in thunks[scan] /\ i > pos
  /\ \A j \in thunks[scan] : j > pos => i <= j

AddressKnown(i) == prog[scan][i].addr \in ready[scan] \cup {0}

\* `break`: no later thunk of this thread is looked at.
Break == pos' = Len(prog[scan])

\* A thunk without an address: just do it.
ScanPure(i) ==
  /\ IsNext(i)
  /\ ~Mem(scan, i)
  /\ StepNow(i)
  /\ pos' = i
  /\ UNCHANGED <<scanStatic, pending, resolvable>>

\* An unknown address could alias any later access: stop.
ScanUnknown(i) ==
  /\ IsNext(i)
  /\ Mem(scan, i) /\ ~AddressKnown(i)
  /\ Break
  /\ UNCHANGED <<scanStatic, unstepped, pending, resolvable>>

\* Aliased by a previous operation: skip it.
ScanAliased(i) ==
  /\ IsNext(i)
  /\ Mem(scan, i) /\ AddressKnown(i)
  /\ prog[scan][i].range \cap pending # {}
  /\ pos' = i
  /\ UNCHANGED <<scanStatic, unstepped, pending, resolvable>>

\* The thunk is not aliased; its own range is from now on.
\* Mutant: the range is not added, so later aliases are not noticed.
UnaliasedForgets(i, class) ==
  /\ IsNext(i)
  /\ Mem(scan, i) /\ AddressKnown(i)
  /\ prog[scan][i].range \cap pending = {}
  /\ prog[scan][i].ord \in class
  /\ UNCHANGED <<scanStatic, pending>>

Unaliased(i, class) ==
  /\ IsNext(i)
  /\ Mem(scan, i) /\ AddressKnown(i)
  /\ prog[scan][i].range \cap pending = {}
  /\ prog[scan][i].ord \in class
  /\ pending' = pending \cup prog[scan][i].range
  /\ UNCHANGED scanStatic

\* Non-atomics cannot communicate with other threads: just do it.
ScanNone(i) ==
  /\ Unaliased(i, {"None"})
  /\ StepNow(i)
  /\ pos' = i
  /\ UNCHANGED resolvable

Offer(i) == resolvable' = resolvable \cup {<<scan, i>>}

\* Relaxed operations can be resolved in any order.
ScanRelaxed(i) ==
  /\ Unaliased(i, {"Relaxed"})
  /\ Offer(i)
  /\ pos' = i
  /\ UNCHANGED unstepped

\* A release is offered only if nothing has been offered before it.
\* Mutant: it is offered unconditionally.
ScanReleaseEarly(i) ==
  /\ Unaliased(i, {"Release"})
  /\ Offer(i)
  /\ pos' = i
  /\ UNCHANGED unstepped

ScanRelease(i) ==
  /\ Unaliased(i, {"Release"})
  /\ IF resolvable = {} THEN Offer(i) ELSE UNCHANGED resolvable
  /\ pos' = i
  /\ UNCHANGED unstepped

\* An acquire is offered and stops the scan.
\* Mutant: the scan goes on.
ScanAcquireWeak(i) ==
  /\ Unaliased(i, AcquireClass)
  /\ Offer(i)
  /\ pos' = i
  /\ UNCHANGED unstepped

ScanAcquire(i) ==
  /\ Unaliased(i, AcquireClass)
  /\ Offer(i)
  /\ Break
  /\ UNCHANGED unstepped

ScanThunk(i) ==
  \/ ScanPure(i) \/ ScanUnknown(i) \/ ScanAliased(i)
  \/ ScanNone(i) \/ ScanRelaxed(i) \/ ScanRelease(i) \/ ScanAcquire(i)

-----------------------------------------------------------------------------
(* The rest of Process::step                                               *)

\* Thread::alive: its control task runs or it still has thunks.
Alive(t) == ctl[t] # "done" \/ thunks[t] # {}

\* reap_threads; another round if some thunk was stepped, else the choice.
\* Mutant: the loop is not repeated.
ReapOnce ==
  /\ phase = "reap"
  /\ threads' = {t \in threads : Alive(t)}
  /\ phase' = "choose"
  /\ UNCHANGED <<prog, pc, ctl, thunks, ready, mem, reads, scan, pos, pending, progress,
                 resolvable>>

\* Mutant: threads are reaped as soon as their control task is done.
ReapEagerly ==
  /\ phase = "reap"
  /\ threads' = {t \in threads : ctl[t] # "done"}
  /\ IF progress
     THEN phase' = "decode" /\ resolvable' = {}
     ELSE phase' = "choose" /\ UNCHANGED resolvable
  /\ UNCHANGED <<prog, pc, ctl, thunks, ready, mem, reads, scan, pos, pending, progress>>

Reap ==
  /\ phase = "reap"
  /\ threads' = {t \in threads : Alive(t)}
  /\ IF progress
     THEN phase' = "decode" /\ resolvable' = {}
     ELSE phase' = "choose" /\ UNCHANGED resolvable
  /\ UNCHANGED <<prog, pc, ctl, thunks, ready, mem, reads, scan, pos, pending, progress>>

chooseStatic == <<prog, pc, thunks, threads, scan, pos, pending, progress>>

\* The chosen operation completes; the next Process::step begins.
ChooseStep(t, i) ==
  /\ phase = "choose"
  /\ <<t, i>> \in resolvable
  /\ CanStep(t, i)
  /\ Resolve(t, i)
  /\ phase' = "decode"
  /\ resolvable' = {}
  /\ UNCHANGED chooseStatic

\* assert!(... .step()) fails.
ChoosePanic(t, i) ==
  /\ phase = "choose"
  /\ <<t, i>> \in resolvable
  /\ ~CanStep(t, i)
  /\ phase' = "panic_step"
  /\ UNCHANGED <<chooseStatic, ready, reads, mem, ctl, resolvable>>

\* Nothing is left to resolve: assert_eq!(threads().len(), 0), return false.
Exit ==
  /\ phase = "choose"
  /\ resolvable = {}
  /\ phase' = IF threads = {} THEN "exit" ELSE "panic_threads"
  /\ UNCHANGED <<chooseStatic, ready, reads, mem, ctl, resolvable>>

Next ==
  \/ \E t \in ThreadId : Decode(t)
  \/ StartPass \/ NextThread
  \/ \E i \in thunks[scan] : ScanThunk(i)
  \/ Reap
  \/ \E x \in resolvable : ChooseStep(x[1], x[2]) \/ ChoosePanic(x[1], x[2])
  \/ Exit

\* The simulator is one OS thread that calls Process::step in a loop, so some
\* step is always taken while one is possible.
Spec == Init /\ [][Next]_vars /\ WF_vars(Next)
-----------------------------------------------------------------------------
(* Properties                                                              *)

Thunks(t) == {i \in 1..Len(prog[t]) : prog[t][i].op = "thunk"}
MemOps(t) == {i \in Thunks(t) : Mem(t, i)}
Overlap(t, i, j) == prog[t][i].range \cap prog[t][j].range # {}

\* A release operation completes only after everything before it in its thread
\* has: step_pure offers it only when nothing else is on offer, and the oldest
\* thunk of a thread is either stepped (so the pass is repeated) or on offer.
ReleaseBarrier ==
  \A t \in ThreadId : \A j \in ready[t] :
    prog[t][j].ord = "Release" => \A i \in Thunks(t) : i < j => i \in ready[t]

\* The acquire aliases no earlier access of its own thread.
Unshadowed(t, i) == \A k \in MemOps(t) : k < i => ~Overlap(t, k, i)

\* Nothing after an acquire in its thread accesses memory before the acquire
\* has completed, as long as the acquire aliases no earlier access: the break
\* in step_pure stops the scan at it in every pass.
AcquireBarrier ==
  \A t \in ThreadId : \A j \in ready[t] : \A i \in MemOps(t) :
    /\ i < j /\ Mem(t, j)
    /\ prog[t][i].ord \in AcquireClass
    /\ Unshadowed(t, i)
    => i \in ready[t]

\* Accesses of a thread that overlap have the same range.
Uniform(t) ==
  \A i, j \in MemOps(t) : Overlap(t, i, j) => prog[t][i].range = prog[t][j].range

\* Accesses of one thread to one location complete in program order, whatever
\* their orderings and however late their addresses become known, if the
\* accesses of the thread that overlap have equal ranges.
Coherence ==
  \A t \in ThreadId : Uniform(t) =>
    \A j \in ready[t] : \A i \in MemOps(t) :
      i < j /\ Mem(t, j) /\ Overlap(t, i, j) => i \in ready[t]

\* w overwrites byte c before r in its thread.
WritesBefore(s, w, r, c) ==
  /\ w \in MemOps(s) /\ w < r
  /\ prog[s][w].access \in {"store", "rmw"}
  /\ c \in prog[s][w].range

\* Message passing, the test of tests/src/main.rs: when an acquire has read
\* from a release of another thread, no later load of its thread returns what
\* memory held before a write that precedes the release.
MessagePassing ==
  \A e, f \in reads :
    LET t == e[1][1]  a == e[1][2]  s == e[3][1]  r == e[3][2]
        l == f[1][2]  c == f[2]     v == f[3]
    IN  /\ f[1][1] = t /\ a < l /\ s # t /\ r # 0
        /\ Uniform(s)
        /\ prog[t][a].ord \in AcquireClass /\ Unshadowed(t, a)
        /\ prog[s][r].ord = "Release"
        => \A w \in MemOps(s) : WritesBefore(s, w, r, c) =>
             v # Zero /\ ~(v[1] = s /\ v[2] < w)

\* No control task sleeps on something that has already happened: a thunk that
\* is Ready or a thread whose join handle is set.
NoLostWakeup ==
  \A t \in ThreadId :
    /\ ctl[t] = "thunk" => prog[t][pc[t]].of \notin ready[t]
    /\ ctl[t] = "join" => ctl[prog[t][pc[t]].target] # "done"

Oldest(t, i) == i \in thunks[t] /\ \A j \in thunks[t] : i <= j

\* When Process::step comes to its choice, everything that needs no choice has
\* been done: no control task can run, the oldest thunk of every thread is an
\* atomic operation whose dependencies are Ready, a control task that sleeps on
\* a thunk sleeps on one still in the pipeline of a live thread, and some
\* operation is on offer if any thread has a thunk left.
Quiescent ==
  phase = "choose" =>
    /\ Stalled
    /\ \A t \in ThreadId : \A i \in thunks[t] : Oldest(t, i) =>
         /\ t \in threads
         /\ prog[t][i].ord # "None"
         /\ CanStep(t, i)
         /\ prog[t][i].ord # "Release" => <<t, i>> \in resolvable
         /\ resolvable # {}
    /\ \A t \in ThreadId : ctl[t] = "thunk" => prog[t][pc[t]].of \in thunks[t]

\* The assertion that no thread is left when nothing is resolvable can fail
\* only because control tasks wait for each other or for the pipeline: no
\* pending thunk is ever forgotten.
StallIsBlockedControl ==
  phase = "panic_threads" =>
    \A t \in threads : thunks[t] = {} /\ ctl[t] \in {"join", "pipeline"}

\* A created thread leaves the scheduler only when nothing of it is left to
\* do: its control task has returned and every thunk of its trace is Ready.
ReapedIsDone ==
  \A t \in ThreadId : ctl[t] # "new" /\ t \notin threads =>
    ctl[t] = "done" /\ ready[t] = Thunks(t)

Joins(t) == {u \in ThreadId : \E k \in DOMAIN prog[t] : prog[t][k] = JoinThread(u)}

\* Awaiting a constant needs the main thread to be in the scheduler.  It is, for
\* every thread that main joins, itself or through the threads it joins: the
\* look-up fails only in a thread that nobody joined when main returned.
MainOutlivesJoined ==
  phase = "panic_thread" =>
    \A t \in ThreadId : ctl[t] = "running" =>
      t \notin UNION {Joins(u) : u \in Joins(Main) \cup {Main}}

\* The calls of Process::step come to an end, whatever is chosen: they run out of
\* things to resolve, or one of the code's assertions and unwraps fails.  The
\* loop inside Process::step, which repeats as long as a pass steps something,
\* never repeats for ever.
Terminates == <>(phase \in {"exit", "panic_step", "panic_threads", "panic_join", "panic_thread"})

-----------------------------------------------------------------------------
(* What comments, assertions and tests of the repository say of the code,  *)
(* and the code does not do.                                               *)

\* process.rs:115 and :122, assert!(... .step()): the chosen operation can step.
ChosenSteps == phase # "panic_step"

\* ordering.rs:18, AcqRel is the union of Acquire and Release: every ordering
\* that includes a release has the release barrier.
ReleaseClassBarrier ==
  \A t \in ThreadId : \A j \in ready[t] :
    prog[t][j].ord \in ReleaseClass => \A i \in MemOps(t) : i < j => i \in ready[t]

\* process.rs:112, assert_eq!(threads().len(), 0): nothing resolvable means
\* that every thread has finished.
AllReaped == phase # "panic_threads"

\* tests/src/main.rs, par(): every thread that was spawned can be joined.
JoinFindsThread == phase # "panic_join"
=============================================================================
