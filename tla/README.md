# A verification of atomic-sim

`atomic-sim` interprets LLVM modules and simulates a weak memory model: every
thread is decoded into *thunks*, thunks may complete out of order as far as their
memory orderings allow, and at every step one of the atomic operations that may
complete is picked at random. This directory holds TLA+ models of it, the TLC
configurations that check them, and TLAPS proofs.

Source paths are relative to the repository's crate `src/src/` unless they start with `tests/`.

## 1. The system

| component | state | operations | interacts with |
|---|---|---|---|
| Data flow (`data.rs`) | per thread an `IndexSet` of thunks, the next sequence number; per thunk `Pending(deps, wakers, compute)` or `Ready(value)`, an optional address thunk with length and ordering | `thunk`, `load`, `store`, `constant`, `Thunk::step`, `Thunk::poll`, `step_pure` | memory (when a thunk steps), control tasks (wakers), process (`resolvable`) |
| Process (`process.rs`) | the scheduler, memory, the random generator, the `LocalPool` | `add_main`, `add_thread`, `step` | drives everything |
| Threads, scheduler (`thread.rs`, `scheduler.rs`) | map of threads, next id, maps from addresses to mutexes and condition variables; per thread a join handle and thread locals | `new_threadid`, `add_thread`, `thread`, `reap_threads`, `join`, `alive`, `mutex`, `condvar`, `thread_local` | process, pthread functions |
| Decoder (`interp.rs`) | per frame: the current block, the locals (thunks) | decode an instruction into a thunk, await a terminator's operand, call | data flow, flow context |
| Flow context (`flow.rs`) | none | `alloc`, `load`, `store`, `cmpxchg`, `atomicrmw`, `memcpy`, `realloc`, `strlen`, calls through the recursor | data flow, memory |
| Orderings (`ordering.rs`) | none | `union`, conversion from LLVM | data flow |
| Memory (`memory.rs`) | `RangeMap` of logs, next free address | `alloc`, `free` (does nothing), `store_impl`, `load_impl` | range map |
| Range map (`util/rangemap.rs`) | `BTreeMap` from range ends to starts and values | `insert`, `erase`, `range` | memory; `pending` in `step_pure` |
| Asynchronous mutexes (`util/mutex.rs`) | `locked`, queue of senders; per condition variable a queue of mutexes and senders | `try_lock`, `lock`, `unlock`, `wait`, `notify`, `notify_all` | pthread functions, executor |
| pthread functions (`native/pthread.rs`) | the word of a mutex in simulated memory | lock, unlock, wait, signal, create, join | scheduler, flow context |
| Recursor (`util/recursor.rs`) | a stack of frames | `spawn`, `poll` | decoder, control tasks |
| Free list (`util/freelist.rs`) | free cells; per cell a reference count | `alloc`, `clone`, `drop` | thunks |
| Lazy values (`util/lazy.rs`) | producer, value | `force` | module compiler |
| Layouts, classes (`layout.rs`, `compile/class.rs`) | none | `align_to`, `extend`, `repeat`; layouts of structs and arrays | compilers, memory |
| Symbols, definitions (`symbols.rs`, `definition.rs`) | tables of symbols, addresses, thread locals | `add`, `lookup`, `reverse_lookup` | module compiler, threads |
| Module compiler (`compile/module.rs`) | the symbol tables, initial values | passes over the modules; functions on demand | symbols, lazy values, memory |
| Function compiler (`compile/function.rs`) | the numbers given to names so far | numbers locals and blocks, compiles instructions | decoder |
| Expressions, operations (`compile/expr.rs`, `compile/operation.rs`) | none | fold constants, compute operations on bits | decoder, values, threads (thread-local addresses) |
| Values (`value.rs`) | bits and the bytes that hold them | construct, convert, extract, insert | operations, memory |
| Other native functions (`native/`) | none | calling conventions; intrinsics, memory and string functions, exceptions | decoder, flow context |
| Backtraces, helpers | none | debug output, profiling | - |

### What is hard about it

The simulator itself is one OS thread. What makes it hard is that three things
are interleaved in it: control tasks that are polled by an executor and sleep on
thunks, on each other and on mutexes; the thunks of every thread, which complete
out of order in repeated passes over all threads; and the random choice, which
may pick the operations of different threads in any order. A unit test follows
one seed. The behaviours that need every order are listed under `hazards` in
`PROJECT.json`: barriers and aliasing across passes, message passing between
threads, wake-ups, reaping against joining, a full pipeline, hand-over of
mutexes, and the boundary cases of the range map. The sequential parts have
hazards of their own, which many inputs rather than many orders bring out:
reference counts in a pool of reused cells, frames that call each other while
their arguments are still thunks, layouts and arithmetic at the edges of bytes
and widths, and names that are looked up while the tables are being filled.

Nothing is persisted and no messages travel, so there are no crashes, restarts
or lost messages to model; a panic of the simulator ends it, and the models have
those panics as terminal states.

### What makes each component correct

* Data flow: a release completes after everything before it in its thread;
  nothing after an acquire completes before it; accesses of one location
  complete in program order; hence message passing works across threads.
* Process: when a choice is made, all that needs no choice has been done; the
  loops end; the simulator stalls only because control tasks wait.
* Threads: no control task sleeps on something that has happened; a thread is
  reaped only when nothing of it is left.
* Mutexes: mutual exclusion from hand-over to poll, FIFO progress, no lost or
  double wake-up; they implement an abstract monitor.
* Memory and range map: a load returns the last stores byte for byte; entries
  stay disjoint; blocks are aligned and separated by a guard.
* Decoder, recursor, function compiler: decoding ahead of the values, numbering
  locals and nesting calls on a stack of futures do not show: a thread runs its
  functions as LLVM defines them, and ends if they do.
* Free list: a cell is free exactly when nothing refers to it.
* Classes, values, operations, expressions, native functions: every constant and
  instruction gives the value, and leaves the memory, that LLVM and C define.
* Symbols, module compiler, thread-locals: a name denotes what the rules of
  linkage say, whenever it is looked up; every variable has an object of its own
  (one per thread for a thread-local), initialised before use.

## 2. Modules

| module | models | proofs |
|---|---|---|
| `Ordering` | `ordering.rs`: the lattice of orderings and `union` | `UnionIsLub` in `DataFlowProofs` |
| `DataFlow` | `data.rs`, `Process::step`, threads, create/join, awaiting; `cmpxchg` and `atomicrmw` | `DataFlowProofs`, `QuiescenceProofs` |
| `AsyncMutex` | `util/mutex.rs` and the executor's later poll | first part of `PthreadProofs` |
| `Pthread` | the mutex and condition functions of `native/pthread.rs`, composed with `AsyncMutex` | `PthreadProofs` |
| `Monitor` | what mutexes and condition variables promise (abstract) | `MonitorImplemented` in `PthreadProofs` |
| `RangeMap` | `util/rangemap.rs`, as pure operators on maps | through `Memory` |
| `Memory` | `memory.rs`, `align_to` | `MemoryProofs` |
| `SeqFold` | loops over sequences, as recursive functions | `FoldProofs` |
| `Program` | the functions the compilers read, by names; their form; what an instruction does to values | - |
| `FuncCompiler` | `compile/function.rs`: locals and blocks get numbers | `ThunkProofs` |
| `FreeList` | `util/freelist.rs`, as pure operators on a heap of cells | `ThunkProofs` |
| `Interp` | `interp.rs`, `util/recursor.rs`, the calling conventions of `native/mod.rs`, `native/unwind.rs`, one thread's pipeline | `ThunkProofs`, `InterpProofs` |
| `SSA` | what a thread promises: its functions, run by the language (abstract) | - |
| `IR` | LLVM's types, constants and operations | - |
| `Class` | `layout.rs`, `compile/class.rs` | - |
| `Value` | `value.rs` | - |
| `Operation` | `compile/operation.rs` | - |
| `Expr` | `compile/expr.rs`, `FlowCtx::evaluate` | - |
| `Eval` | the computing instructions and native functions, over a small memory | - |
| `LLVM` | what they mean (reference, by numbers and tuples) | - |
| `Linker` | `symbols.rs`, `definition.rs`, `compile/module.rs`, `util/lazy.rs`, thread-locals, `dlsym` | `LinkerProofs` |
| `MCDataFlow`, `MCPthread`, `MCMemory`, `MCInterp`, `MCEval`, `MCLinker` | the instances TLC checks | - |

The chain `IR`, `Class`, `Value`, `Operation`, `Expr`, `Eval` is by EXTENDS, each module
being one file of the code. `Monitor`, `SSA` and `LLVM` say what is promised and
are written without looking at how; they have no lines of code.

An operator whose comment calls it a *mutant* is a plausible slip in the definition
that follows it; each is used to see that the property it is paired with in
`PROJECT.json` notices.

### DataFlow

A thread is the straight-line trace of what its control task does: declare a
thunk, await a thunk (a branch condition, a callee, an argument of a native
function), create a thread, join one. Branches and calls are in the choice of
the trace; `Programs` is the set of programs, a trace per thread, and the
initial state picks one. The position of a thunk in its trace stands for its
sequence number. Dependencies, addresses and ranges are in the trace; values are
abstracted to *which thunk wrote this byte last* (`mem`), and `reads` records
what every load found. An address is known when the thunk it comes from is
Ready, as in the code; its range is a set of bytes.

| variable | code |
|---|---|
| `pc`, `ctl` | the suspended `async` control task, and whether the executor has it in its ready queue |
| `thunks`, `ready` | `DataFlowInner.thunks`, and the thunks whose state is `Ready` |
| `mem`, `reads` | `Memory`, at the level that data flow needs |
| `threads` | `SchedulerInner.threads` |
| `phase`, `scan`, `pos`, `pending`, `resolvable`, `progress` | the local variables and the position of `Process::step` and `DataFlow::step_pure` |

One action is one poll step of a control task (`Poll`, `Declare`,
`BlockPipeline`, `AwaitReady`, `AwaitPending`, `Create`, `JoinDone`, `JoinWait`,
`Finish`, and the panics), one thunk looked at by `step_pure` (`ScanPure`,
`ScanUnknown`, `ScanAliased`, `ScanNone`, `ScanRelaxed`, `ScanRelease`,
`ScanAcquire`), or one of the steps of `Process::step` around it (`StartPass`,
`NextThread`, `Reap`, `ChooseStep`, `ChoosePanic`, `Exit`). Which woken task is
polled first and which operation is chosen are nondeterministic; whether a
`cmpxchg` succeeds is too, because values are not modelled.

### AsyncMutex, Pthread and Monitor

A waiting task is modelled by its sender's place in a queue. No method awaits
between two changes of state, so each is one action, but a task whose sender has
been dropped is only *woken*: `Resume` is the executor's poll, and anything can
happen before it. `NotifyLocked` says whether users notify only while they hold
the mutex. `Monitor` has an owner and a set of waiters per mutex and a set of
sleepers per condition variable; the refinement mapping takes a task to which a
mutex has been handed, polled or not, as its owner.

`Pthread` extends `AsyncMutex`: each of its actions is an action of `AsyncMutex`
or leaves its state alone. It adds the word that the functions keep in simulated memory and, per thread,
where in a function it is. A function locks the mutex and then awaits a
`cmpxchg` of the word, or awaits the `cmpxchg` and then unlocks; the `cmpxchg`
completes when `Process::step` picks it, the control task goes on when it is
polled, and other threads run in between. The result of the assertion on a
`cmpxchg` is part of the action in which it completes: nothing but the panic
depends on when it is evaluated.

### Memory and RangeMap

A store is one step per round of `RangeMap::erase` and one for the insertion, so
that the invariants are also checked between rounds. Byte `o` of the value of
store `n` is `<<n, o>>`, so a load that mixes up two stores or two offsets is
noticed. Integers are unbounded here: addresses start at 128 and only grow by
what is allocated, so 64 bits do not overflow in a run of any feasible length.
`align_to` is written with the remainder instead of the bitwise or; the two
agree because `ptr` is not 0 and alignments are powers of two.

### Interp, FuncCompiler, FreeList and SSA

`Interp` is one thread with everything `DataFlow` abstracts to a trace: frames
with numbered locals, phis, branches, calls of compiled and native functions,
callbacks and exceptions. A local holds a *reference* to a cell of the free list,
so every clone and drop in the code is one in the model. One action is what the
top frame does up to its next await (`DecodePhis`, `DecodeInstr`, `DecodeHeld`,
`Branch`, the `Call` actions, `NextArg`, `NativeReturn`, `DecodeRet`, `Take`,
`Unwind`, ...); `StepPure` is one pass over the pipeline, which happens only when the
thread does not run. A pass that runs the closure of a computed native (`native_comp`) with too few
arguments panics there (`StepPanics`), possibly long after the call, or after the thread has returned. What the frame on top is waiting for is its field `st`.
Values are integers and an operation is `Apply`, since `values` is about
operations; all accesses are non-atomic and the pipeline is never full, since
`core` and `life` are about those. A callback is a compiled function.
A program is one that LLVM's parser and verifier accept as to its *form* (`IsProgram`: jumps go
to blocks of the function, a call has a callee, parameters have different names). That a local is assigned before it is used, or that a phi has an operand
for the block it is reached from, is not assumed: the decoder looks both up and panics (`HasLocals`, `HasPhis`), and
so do `Interp` and `SSA`.

`SSA` runs the same source program by names, on values, one instruction at a time. The refinement mapping takes the
pipeline as *flushed*: the value of a local is what its thunk will have when the pipeline is
resolved in program order. Decoding an instruction is then the step of `SSA`, and resolving
thunks, in whatever order, is stuttering. `SSA` crashes at the call of a computed native that lacks an
argument; the mapping takes the thread as crashed from the moment the thunk of that call is declared (`Crashing`),
because it stays in the pipeline until a pass runs it and panics.

References are counted between actions. What a future clones and drops again within one action is not counted, nor are clones
that the code holds only while it awaits (`interp.rs:234`, `native/mod.rs:221`): such a clone
is of a thunk that the frame itself refers to, so it keeps no cell alive that would otherwise be free.

### Eval and its parts, and LLVM

A program is a constant followed by instructions that use the last result. A
value is its bits in the bytes that hold them, the padding of the last byte
included, because the code reads it in places (`as_u128`, `unwrap_bool`) and
ignores it in others. Panics (assertions, bounds, `todo!()`) are a value of their own that
ends the run: a `select` whose condition is not one bit (a vector of conditions), or an index that `as_i128` has no case for
(an `i1`), panics too. The program runs in one of two threads, which have a thread-local at different addresses.
`instr` and `old` are history variables, so that the comparison
with `LLVM` can be an invariant; `LLVM` is told where the running thread has its thread-locals. `LLVM` has numbers and tuples where the code has
bits, computes offsets field by field from sizes in bytes, and specifies the memory
functions by sets of addresses. Bytes of padding in a stored struct are left
unspecified, as in LLVM.

### Linker

One action per object per pass of `compile_modules`: natives, functions and
globals get symbols and addresses, aliases are resolved, global variables and
thread-locals get initial values, `main` is looked up. A panic in any pass is
terminal. Then the program runs: a function is compiled when it is first called
(its names are looked up then, and kept), a thread that evaluates a
thread-local's address allocates it at the first use, `dlsym` looks up by name,
and stores go through the pointers obtained. `locs` and `meant` are history
variables: where each source object was put, and what the program last assigned to each
variable *of the source*, by the rules of linkage (`Meaning`), which are stated on
the source alone: a name is an object or an alias of its module, else an exported one, else `explode`,
and an alias is what its target denotes, wherever in the program either stands. The passes bind an alias when they come to
it, so the properties that name objects by `Meaning` speak of the programs in which no alias has
its target among the aliases after it (`InOrder`).

## 3. What TLC checks

| run | instance | shows |
|---|---|---|
| `core` | all single-thread traces of 3 thunks (any ordering, any address dependency, 2 bytes), all of 4 atomic loads; all programs with 2 writes, 2 reads on two threads | `TypeOK`, `ReleaseBarrier`, `AcquireBarrier`, `Coherence`, `Quiescent`, `MessagePassing` |
| `life` | 384 programs of 3 threads, pipeline of 2 | `NoLostWakeup`, `StallIsBlockedControl`, `ReapedIsDone`, `MainOutlivesJoined`, `Terminates` |
| `pthread` | 3 threads, 2 mutexes, 1 condition variable, disciplined notifiers | `PthreadTypeOK`, `MutualExclusion`, `WordAgrees`, `AssertionsHold`, `QueuedGetsLock`, `ImplementsMonitor` |
| `pthread_wild` | the same with any notifier | `OneSender` |
| `memory` | 3 stores into 5 bytes, 2 allocations of 4 layouts | `TypeOK`, `Disjoint`, `LoadsLastStore`, `BlocksApart`, `StoreCompletes` |
| `calls` | 162 programs: recursion, loops whose phis permute locals, all triples of 5 accesses through two pointers, natives with too many and too few arguments, callbacks, exceptions, crashes | `InterpTypeOK`, `RefsCounted`, `ImplementsSSA`, `Returns` |
| `values` | 18 constants, then any 3 of 171 instructions that fit, in either of two threads; pointers of 16 bits, integers of 1, 8, 16 (32 and 64 as results), 20 bytes of memory | `EvalTypeOK`, `ComputesLLVM` |
| `link` | 16 programs of one or two modules, 2 threads, 6 operations of the running program | `LinkTypeOK`, `NamesDenote`, `VariablesHold`, `PanicsIfIllFormed` |

Deadlock is not checked in any run: the simulator ends (or panics), users may
stop using mutexes or deadlock with two of them, and the numbers of stores, instructions
and operations are bounded.

`MainOutlivesJoined` is about `data.rs:386`: awaiting a constant made at compile
time looks up thread 0, which panics if thread 0 has been reaped. Main is there
as long as it has a thread to join, so a program whose main joins its threads
never gets there.

**Bounds.** The barriers and aliasing relate two or three thunks of a thread;
three thunks of all kinds, and four atomic ones, contain every pair with
something pending before and between them, and `PIPELINE_SIZE` 8 never fills
there. Message passing needs two locations, two writes and two reads. The life
cycle has three threads because a joiner, a finisher and a bystander with a
smaller or larger id are what reaping and the order of the scan tell apart, and
its pipeline of two is filled by three thunks. Three threads make a queue of two
behind an owner, the least in which order and overtaking show, and two mutexes
let one condition variable be waited on with different mutexes. In five bytes three stores can touch, nest, split and
cover each other; three are enough because every round of `erase` deals with one entry at
a time. `MaxStores` and `MaxBlocks` bound the runs only: the
proofs hold for every value of them. In `calls` the programs are the bound: two
levels of recursion put three frames on the stack, three phis can permute, and
three accesses through two pointers to one block have every order of dependency and
aliasing. In `values` two instructions and a start bring every kind of value
to every kind of operation, and the third lets a stored value be loaded
at another type. The integers are at the edges of their ranges, and structs of
1, 8 and 16 bits already need padding inside, at the end, and offsets that are not whole
bytes in vectors. In `link`, two modules are needed for names to be internal in one and external in
the other, and two threads for a thread-local to be shared by mistake.

**Fairness.** `DataFlow` assumes `WF_vars(Next)`: `main.rs` calls
`Process::step` in a loop on one OS thread, so some step is taken while one is
possible. No fairness between threads is assumed, and `Terminates` does not need
any: programs are finite and each pass makes progress. `Pthread` assumes that
the executor polls every woken task (`run_until_stalled` polls until none is
left), that every `cmpxchg` completes (the choice is random), and that users in
the end unlock what they hold, whatever other calls they make before (strong
fairness: while they are inside another call, unlocking is not enabled);
`QueuedGetsLock` excludes users who block while they hold a mutex. `Memory` assumes only that the
synchronous loop of `RangeMap::erase` runs on. `Interp` assumes that a woken
control future is polled and goes on, and that a pass that can step a thunk is
made: both are what `Process::step` does in every turn of its loop. `Eval` and `Linker` claim no liveness.

**Disagreements.** Four runs each show a statement of the repository (a
comment, an assertion, a test) that the code does not live up to:

| run | statement | what happens |
|---|---|---|
| `v_depends` | `process.rs:122` asserts that the chosen operation steps | an operation is offered when its address is known; its value may not be |
| `v_acqrel` | `ordering.rs:18`, AcqRel is acquire and release | AcqRel and SeqCst get no release barrier |
| `v_pipeline` | `process.rs:112` asserts that no thread is left | `pending_once` keeps no waker: a thread that fills the pipeline is never polled again |
| `v_join` | `tests/src/main.rs:46` joins threads in order | a thread that has finished is reaped, joined or not; joining it then panics |

### Seen in the models, without a run of their own

The passing properties carry exactly the conditions these leave; the instances
of `calls`, `values` and `link` leave them out or have them as panics.

Data flow and mutexes:
* An acquire that aliases an earlier pending access is skipped and does not stop
  the scan (`data.rs:303` against the comment at `:323`): `AcquireBarrier` speaks of acquires that
  alias nothing before them.
* The range of a skipped access is not remembered, so a third access that
  overlaps only it overtakes it: `Coherence` speaks of threads whose overlapping accesses have
  equal ranges.
* A notification while the mutex is free wakes the waiter without locking the
  mutex (`util/mutex.rs:67`), against the assertions at `util/mutex.rs:57` and `native/pthread.rs:18`:
  `MutualExclusion`, `WordAgrees` and `AssertionsHold` are checked for disciplined notifiers.
* A release with nothing before it in its thread is still held back while threads
  with smaller ids have operations on offer, because `resolvable` is shared by all threads.
* `StallIsBlockedControl` speaks of stalls by join or pipeline.

Calls:
* The exception label of an invoke is ignored: an exception unwinds every frame of its thread.
  `SSA` says the same, so that the rest can be compared.
* A computed native (`native_comp`) ignores arguments beyond its own, a strict one (`native_fn`) panics. When one is
  missing the strict one panics at the call, the computed one when its thunk is stepped. `llvm.memmove` is declared with three parameters, and LLVM passes four.

Values:
* A shuffle takes the lanes of its second operand from the first (`compile/operation.rs:305`).
* A cast of a vector gets a vector of vectors as its class (`compile/operation.rs:150`, `compile/function.rs:391`).
* Array constants and types are built as vectors, so elements with padding are not where the layout of an array
  would put them (`compile/class.rs:168`).
* A loaded `i1` keeps the other bits of its byte: `unwrap_bool` and `zext` can disagree about it.
* A constant of a named struct is looked up in an empty table and panics; types that contain themselves by
  value panic as `RecursiveError`.
* Shifts by the width or more panic where overflow is checked; `memchr` compares with the whole 32-bit argument.

Linking:
* An alias of an alias that comes later is bound to `explode`, without a complaint (`compile/module.rs:101`, `symbols.rs:86`),
  although LLVM allows the order. Without the condition `InOrder`, `NamesDenote` and `VariablesHold` are violated by program `Late`.
* Aliases of thread-locals, and globals initialised with a thread-local's address, panic.
  So does `dlsym` of a thread-local, which the run leaves out.

## 4. What is proved

For every value of the constants (any number of threads, bytes, programs and any
pipeline size; any addresses, lengths, layouts and guard), by TLAPS:

* `DataFlowProofs`: `TypeCorrect`, `ReleaseBarrierHolds`, `AcquireBarrierHolds`,
  `CoherenceHolds` and `UnionIsLub`. Assumptions: `ConstantsAssumption`, that is,
  thread ids are naturals, programs are sequences of instructions, operands come
  before their uses (SSA), and a thread is created once.
  And `MessagesArrive` (`MessagePassing`), from the same assumptions.
* `QuiescenceProofs`: `NoWakeupLost` (`NoLostWakeup`) and `ReapedThreadsAreDone`
  (`ReapedIsDone`), `ChoiceIsQuiescent` (`Quiescent`), `StallsAreBlockedControl`
  (`StallIsBlockedControl`) and `MainOutlivesItsJoins` (`MainOutlivesJoined`), from
  the same assumptions.
* `PthreadProofs`: `PthreadTypes` (`PthreadTypeOK`) and, if `Task` is finite,
  `OneSenderEach` (`OneSender`), for every notifier; for disciplined notifiers (`NotifyLocked = TRUE`, the hypothesis
  under which TLC checks them too), `PthreadMutualExclusion`,
  `PthreadWordAgrees`, `PthreadAssertionsHold`, and `MonitorImplemented`: the
  mutexes and condition variables, as the pthread functions use them, implement
  `Monitor`. Its first part has the lemmas about `AsyncMutex` alone.
* `MemoryProofs`: `TypeCorrect`, `EntriesDisjoint`, `LoadsAreLast`,
  `AllocSeparates`. Assumptions: `MemoryAssumption`, that is, naturals, and the
  heap does not start at 0.
* `LinkerProofs`: `TablesAgree` (`LinkTypeOK`), `NamesAreBound` (`NamesDenote`),
  `PanicsAreExact` (`PanicsIfIllFormed`, both directions) and `VariablesAreKept`
  (`VariablesHold`), for any programs, natives, threads and values; the last three, as in the run, for programs
  whose aliases are in order (`InOrder`). Assumption:
  `LinkerAssumption`, that is, programs are sequences of modules of the form
  `llvm_ir` gives them, and `explode` is one of the natives.
* `InterpProofs`: `InterpTypes` (`InterpTypeOK`) and `ReferencesAreCounted` (`RefsCounted`), from
  `InterpInvariant`, for any set of programs, any depth of calls and any number of
  thunks. Assumption: `ProgramAssumption`, that is, programs have the form described
  in section 2. `ThunkProofs` has the lemmas about `FreeList`, about declaring, decoding and stepping
  thunks and about what `FuncCompiler` yields; `FoldProofs` those about loops.

**The arguments.** The barriers are not inductive: they hold because of what a
pass of `step_pure` that is only *partly finished* has established. `DataFlowProofs`
strengthens them in parts, and one lemma per kind of action shows that it
preserves each part.

* `TypeInv` adds to `TypeOK` that the program is one of `Programs`, that no
  control task runs past its end, and that offers come from threads the pass
  has reached (`InvOffers`).
* `ReleaseInv` is `InvScan`, `InvRelease` and `ReleaseBarrier`: as long as a pass
  has stepped nothing and nothing is on offer, it has passed no pending thunk
  of the scanned thread (`OldestSteps`: the oldest pending thunk is always stepped or offered),
  so a release that is offered is the oldest of its thread. A pass that did step
  something is repeated before anything is chosen.
* `OrderInv` serves `Coherence` and `AcquireBarrier`: `pending` is made up of ranges the scan
  has passed (`InvPending`); in a uniform thread it covers all of them, those of skipped
  accesses too (`InvPassed`), so what is offered or stepped overlaps no earlier pending access
  (`InvCoherence`); and the scan has passed no pending acquire that aliases
  nothing earlier (`InvStopped`, `InvAcquire`).

The conditions `Uniform` and `Unshadowed` are used exactly at the `continue` of
`data.rs:303`.

The first part of `QuiescenceProofs` shows `NoLostWakeup` and `ReapedIsDone` together, with `InvControl`: a task
that sleeps on a join handle is at a join (so its target is a thread that can
wake it), and one that has returned is at the end of its trace (so it has declared all its
thunks, and an empty pipeline means that all are Ready). Steps that do not
decode either resolve one thunk, draining its wakers, or sweep Ready thunks and
dead threads (`StepKinds`).

For `MessagePassing`, `DataFlowProofs` adds to the invariants above that memory and `reads` name only
thunks that are Ready (`InvMem`, `InvReads`), and that once a write of a uniform thread is Ready,
memory holds nothing older of that thread (`InvNewest`, from `Coherence`). When a load has found the
flag, the write of the flag is Ready, so by `ReleaseBarrier` the data before it
was written; by `AcquireBarrier` the later load completes after the first one, and by `InvNewest`
it does not find what was there before the data.

The second part of `QuiescenceProofs`: a pass that has so far stepped nothing leaves the threads it has
been through *settled*: nothing in the pipeline is Ready, and the oldest thunk is an atomic
operation that is on offer, or a release while something else is (`InvSettled`). That needs `InvCovered` (what covers
the oldest thunk's range would be an older one, so it is never skipped) and
`InvStalled` (no control task is polled meanwhile). With nothing on offer all pipelines are then empty,
and a task that sleeps on a thunk, which is pending (`NoLostWakeup`), has a pipeline that is not:
so `StallIsBlockedControl` needs `InvAsleep`, `InvLive` and `InvReaped`.
`MainOutlivesJoined` rests on `InvJoined` (a thread that is past a join has joined a
thread that has returned) and `InvOrphan`.

`PthreadProofs` has three layers. `SenderInv` says that a blocked task has exactly one sender, in
the queue of its mutex or with that mutex in the queue of a condition variable; it
holds for every notifier. `OwnerInv` is `MutualExclusion` and that tasks queue only for
locked mutexes; an owner is a task that holds the mutex or has been handed it and not been polled. The last
layer says what a thread inside a pthread function has and waits for (`InvCall`) and that the word of a locked mutex
is initialised (`InvWord`); together with `WordAgrees` and `AssertionsHold`
they are inductive. Every step is one of five kinds of steps of `AsyncMutex`
(`DisciplineSteps`), and each of these is a step of `Monitor`. `notify_all` is a recursive
function over the waiters; what it does to the queues is proved by induction on
their number (`NotifiedSteps`).

`MemoryProofs` uses `IInv`: the types, that the log being inserted is well
formed, `Disjoint`, and `Agrees`, which says of every address outside the log
being inserted that the map gives the byte of `last` there, in every round of
`erase`. `Disjoint` alone is not inductive (remainders could replace other
entries unless they lie within the erased entry), and
`LoadsLastStore` speaks only of states between stores.
That a load finds an entry at the right place in an ordered map needs the least key above an
address: it is obtained by well-founded induction on the naturals.

`LinkerProofs` measures the load by the part of the list of work that is done
(`Pos`): what is left is always a suffix of `Work(prog)` (`InvWork`), whose items are all
the objects, once each, then the aliases, then the definitions (`WorkFacts`). The
table of symbols has exactly the symbols of the objects *seen* and of the aliases
*bound* so far, each bound to the definition of what it denotes (`InvTable`), and
no two objects have the same definition (`InvLocs`). So `lookup` finds what a name
denotes by the aliases bound so far (`LookupDenotes`), whichever of several
equal aliases the rules pick, and once the load is over what it means by them (`MeaningFacts`).
That early meaning (`EarlyMeaning`: each alias resolved by the ones before it) is the one the invariants follow, in all programs;
when the aliases are in order it is the `Meaning` of the rules (`OrderedMeaning`). For the chain from an alias to its
object then goes through ever smaller numbers, and the rounds of `Targets` have followed the first `k` aliases to their end after `k`
rounds (`TargetsRounds`, `OrderedTargets`). `LinkInv` adds the reverse table
and the functions: `InvFunctions` says which objects can be called, which is what
`add_main` tests. That no ill-formed program runs needs what every pass has found
out, `InvInit` for the initial values; that no well-formed one panics is one lemma for each
assertion. `VarInv` adds that the memory of thread-locals is apart from all other memory
(`InvLocals`), where the value of each variable is (`InvMeant`), and that a
pointer, whenever it was computed, still points to its variable (`InvGot`). The early targets are a recursive
function of the number of the alias, so that they can be reasoned about (`TargetsFacts`).

`InterpProofs`: `RefsCounted` by itself says nothing about what the next drop drops. The
invariant `IInv` has four parts. `IsCode`: every compiled function is one of `FuncCompiler`'s, so
operands, destinations and targets are locals and blocks the function has. `IsStack`: a frame's stage `st`
determines which of its fields hold references and how many (`AtStage`), so
that each action hands on or drops exactly what it read; the locals a frame has
are among those `TempRefs` goes through when the frame ends. `IsRoot` says the same of the
thread outside all frames. `Balanced`: for each cell, the references
in cells, counted by a fold over the heap, and those *outside* (frames, pipeline, blocker, thread) make up what its count
owes (`Owed`: 0 for a free cell, `refcount + 1` otherwise). `clone` and `drop` change what is owed by one for one reference
(`CloneHeap`, `DropHeap`). The last `drop` of a cell frees it and leaves its value in place, and `alloc` drops
what a reused cell still holds: so references in *free* cells count as well, until the cell is reused (`BalancedAlloc`).
`Balanced` is stated for an
arbitrary sequence `R` of references outside the heap, so
one lemma per operation (`BalancedClone`, `BalancedDrop`, `BalancedAlloc`, `BalancedStep`) serves every
caller, and an action is a chain of them: the references that a decoder has in hand between two
awaits are part of `R`. That a cell may be cloned or dropped is not assumed anywhere:
a reference in `R` is counted, so the cell is owed at least one. When `step_pure` steps a
thunk, the references its closure captured leave the cell and are dropped, so `R` stays the same (`BalancedStep`).

**Induction.** The library's induction theorems take an operator as parameter,
which the installed provers cannot instantiate. Over the naturals it can be done
with sets (`NatSetInduction` in `PthreadProofs` and `LinkerProofs`, from the well-foundedness of `<`), and
a recursive function over an interval is shown to exist the same way. For the loops of `Interp` and `Linker`,
`FoldProofs` has the body of the loop as a CONSTANT operator and is instantiated once per
loop (`INSTANCE FoldProofs WITH Op <- ...`); a fact about a loop is then shown by induction on how far it has come, as a set of naturals. Nothing
comparable is available for recursive operators.

**Only model-checked.** Liveness (`Terminates`, `QueuedGetsLock`,
`StoreCompletes`, `Returns`), which the prover does not treat; the refinement `ImplementsSSA`, whose
mapping resolves the whole pipeline in program order (a proof has to relate that to every order `step_pure` takes, aliasing included);
`EvalTypeOK` and `ComputesLLVM` (`Class`, `Expr`, `LLVM` and
`Eval` use RECURSIVE operators, out of the prover's reach).

## 5. Plan

In order of importance; the first twelve are done.

1. `Ordering`, `DataFlow`: the pipeline and the random choice.
2. `AsyncMutex` implementing `Monitor`.
3. `RangeMap`, `Memory`.
4. `DataFlowProofs`, `QuiescenceProofs`, `MemoryProofs`.
5. `Pthread`: the functions of `native/pthread.rs` composed with `AsyncMutex`.
6. `Interp` implementing `SSA`, on `FuncCompiler` and `FreeList`: the decoder, calls and the recursor.
7. `Class`, `Value`, `Operation`, `Expr`, `Eval` against `LLVM`: layouts, bit vectors, operations, constants, native functions.
8. `Linker`: symbols, the module compiler's passes, lazy functions, thread-locals.
9. `MainOutlivesJoined`: the hazard of `data.rs:386`.
10. Proofs about `Pthread` and `Monitor`; `Quiescent`, `StallIsBlockedControl`,
    `MainOutlivesJoined` and `MessagePassing` for `DataFlow`.
11. Proofs about `Linker`: the tables, what names denote, panics, variables.
12. Proofs about `Interp` and the free list: types, and that reference counts are exact (`RefsCounted`).
13. Left: a proof of `ImplementsSSA`, from `IInv` and an invariant that relates the thunks that are
    Ready to the pipeline resolved in order.

## 6. Not modelled

* Floating-point results: TLA+ has no floats. (The classes of such operations are
  modelled, and the operations panic.) Integers of 128 bits, and operands of 32
  and 64 bits, are beyond the numbers TLC computes with; widths are a parameter of the model.
* Instructions and terminators that are `todo!()` in the code: one stands for all (`freeze`).
* Native functions that are I/O (`write`, `open`, `getenv`, the path of the executable) or
  stubs that return a constant; `llvm.fshl` and `llvm.trap`.
* `Ordering`'s conversions from LLVM, tables without a decision in them.
* Several threads in `Interp`, and values in `DataFlow`: the two meet in the pipeline, which
  each has a model of.
* Backtraces, debug information, tracing, timers and the counting allocator, which do not affect the simulated program.
* The end of the simulator itself (`Scheduler::cancel`, freeing a free list).
