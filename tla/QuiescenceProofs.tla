------------------------- MODULE QuiescenceProofs -------------------------
(***************************************************************************)
(* Proofs about the control tasks of DataFlow and the loop of              *)
(* Process::step.  No wake-up is lost, and a thread is reaped only when    *)
(* nothing of it is left to do; when the loop comes to its choice          *)
(* everything that needs no choice has been done, the process stalls only  *)
(* on control tasks, and the main thread outlives the threads it joins;    *)
(* for every set of threads and programs and every PIPELINE_SIZE.          *)
(***************************************************************************)
EXTENDS DataFlowProofs, NaturalsInduction, WellFoundedInduction

-----------------------------------------------------------------------------
(* Control tasks: the invariant, in parts                                  *)

\* A task that sleeps on a join handle is at a pthread_join, and one that has
\* returned is at the end of its trace.
InvControl ==
  \A t \in ThreadId :
    /\ ctl[t] = "join" => pc[t] <= Len(prog[t]) /\ prog[t][pc[t]].op = "join"
    /\ ctl[t] = "done" => pc[t] > Len(prog[t])

ControlInv == InvControl /\ NoLostWakeup /\ ReapedIsDone

\* The target of a pthread_join is a thread.
LEMMA JoinTarget ==
  ASSUME TypeInv, NEW t \in ThreadId, pc[t] <= Len(prog[t]), prog[t][pc[t]].op = "join"
  PROVE  prog[t][pc[t]].target \in ThreadId
<1>1. prog[t] \in Seq(Instrs) /\ pc[t] \in 1..Len(prog[t])
  BY DEF TypeInv, TypeOK
<1>2. prog[t][pc[t]] \in Instrs
  BY <1>1
<1> QED
  BY <1>2 DEF Instrs

-----------------------------------------------------------------------------
(* The steps that are not decoding                                         *)

\* Thunk i of t becomes Ready and wakes whoever awaits it.
Resolved(t, i) ==
  /\ UNCHANGED <<prog, pc, thunks, threads>>
  /\ ready' = [ready EXCEPT ![t] = @ \cup {i}]
  /\ ctl' = IF Waiting(t, i) THEN [ctl EXCEPT ![t] = "woken"] ELSE ctl

\* Ready thunks leave the pipeline or dead threads the scheduler.
Swept ==
  /\ UNCHANGED <<prog, pc, ctl, ready>>
  /\ \/ UNCHANGED threads
     \/ threads' = {t \in threads : Alive(t)}

\* Every step outside of decoding is one of the two.
LEMMA StepKinds ==
  ASSUME TypeInv, [Next]_vars
  PROVE  \/ \E t \in ThreadId : Decode(t)
         \/ \E t \in ThreadId : \E i \in thunks[t] : Resolved(t, i)
         \/ Swept
<1>1. CASE StartPass \/ NextThread
  BY <1>1 DEF StartPass, NextThread, Swept
<1>2. ASSUME NEW i \in thunks[scan], ScanThunk(i)
      PROVE  Resolved(scan, i) \/ Swept
  <2>1. StepNow(i) => Resolve(scan, i) \/ UNCHANGED <<ready, ctl>>
    BY DEF StepNow
  <2>2. UNCHANGED unstepped => UNCHANGED <<ready, ctl>>
    BY DEF unstepped
  <2>3. UNCHANGED <<prog, pc, thunks, threads>>
    BY <1>2, ScanFacts DEF scanStatic
  <2>4. Resolve(scan, i) \/ UNCHANGED <<ready, ctl>>
    BY <1>2, <2>1, <2>2 DEF ScanThunk, ScanPure, ScanUnknown, ScanAliased, ScanNone, ScanRelaxed,
                           ScanRelease, ScanAcquire
  <2> QED
    BY <2>3, <2>4 DEF Resolve, Resolved, Swept
<1>3. CASE Reap \/ Exit
  BY <1>3 DEF Reap, Exit, chooseStatic, Swept
<1>4. ASSUME NEW x \in resolvable, ChooseStep(x[1], x[2]) \/ ChoosePanic(x[1], x[2])
      PROVE  Resolved(x[1], x[2]) \/ Swept
  BY <1>4 DEF ChooseStep, ChoosePanic, chooseStatic, Resolve, Resolved, Swept
<1>5. CASE UNCHANGED vars
  BY <1>5 DEF vars, Swept
<1>6. scan \in ThreadId /\ \A x \in resolvable : x[1] \in ThreadId /\ x[2] \in thunks[x[1]]
  BY DEF TypeInv, TypeOK
<1> QED
  BY <1>1, <1>2, <1>3, <1>4, <1>5, <1>6 DEF Next

-----------------------------------------------------------------------------
(* Decoding                                                                *)

\* What decoding does to the control tasks: the task of t runs on to its next
\* position or to sleep, a new task is woken, or t has finished.
LEMMA DecodeKinds ==
  ASSUME TypeInv, NEW t \in ThreadId, Decode(t)
  PROVE  /\ UNCHANGED <<prog, ready>> /\ threads \subseteq threads'
         /\ ctl[t] \in {"woken", "running"}
         /\ \A u \in ThreadId : u # t => pc'[u] = pc[u]
         /\ \/ /\ \A u \in ThreadId : u # t => ctl'[u] = ctl[u]
               /\ ctl'[t] \in {"running", "pipeline"}
            \/ /\ UNCHANGED pc
               /\ \A u \in ThreadId : u # t => ctl'[u] = ctl[u]
               /\ ctl'[t] = "thunk" /\ prog[t][pc[t]].of \notin ready[t]
            \/ /\ UNCHANGED pc
               /\ \A u \in ThreadId : u # t => ctl'[u] = ctl[u]
               /\ ctl'[t] = "join" /\ ctl[prog[t][pc[t]].target] # "done"
               /\ pc[t] <= Len(prog[t]) /\ prog[t][pc[t]].op = "join"
            \/ \E v \in threads' :
                 /\ ctl[v] = "new" /\ v \in ThreadId
                 /\ ctl' = [ctl EXCEPT ![v] = "woken"] /\ v # t
            \/ Finish(t)
<1> USE DEF TypeInv, TypeOK, Suspend, Advance, Decoding
<1>1. UNCHANGED <<prog, ready>>
  BY DecodeFacts
<1>2. CASE Poll(t)
  BY <1>1, <1>2 DEF Poll
<1>3. CASE Declare(t) \/ AwaitReady(t) \/ JoinDone(t)
  BY <1>1, <1>3 DEF Declare, AwaitReady, JoinDone
<1>4. CASE BlockPipeline(t)
  BY <1>1, <1>4 DEF BlockPipeline
<1>5. CASE AwaitPending(t)
  BY <1>1, <1>5 DEF AwaitPending
<1>6. CASE AwaitPanic(t) \/ JoinPanic(t)
  BY <1>1, <1>6 DEF AwaitPanic, JoinPanic
<1>7. CASE JoinWait(t)
  BY <1>1, <1>7 DEF JoinWait
<1>8. CASE Create(t)
  <2>1. prog[t][pc[t]].target \in ThreadId
    <3>1. pc[t] \in 1..Len(prog[t]) /\ prog[t][pc[t]].op = "create"
      BY <1>8 DEF Create
    <3> QED
      BY <3>1, TargetFacts DEF InvProgram
  <2> QED
    BY <1>1, <1>8, <2>1 DEF Create
<1>9. CASE Finish(t)
  BY <1>1, <1>9 DEF Finish
<1> QED
  BY <1>2, <1>3, <1>4, <1>5, <1>6, <1>7, <1>8, <1>9 DEF Decode

\* Decoding keeps the invariant.
LEMMA ControlDecode ==
  ASSUME TypeInv, TypeInv', ControlInv, NEW t \in ThreadId, Decode(t)
  PROVE  ControlInv'
<1> USE DEF ControlInv
<1>1. /\ UNCHANGED <<prog, ready>> /\ threads \subseteq threads'
      /\ ctl[t] \in {"woken", "running"}
      /\ \A u \in ThreadId : u # t => pc'[u] = pc[u]
  BY DecodeKinds
<1>2. /\ ctl \in [ThreadId -> ControlStates] /\ pc \in [ThreadId -> Nat \ {0}]
      /\ \A u \in ThreadId : Len(prog[u]) \in Nat
  BY DEF TypeInv, TypeOK
<1>3. \A u \in ThreadId : ctl[u] = "join" => prog[u][pc[u]].target \in ThreadId
  BY JoinTarget DEF InvControl
<1>4. ASSUME \A u \in ThreadId : u # t => ctl'[u] = ctl[u], ctl'[t] \in {"running", "pipeline"}
      PROVE  ControlInv'
  BY <1>1, <1>2, <1>3, <1>4 DEF InvControl, NoLostWakeup, ReapedIsDone, Thunks
<1>5. ASSUME UNCHANGED pc, \A u \in ThreadId : u # t => ctl'[u] = ctl[u],
             ctl'[t] = "thunk", prog[t][pc[t]].of \notin ready[t]
      PROVE  ControlInv'
  BY <1>1, <1>2, <1>3, <1>5 DEF InvControl, NoLostWakeup, ReapedIsDone, Thunks
<1>6. ASSUME UNCHANGED pc, \A u \in ThreadId : u # t => ctl'[u] = ctl[u],
             ctl'[t] = "join", ctl[prog[t][pc[t]].target] # "done",
             pc[t] <= Len(prog[t]), prog[t][pc[t]].op = "join"
      PROVE  ControlInv'
  <2>1. prog[t][pc[t]].target \in ThreadId
    BY <1>6, JoinTarget
  <2> QED
    BY <1>1, <1>2, <1>3, <1>6, <2>1 DEF InvControl, NoLostWakeup, ReapedIsDone, Thunks
<1>7. ASSUME NEW v \in threads', v \in ThreadId, ctl[v] = "new", v # t,
             ctl' = [ctl EXCEPT ![v] = "woken"]
      PROVE  ControlInv'
  <2>1. ctl'[t] = ctl[t] /\ ctl'[v] = "woken" /\ \A u \in ThreadId : u # v => ctl'[u] = ctl[u]
    BY <1>2, <1>7
  <2>2. InvControl'
    BY <1>1, <2>1 DEF InvControl
  <2>3. NoLostWakeup'
    BY <1>1, <1>3, <2>1 DEF NoLostWakeup
  <2>4. ReapedIsDone'
    BY <1>1, <1>7, <2>1 DEF ReapedIsDone, Thunks
  <2> QED
    BY <2>2, <2>3, <2>4
<1>8. CASE Finish(t)
  <2>1. UNCHANGED <<pc, threads>> /\ pc[t] > Len(prog[t])
    BY <1>8 DEF Finish
  <2>2. /\ ctl'[t] = "done"
        /\ \A u \in ThreadId : u # t => ctl'[u] = IF Joining(u, t) THEN "woken" ELSE ctl[u]
    BY <1>8 DEF Finish
  <2>3. InvControl'
    BY <1>1, <2>1, <2>2 DEF InvControl
  <2>4. NoLostWakeup'
    BY <1>1, <1>3, <2>1, <2>2 DEF NoLostWakeup, Joining
  <2>5. ReapedIsDone'
    BY <1>1, <2>1, <2>2 DEF ReapedIsDone, Thunks, Joining
  <2> QED
    BY <2>3, <2>4, <2>5
<1> QED
  BY <1>4, <1>5, <1>6, <1>7, <1>8, DecodeKinds

\* Resolving a thunk keeps the invariant: its wakers are drained.
LEMMA ControlResolved ==
  ASSUME TypeInv, ControlInv, NEW t \in ThreadId, NEW i \in thunks[t], Resolved(t, i)
  PROVE  ControlInv'
<1> USE DEF ControlInv
<1>1. /\ ctl \in [ThreadId -> ControlStates] /\ ready \in [ThreadId -> SUBSET Nat]
      /\ UNCHANGED <<prog, pc, thunks, threads>>
      /\ ready'[t] = ready[t] \cup {i} /\ \A u \in ThreadId : u # t => ready'[u] = ready[u]
  BY DEF TypeInv, TypeOK, Resolved
<1>2. /\ \A u \in ThreadId : u # t => ctl'[u] = ctl[u]
      /\ ctl'[t] = IF Waiting(t, i) THEN "woken" ELSE ctl[t]
  BY <1>1 DEF Resolved
<1>3. \A u \in ThreadId : ctl[u] = "join" => prog[u][pc[u]].target \in ThreadId
  BY JoinTarget DEF InvControl
<1>4. InvControl'
  BY <1>1, <1>2 DEF InvControl
<1>5. NoLostWakeup'
  BY <1>1, <1>2, <1>3 DEF NoLostWakeup, Waiting
<1>6. ReapedIsDone'
  <2>1. i \in Thunks(t)
    BY DeclaredFacts DEF TypeInv
  <2> QED
    BY <1>1, <1>2, <2>1 DEF ReapedIsDone, Waiting, Thunks
<1> QED
  BY <1>4, <1>5, <1>6

\* Reaping keeps the invariant: a thread that is not alive has returned, so it
\* has declared all its thunks, and none of them is pending.
LEMMA ControlSwept ==
  ASSUME TypeInv, ControlInv, Swept
  PROVE  ControlInv'
<1> USE DEF ControlInv
<1>1. UNCHANGED <<prog, pc, ctl, ready>>
  BY DEF Swept
<1>2. InvControl' /\ NoLostWakeup'
  BY <1>1 DEF InvControl, NoLostWakeup
<1>3. \A t \in ThreadId : t \in threads /\ t \notin threads' =>
        ctl[t] = "done" /\ ready[t] = Thunks(t)
  <2>1. SUFFICES ASSUME NEW t \in ThreadId, ctl[t] = "done", thunks[t] = {}
                 PROVE  ready[t] = Thunks(t)
    BY DEF Swept, Alive
  <2>2. ready[t] = Declared(t) /\ pc[t] > Len(prog[t]) /\ pc[t] <= Len(prog[t]) + 1
    BY <2>1 DEF TypeInv, TypeOK, InvProgram, InvControl
  <2>3. pc[t] \in Nat /\ Len(prog[t]) \in Nat
    BY DEF TypeInv, TypeOK
  <2>4. pc[t] - 1 = Len(prog[t])
    BY <2>2, <2>3
  <2> QED
    BY <2>2, <2>4 DEF Declared, Thunks
<1>4. ReapedIsDone'
  BY <1>1, <1>3 DEF ReapedIsDone, Thunks
<1> QED
  BY <1>2, <1>4

\* The invariant is inductive.
LEMMA ControlNext ==
  ASSUME TypeInv, ControlInv, [Next]_vars
  PROVE  ControlInv'
  BY TypeNext, StepKinds, ControlDecode, ControlResolved, ControlSwept

\* Initially nobody sleeps and only the main thread has been created.
LEMMA ControlInit == Init => ControlInv
  BY DEF Init, ControlInv, InvControl, NoLostWakeup, ReapedIsDone

\* The invariant holds in every reachable state.
LEMMA ControlInductive == Spec => [](TypeInv /\ ControlInv)
<1>1. Init => TypeInv /\ ControlInv
  BY TypeInit, ControlInit
<1>2. TypeInv /\ ControlInv /\ [Next]_vars => TypeInv' /\ ControlInv'
  BY TypeNext, ControlNext
<1> QED
  BY <1>1, <1>2, PTL DEF Spec

-----------------------------------------------------------------------------
(* Control tasks: the theorems                                             *)

\* data.rs, <Thunk as Future>::poll and Thunk::step, and thread.rs, the join
\* signal: no control task ever sleeps on a thunk that is Ready or on a thread
\* that has finished.
THEOREM NoWakeupLost == Spec => []NoLostWakeup
<1>1. ControlInv => NoLostWakeup
  BY DEF ControlInv
<1> QED
  BY <1>1, ControlInductive, PTL

\* scheduler.rs, reap_threads: a created thread that is no longer in the
\* scheduler has returned, and every thunk of its trace is Ready.
THEOREM ReapedThreadsAreDone == Spec => []ReapedIsDone
<1>1. ControlInv => ReapedIsDone
  BY DEF ControlInv
<1> QED
  BY <1>1, ControlInductive, PTL

-----------------------------------------------------------------------------
(* The loop of Process::step: the invariant, in parts                      *)

\* A pass that has stepped nothing has woken nobody.
InvStalled ==
  (phase \in {"pure", "reap"} /\ ~progress) \/ phase = "choose" => Stalled

\* Only threads of the scheduler have thunks in their pipeline, and they have
\* been created.
InvLive ==
  \A t \in ThreadId :
    /\ t \notin threads => thunks[t] = {}
    /\ t \in threads => ctl[t] # "new"

\* A control task that sleeps on a thunk is at an await of one.
InvAsleep ==
  \A t \in ThreadId : ctl[t] = "thunk" =>
    pc[t] <= Len(prog[t]) /\ prog[t][pc[t]].op = "await" /\ prog[t][pc[t]].of # 0

\* What covers a byte in pending is a thunk of the pipeline.
InvCovered ==
  phase = "pure" /\ pending # {} => \E k \in thunks[scan] : k <= pos

\* The thunk can neither be stepped without a choice nor be forgotten.
NeedsChoice(t, i) ==
  /\ prog[t][i].ord # "None"
  /\ prog[t][i].ord # "Release" => <<t, i>> \in resolvable
  /\ resolvable # {}

\* No thunk of t is Ready and the oldest needs a choice.
Settled(t) ==
  /\ thunks[t] \cap ready[t] = {}
  /\ \A i \in thunks[t] : Oldest(t, i) => NeedsChoice(t, i)

\* A pass that has stepped nothing leaves the threads it has been through
\* settled, and so the oldest thunk of the scanned thread once it is passed.
InvSettled ==
  /\ phase = "pure" /\ ~progress =>
       /\ \A t \in threads : t < scan => Settled(t)
       /\ \A i \in thunks[scan] : Oldest(scan, i) /\ i <= pos => NeedsChoice(scan, i)
  /\ (phase = "reap" /\ ~progress) \/ phase = "choose" => \A t \in threads : Settled(t)

\* Dead threads have been reaped before the choice.
InvReaped == phase = "choose" => \A t \in threads : Alive(t)

QuietInv ==
  InvStalled /\ InvLive /\ InvAsleep /\ InvCovered /\ InvSettled /\ InvReaped
    /\ StallIsBlockedControl

-----------------------------------------------------------------------------
(* Facts about numbers and pipelines                                       *)

\* A set of numbers has a least one.
LEMMA LeastOfSet ==
  ASSUME NEW T \in SUBSET Nat, T # {}
  PROVE  \E n \in T : \A k \in T : n <= k
<1> DEFINE R == {p \in Nat \X Nat : p[1] < p[2]}
<1>1. IsWellFoundedOn(R, Nat)
  BY NatLessThanWellFounded DEF OpToRel
<1>2. PICK n \in T : \A k \in T : <<k, n>> \notin R
  <2> HIDE DEF R
  <2> QED
    BY <1>1, WFMin
<1>3. \A k \in T : ~(k < n)
  BY <1>2
<1> QED
  BY <1>3

\* A pipeline that is not empty has an oldest thunk.
LEMMA OldestExists ==
  ASSUME TypeInv, NEW t \in ThreadId, thunks[t] # {}
  PROVE  \E i \in thunks[t] : Oldest(t, i)
<1>1. thunks[t] \in SUBSET Nat
  BY DEF TypeInv, TypeOK
<1> QED
  BY <1>1, LeastOfSet DEF Oldest

\* The oldest thunk of a pipeline without Ready thunks can step: everything
\* before it is Ready.
LEMMA OldestCanStep ==
  ASSUME TypeInv, NEW t \in ThreadId, NEW i \in thunks[t], Oldest(t, i),
         thunks[t] \cap ready[t] = {}
  PROVE  CanStep(t, i) /\ prog[t][i].addr \in ready[t] \cup {0}
<1>1. i \in Thunks(t) /\ i \in Declared(t)
  BY DeclaredFacts DEF TypeInv, TypeOK
<1>2. /\ prog[t][i].deps \subseteq {j \in Thunks(t) : j < i}
      /\ prog[t][i].addr \in prog[t][i].deps \cup {0}
      /\ i \in Nat
  BY <1>1, ThunkFacts DEF TypeInv, InvProgram
<1>3. \A j \in Thunks(t) : j \in Nat
  BY ThunkFacts DEF TypeInv, InvProgram
<1>4. \A j \in Thunks(t) : j < i => j \in ready[t]
  <2> SUFFICES ASSUME NEW j \in Thunks(t), j < i PROVE j \in ready[t]
    OBVIOUS
  <2>1. j \in thunks[t] \cup ready[t]
    BY <1>1, DeclaredFacts DEF TypeInv, TypeOK
  <2>2. j \notin thunks[t]
    BY <1>2, <1>3 DEF Oldest
  <2> QED
    BY <2>1, <2>2
<1> QED
  BY <1>2, <1>4 DEF CanStep

\* A control task that sleeps on a thunk sleeps on a pending one.
LEMMA AsleepOnPending ==
  ASSUME TypeInv, ControlInv, InvAsleep, NEW t \in ThreadId, ctl[t] = "thunk"
  PROVE  prog[t][pc[t]].of \in thunks[t]
<1>1. /\ pc[t] <= Len(prog[t]) /\ prog[t][pc[t]].op = "await" /\ prog[t][pc[t]].of # 0
      /\ prog[t][pc[t]].of \notin ready[t]
  BY DEF InvAsleep, ControlInv, NoLostWakeup
<1>2. prog[t] \in Seq(Instrs) /\ WellFormed(prog[t]) /\ pc[t] \in Nat \ {0} /\ Len(prog[t]) \in Nat
  BY ConstantsAssumption DEF TypeInv, TypeOK, InvProgram
<1>3. pc[t] \in 1..Len(prog[t])
  BY <1>1, <1>2
<1>4. prog[t][pc[t]].of < pc[t] /\ IsThunk(prog[t], prog[t][pc[t]].of)
  BY <1>1, <1>2, <1>3 DEF WellFormed
<1>5. prog[t][pc[t]].of \in Declared(t)
  BY <1>2, <1>4 DEF IsThunk, Declared
<1> QED
  BY <1>1, <1>5 DEF TypeInv, TypeOK

\* The targets of the joins a control task has been through are threads.
LEMMA JoinedTarget ==
  ASSUME TypeInv, NEW t \in ThreadId, NEW k \in 1..(pc[t] - 1), prog[t][k].op = "join"
  PROVE  prog[t][k].target \in ThreadId
<1>1. /\ prog[t] \in Seq(Instrs) /\ Len(prog[t]) \in Nat /\ pc[t] \in Nat
      /\ pc[t] <= Len(prog[t]) + 1
  BY DEF TypeInv, TypeOK, InvProgram
<1>2. k \in 1..Len(prog[t])
  BY <1>1
<1>3. prog[t][k] \in Instrs
  BY <1>1, <1>2
<1> QED
  BY <1>3 DEF Instrs

-----------------------------------------------------------------------------
(* Decoding                                                                *)

\* A control task that runs belongs to a thread of the scheduler.
LEMMA RunsInScheduler ==
  ASSUME ControlInv, NEW t \in ThreadId, ctl[t] \in {"woken", "running"}
  PROVE  t \in threads
BY DEF ControlInv, ReapedIsDone

\* Decoding declares thunks of live threads only, and leaves the pass alone.
LEMMA QuietDecode ==
  ASSUME TypeInv, ControlInv, QuietInv, NEW t \in ThreadId, Decode(t)
  PROVE  QuietInv'
<1>1. phase' \notin {"pure", "reap", "choose", "panic_threads"}
  BY DecodeFacts
<1>2. InvStalled' /\ InvCovered' /\ InvSettled' /\ InvReaped' /\ StallIsBlockedControl'
  BY <1>1 DEF InvStalled, InvCovered, InvSettled, InvReaped, StallIsBlockedControl
<1>3. t \in threads /\ threads \subseteq threads'
  BY DecodeKinds, RunsInScheduler
<1>4. /\ ctl \in [ThreadId -> ControlStates] /\ pc \in [ThreadId -> Nat \ {0}]
      /\ thunks \in [ThreadId -> SUBSET Nat]
  BY DEF TypeInv, TypeOK
<1>5. \A u \in ThreadId : thunks'[u] = thunks[u] \/ u = t
  BY <1>4 DEF Decode, Poll, Declare, BlockPipeline, AwaitReady, AwaitPending, AwaitPanic,
              Create, JoinDone, JoinWait, JoinPanic, Finish
<1>6. \A u \in ThreadId : ctl'[u] # ctl[u] => ctl'[u] # "new"
  BY <1>4 DEF Decode, Poll, Declare, BlockPipeline, AwaitReady, AwaitPending, AwaitPanic,
              Create, JoinDone, JoinWait, JoinPanic, Finish, Suspend
<1>7. \A u \in threads' : u \in threads \/ ctl'[u] # "new"
  <2>1. CASE Create(t)
    <3>1. prog[t][pc[t]].target \in ThreadId
      <4>1. pc[t] \in 1..Len(prog[t]) /\ prog[t][pc[t]].op = "create"
        BY <2>1 DEF Create, Decoding, TypeInv, TypeOK
      <4> QED
        BY <4>1, TargetFacts DEF TypeInv, InvProgram
    <3> QED
      BY <1>4, <2>1, <3>1 DEF Create
  <2>2. CASE UNCHANGED threads
    BY <2>2
  <2> QED
    BY <2>1, <2>2 DEF Decode, Poll, Declare, BlockPipeline, AwaitReady, AwaitPending, AwaitPanic,
                      JoinDone, JoinWait, JoinPanic, Finish
<1>8. InvLive'
  BY <1>3, <1>5, <1>6, <1>7 DEF QuietInv, InvLive
<1>9. InvAsleep'
  <2>1. \A u \in ThreadId : ctl'[u] = "thunk" /\ ctl[u] # "thunk" => u = t /\ AwaitPending(t)
    BY <1>4 DEF Decode, Poll, Declare, BlockPipeline, AwaitReady, AwaitPanic,
                Create, JoinDone, JoinWait, JoinPanic, Finish, Suspend, AwaitPending
  <2>2. AwaitPending(t) =>
          /\ pc' = pc /\ pc[t] <= Len(prog[t]) /\ prog[t][pc[t]].op = "await"
          /\ prog[t][pc[t]].of # 0
    BY DEF AwaitPending, Decoding
  <2>3. prog' = prog /\ ctl[t] # "thunk" /\ \A u \in ThreadId : u # t => pc'[u] = pc[u]
    BY DecodeKinds
  <2> QED
    BY <2>1, <2>2, <2>3 DEF QuietInv, InvAsleep
<1> QED
  BY <1>2, <1>8, <1>9 DEF QuietInv

-----------------------------------------------------------------------------
(* The pass over the threads                                               *)

\* What is stepped wakes at most the task of its own thread.
LEMMA ResolvedControl ==
  ASSUME TypeInv, InvLive, InvAsleep, NEW t \in ThreadId, NEW i \in thunks[t], Resolved(t, i)
  PROVE  InvLive' /\ InvAsleep'
<1>1. /\ UNCHANGED <<prog, pc, thunks, threads>>
      /\ \A u \in ThreadId : ctl'[u] \in {ctl[u], "woken"}
  BY DEF Resolved, TypeInv, TypeOK
<1> QED
  BY <1>1 DEF InvLive, InvAsleep

\* Starting a pass or going on to the next thread: the thread that is left has
\* been scanned to its end.
LEMMA QuietEnter ==
  ASSUME TypeInv, InvScan, QuietInv, StartPass \/ NextThread
  PROVE  QuietInv'
<1> USE DEF QuietInv
<1>1. /\ UNCHANGED <<prog, pc, ctl, ready, threads, resolvable>>
      /\ phase' \in {"pure", "reap"}
      /\ phase = "decode" \/ (phase = "pure" /\ UNCHANGED progress)
  BY DEF StartPass, NextThread, EnterAbove
<1>2. /\ thunks \in [ThreadId -> SUBSET Nat] /\ threads \subseteq ThreadId /\ ThreadId \subseteq Nat
      /\ scan \in Nat /\ pos \in Nat
  BY ConstantsAssumption DEF TypeInv, TypeOK
<1>3. phase' = "pure" =>
        /\ scan' \in threads /\ pos' = 0 /\ pending' = {}
        /\ thunks' = [thunks EXCEPT ![scan'] = @ \ ready[scan']]
  BY DEF StartPass, NextThread, EnterAbove
<1>4. phase' = "reap" => UNCHANGED thunks
  BY DEF StartPass, NextThread, EnterAbove
<1>5. \A u \in ThreadId : thunks'[u] = thunks[u] \/ (phase' = "pure" /\ u = scan')
  BY <1>1, <1>2, <1>3, <1>4
<1>6. InvStalled'
  <2>1. Stalled' <=> Stalled
    BY <1>1 DEF Stalled
  <2>2. StartPass => Stalled
    BY DEF StartPass
  <2>3. NextThread => phase = "pure" /\ UNCHANGED progress
    BY DEF NextThread
  <2> QED
    BY <1>1, <2>1, <2>2, <2>3 DEF InvStalled
<1>7. InvLive'
  BY <1>1, <1>2, <1>3, <1>5 DEF InvLive
<1>8. InvAsleep' /\ InvCovered' /\ InvReaped' /\ StallIsBlockedControl'
  BY <1>1, <1>3 DEF InvAsleep, InvCovered, InvReaped, StallIsBlockedControl
<1>9. \A i \in thunks'[scan'] : phase' = "pure" => i \in Nat /\ i > 0
  <2>1. TypeInv'
    BY TypeEnter
  <2> QED
    BY <2>1, EnterFacts DEF TypeInv, TypeOK
<1>10. InvSettled'
  <2> SUFFICES ASSUME ~progress'
               PROVE  /\ phase' = "pure" => \A t \in threads : t < scan' => Settled(t)'
                      /\ phase' = "reap" => \A t \in threads : Settled(t)'
    BY <1>1, <1>3, <1>9 DEF InvSettled
  <2>1. ASSUME NEW t \in threads, phase' = "reap" \/ t < scan'
        PROVE  Settled(t)' <=> Settled(t)
    <3>1. thunks'[t] = thunks[t]
      BY <1>2, <1>3, <1>5, <2>1
    <3> QED
      BY <1>1, <3>1 DEF Settled, Oldest, NeedsChoice
  <2>2. CASE StartPass
    <3>1. \A t \in threads : phase' = "pure" /\ ~(t < scan')
      BY <1>2, <2>2 DEF StartPass, EnterAbove
    <3> QED
      BY <1>1, <3>1
  <2>3. CASE NextThread
    <3>1. /\ phase = "pure" /\ progress' = progress
          /\ \A i \in thunks[scan] : i <= pos
      BY <2>3 DEF NextThread
    <3>2. \A t \in threads : phase' = "reap" \/ t < scan' => t <= scan
      BY <1>2, <2>3 DEF NextThread, EnterAbove
    <3>3. \A t \in threads : t <= scan => Settled(t)
      <4>1. Settled(scan)
        BY <3>1 DEF InvScan, InvSettled, Settled
      <4> QED
        BY <1>2, <3>1, <4>1 DEF InvSettled
    <3> QED
      BY <2>1, <3>2, <3>3
  <2> QED
    BY <2>2, <2>3
<1> QED
  BY <1>6, <1>7, <1>8, <1>10

\* Looking at one thunk: if it is the oldest and was not stepped, it needs a
\* choice, because its operands are Ready and nothing before it aliases it.
LEMMA OldestOutcome ==
  ASSUME TypeInv, InvScan, InvCovered, NEW i \in thunks[scan], ScanThunk(i), Oldest(scan, i),
         ~progress, ~progress'
  PROVE  NeedsChoice(scan, i)'
<1>1. /\ UNCHANGED <<prog, thunks, phase, scan>>
      /\ IsNext(i) /\ phase = "pure"
      /\ scan \in ThreadId /\ i \in Nat /\ pos \in Nat
      /\ DidStep(i) \/ DidFail(i) \/ DidStop(i) \/ DidSkip(i) \/ DidOffer(i) \/ DidHold(i)
  BY ScanOutcome
<1>2. thunks[scan] \cap ready[scan] = {}
  BY <1>1 DEF InvScan
<1>3. CanStep(scan, i) /\ AddressKnown(i)
  BY <1>1, <1>2, OldestCanStep DEF AddressKnown
<1>4. pending = {}
  <2>1. \A k \in thunks[scan] : k \in Nat
    BY <1>1 DEF TypeInv, TypeOK
  <2>2. \A k \in thunks[scan] : ~(k <= pos)
    BY <1>1, <2>1 DEF IsNext, Oldest
  <2> QED
    BY <1>1, <2>2 DEF InvCovered
<1>5. DidOffer(i) \/ DidHold(i)
  BY <1>1, <1>3, <1>4 DEF DidStep, DidFail, DidStop, DidSkip, Clear
<1> QED
  BY <1>1, <1>5 DEF DidOffer, DidHold, NeedsChoice

\* Looking at one thunk keeps the invariant.
LEMMA QuietScan ==
  ASSUME TypeInv, InvScan, QuietInv, NEW i \in thunks[scan], ScanThunk(i)
  PROVE  QuietInv'
<1> USE DEF QuietInv
<1>1. /\ UNCHANGED <<prog, pc, thunks, threads, phase, scan>> /\ phase = "pure"
      /\ pos' \in {i, Len(prog[scan])}
      /\ pending' \in {pending, pending \cup prog[scan][i].range}
      /\ resolvable' \in {resolvable, resolvable \cup {<<scan, i>>}}
      /\ \/ UNCHANGED unstepped
         \/ Resolve(scan, i) /\ progress' = TRUE
  BY ScanFacts DEF scanStatic
<1>2. /\ scan \in ThreadId /\ i \in Thunks(scan) /\ i \in Nat /\ pos \in Nat
      /\ IsNext(i)
  BY ScanOutcome
<1>3. i <= Len(prog[scan]) /\ Len(prog[scan]) \in Nat /\ \A k \in thunks[scan] : k \in Nat
  BY <1>2, ThunkFacts DEF TypeInv, TypeOK, InvProgram
<1>4. InvLive' /\ InvAsleep'
  <2>1. CASE UNCHANGED unstepped
    BY <1>1, <2>1 DEF unstepped, InvLive, InvAsleep
  <2>2. CASE Resolve(scan, i)
    <3>1. Resolved(scan, i)
      BY <1>1, <2>2 DEF Resolve, Resolved
    <3> QED
      BY <1>2, <3>1, ResolvedControl
  <2> QED
    BY <1>1, <2>1, <2>2
<1>5. InvStalled'
  BY <1>1 DEF InvStalled, Stalled, unstepped
<1>6. InvCovered'
  BY <1>1, <1>2, <1>3 DEF InvCovered
<1>7. InvReaped' /\ StallIsBlockedControl'
  BY <1>1 DEF InvReaped, StallIsBlockedControl
<1>8. InvSettled'
  <2> SUFFICES ASSUME ~progress'
               PROVE  /\ \A t \in threads : t < scan => Settled(t)'
                      /\ \A j \in thunks[scan] : Oldest(scan, j) /\ j <= pos' => NeedsChoice(scan, j)'
    BY <1>1 DEF InvSettled, Oldest
  <2>1. UNCHANGED <<ready, progress>> /\ ~progress
    BY <1>1 DEF unstepped
  <2>2. resolvable \subseteq resolvable'
    BY <1>1
  <2>3. \A t, j : NeedsChoice(t, j) => NeedsChoice(t, j)'
    BY <1>1, <2>2 DEF NeedsChoice
  <2>4. \A t \in threads : t < scan => Settled(t)'
    BY <1>1, <2>1, <2>3 DEF InvSettled, Settled, Oldest
  <2>5. ASSUME NEW j \in thunks[scan], Oldest(scan, j)
        PROVE  NeedsChoice(scan, j)' \/ ~(j <= pos')
    <3>1. CASE j <= pos
      BY <1>1, <2>1, <2>3, <2>5, <3>1 DEF InvSettled
    <3>2. CASE ~(j <= pos)
      <4>1. j = i
        BY <1>2, <1>3, <2>5, <3>2 DEF IsNext, Oldest
      <4> QED
        BY <2>1, <2>5, <4>1, OldestOutcome
    <3> QED
      BY <3>1, <3>2
  <2> QED
    BY <2>4, <2>5
<1> QED
  BY <1>4, <1>5, <1>6, <1>7, <1>8

-----------------------------------------------------------------------------
(* Reaping and the choice                                                  *)

\* Reaping removes only threads with an empty pipeline.
LEMMA QuietReap ==
  ASSUME TypeInv, QuietInv, Reap
  PROVE  QuietInv'
<1> USE DEF QuietInv
<1>1. /\ phase = "reap" /\ threads' = {t \in threads : Alive(t)}
      /\ UNCHANGED <<prog, pc, ctl, thunks, ready, progress>>
      /\ phase' = "decode" \/ (phase' = "choose" /\ ~progress /\ UNCHANGED resolvable)
  BY DEF Reap
<1>2. InvStalled'
  BY <1>1 DEF InvStalled, Stalled
<1>3. InvLive' /\ InvAsleep'
  BY <1>1 DEF InvLive, InvAsleep, Alive
<1>4. InvCovered' /\ StallIsBlockedControl'
  BY <1>1 DEF InvCovered, StallIsBlockedControl
<1>5. InvReaped'
  BY <1>1 DEF InvReaped, Alive
<1>6. InvSettled'
  BY <1>1 DEF InvSettled, Settled, Oldest, NeedsChoice
<1> QED
  BY <1>2, <1>3, <1>4, <1>5, <1>6

\* When nothing is on offer no pipeline holds a thunk: a thread that is left
\* waits for a join handle or for room in its pipeline.
LEMMA QuietExit ==
  ASSUME TypeInv, ControlInv, QuietInv, Exit
  PROVE  QuietInv'
<1> USE DEF QuietInv
<1>1. /\ phase = "choose" /\ resolvable = {} /\ phase' \in {"exit", "panic_threads"}
      /\ UNCHANGED <<prog, pc, ctl, thunks, threads>>
  BY DEF Exit, chooseStatic
<1>2. /\ ctl \in [ThreadId -> ControlStates] /\ threads \subseteq ThreadId
  BY DEF TypeInv, TypeOK
<1>3. ASSUME NEW t \in threads
      PROVE  thunks[t] = {} /\ ctl[t] \in {"join", "pipeline"}
  <2>1. Settled(t) /\ Alive(t) /\ Stalled /\ t \in ThreadId
    BY <1>1, <1>2 DEF InvSettled, InvReaped, InvStalled
  <2>2. thunks[t] = {}
    BY <1>1, <2>1, OldestExists DEF Settled, NeedsChoice
  <2>3. ctl[t] \notin {"woken", "running", "new", "done", "thunk"}
    BY <2>1, <2>2, AsleepOnPending DEF Stalled, Alive, InvLive
  <2> QED
    BY <1>2, <2>1, <2>2, <2>3 DEF ControlStates
<1>4. StallIsBlockedControl'
  BY <1>1, <1>3 DEF StallIsBlockedControl
<1>5. InvLive' /\ InvAsleep'
  BY <1>1 DEF InvLive, InvAsleep
<1>6. InvStalled' /\ InvCovered' /\ InvSettled' /\ InvReaped'
  BY <1>1 DEF InvStalled, InvCovered, InvSettled, InvReaped
<1> QED
  BY <1>4, <1>5, <1>6

\* The choice ends the call of Process::step.
LEMMA QuietChoose ==
  ASSUME TypeInv, QuietInv, NEW x \in resolvable,
         ChooseStep(x[1], x[2]) \/ ChoosePanic(x[1], x[2])
  PROVE  QuietInv'
<1> USE DEF QuietInv
<1>1. x[1] \in ThreadId /\ x[2] \in thunks[x[1]]
  BY DEF TypeInv, TypeOK
<1>2. phase' \in {"decode", "panic_step"}
  BY DEF ChooseStep, ChoosePanic
<1>3. InvLive' /\ InvAsleep'
  <2>1. CASE ChooseStep(x[1], x[2])
    <3>1. Resolved(x[1], x[2])
      BY <2>1 DEF ChooseStep, chooseStatic, Resolve, Resolved
    <3> QED
      BY <1>1, <3>1, ResolvedControl
  <2>2. CASE ChoosePanic(x[1], x[2])
    BY <2>2 DEF ChoosePanic, chooseStatic, InvLive, InvAsleep
  <2> QED
    BY <2>1, <2>2
<1>4. InvStalled' /\ InvCovered' /\ InvSettled' /\ InvReaped' /\ StallIsBlockedControl'
  BY <1>2 DEF InvStalled, InvCovered, InvSettled, InvReaped, StallIsBlockedControl
<1> QED
  BY <1>3, <1>4

\* The invariant is inductive.
LEMMA QuietNext ==
  ASSUME TypeInv, ReleaseInv, ControlInv, QuietInv, [Next]_vars
  PROVE  QuietInv'
<1>1. InvScan
  BY DEF ReleaseInv
<1>2. CASE UNCHANGED vars
  BY <1>2 DEF vars, QuietInv, InvStalled, Stalled, InvLive, InvAsleep, InvCovered, InvSettled,
              Settled, Oldest, NeedsChoice, InvReaped, Alive, StallIsBlockedControl
<1> QED
  BY <1>1, <1>2, QuietDecode, QuietEnter, QuietScan, QuietReap, QuietExit, QuietChoose DEF Next

\* Initially every pipeline is empty and nobody sleeps.
LEMMA QuietInit == Init => QuietInv
<1> SUFFICES ASSUME Init PROVE QuietInv
  OBVIOUS
<1>1. /\ phase = "decode" /\ threads = {Main} /\ Main \in ThreadId
      /\ \A t \in ThreadId : thunks[t] = {} /\ ctl[t] = IF t = Main THEN "woken" ELSE "new"
  BY ConstantsAssumption DEF Init
<1> QED
  BY <1>1 DEF QuietInv, InvStalled, InvLive, InvAsleep, InvCovered, InvSettled, InvReaped,
              StallIsBlockedControl

\* The invariant holds in every reachable state.
LEMMA QuietInductive == Spec => [](TypeInv /\ ControlInv /\ QuietInv)
<1>1. Init => TypeInv /\ ReleaseInv /\ ControlInv /\ QuietInv
  BY TypeInit, ReleaseInit, ControlInit, QuietInit
<1>2. TypeInv /\ ReleaseInv /\ ControlInv /\ QuietInv /\ [Next]_vars
        => TypeInv' /\ ReleaseInv' /\ ControlInv' /\ QuietInv'
  BY TypeNext, ReleaseNext, ControlNext, QuietNext
<1> QED
  BY <1>1, <1>2, PTL DEF Spec

-----------------------------------------------------------------------------
(* Joined threads                                                          *)

\* A thread that has been joined has returned, and the main thread exists.
InvJoined ==
  /\ ctl[Main] # "new"
  /\ \A t \in ThreadId : \A k \in 1..(pc[t] - 1) :
       prog[t][k].op = "join" => ctl[prog[t][k].target] = "done"

\* The look-up of the main thread fails only when it has been reaped.
InvOrphan == phase = "panic_thread" => Main \notin threads

JoinedInv == InvJoined /\ InvOrphan

\* A step of a control task leaves behind only joins of threads that have
\* returned.
LEMMA JoinedDecode ==
  ASSUME TypeInv, ControlInv, JoinedInv, NEW t \in ThreadId, Decode(t)
  PROVE  JoinedInv'
<1>1. /\ ctl \in [ThreadId -> ControlStates] /\ pc \in [ThreadId -> Nat \ {0}]
      /\ Main \in ThreadId /\ prog' = prog
  BY ConstantsAssumption, DecodeKinds DEF TypeInv, TypeOK
<1>2. \A u \in ThreadId : (ctl[u] = "done" => ctl'[u] = "done") /\ (ctl[u] # "new" => ctl'[u] # "new")
  BY <1>1 DEF Decode, Poll, Declare, BlockPipeline, AwaitReady, AwaitPending, AwaitPanic, Decoding,
              Create, JoinDone, JoinWait, JoinPanic, Finish, Suspend, Joining
<1>3. \/ UNCHANGED pc
      \/ /\ pc' = [pc EXCEPT ![t] = @ + 1]
         /\ prog[t][pc[t]].op = "join" => ctl[prog[t][pc[t]].target] = "done"
  BY DEF Decode, Poll, Declare, BlockPipeline, AwaitReady, AwaitPending, AwaitPanic, Decoding,
         Create, JoinDone, JoinWait, JoinPanic, Finish, Advance
<1>4. \A u \in ThreadId : \A k \in 1..(pc[u] - 1) :
        prog[u][k].op = "join" => prog[u][k].target \in ThreadId
  BY JoinedTarget DEF TypeInv
<1>5. InvJoined'
  <2> SUFFICES ASSUME NEW u \in ThreadId, NEW k \in 1..(pc'[u] - 1), prog[u][k].op = "join"
               PROVE  ctl'[prog[u][k].target] = "done"
    BY <1>1, <1>2 DEF JoinedInv, InvJoined
  <2>1. CASE k \in 1..(pc[u] - 1)
    BY <1>2, <1>4, <2>1 DEF JoinedInv, InvJoined
  <2>2. CASE k \notin 1..(pc[u] - 1)
    <3>1. u = t /\ k = pc[t] /\ ctl[prog[t][pc[t]].target] = "done" /\ pc' # pc
      BY <1>1, <1>3, <2>2
    <3>2. pc[t] <= Len(prog[t])
      BY <3>1 DEF Decode, Poll, Declare, BlockPipeline, AwaitReady, AwaitPending, AwaitPanic,
                  Decoding, Create, JoinDone, JoinWait, JoinPanic, Finish
    <3>3. prog[t][pc[t]].target \in ThreadId
      BY <3>1, <3>2, JoinTarget
    <3> QED
      BY <1>2, <3>1, <3>3
  <2> QED
    BY <2>1, <2>2
<1>6. InvOrphan'
  <2>1. phase' = "panic_thread" => AwaitPanic(t)
    BY DEF Decode, Poll, Declare, BlockPipeline, AwaitReady, AwaitPending, Decoding, AwaitPanic,
           Create, JoinDone, JoinWait, JoinPanic, Finish
  <2> QED
    BY <2>1 DEF AwaitPanic, InvOrphan
<1> QED
  BY <1>5, <1>6 DEF JoinedInv

\* The invariant is inductive: nothing but decoding moves a control task on, and
\* nothing revives one that has returned.
LEMMA JoinedNext ==
  ASSUME TypeInv, ControlInv, JoinedInv, [Next]_vars
  PROVE  JoinedInv'
<1>1. CASE \E t \in ThreadId : Decode(t)
  BY <1>1, JoinedDecode
<1>2. ASSUME ~\E t \in ThreadId : Decode(t)
      PROVE  InvOrphan'
  <2>1. phase' = "panic_thread" => UNCHANGED <<phase, threads>>
    <3>1. CASE StartPass \/ NextThread
      BY <3>1, EnterFacts
    <3>2. CASE \E i \in thunks[scan] : ScanThunk(i)
      BY <3>2, ScanFacts DEF scanStatic
    <3>3. CASE Reap \/ Exit \/ \E x \in resolvable : ChooseStep(x[1], x[2]) \/ ChoosePanic(x[1], x[2])
      BY <3>3 DEF Reap, Exit, ChooseStep, ChoosePanic
    <3>4. CASE UNCHANGED vars
      BY <3>4 DEF vars
    <3> QED
      BY <1>2, <3>1, <3>2, <3>3, <3>4 DEF Next
  <2> QED
    BY <2>1 DEF JoinedInv, InvOrphan
<1>3. ASSUME \/ \E t \in ThreadId : \E i \in thunks[t] : Resolved(t, i)
             \/ Swept
      PROVE  InvJoined'
  <2>1. UNCHANGED <<prog, pc>>
    BY <1>3 DEF Resolved, Swept
  <2>2. \A u \in ThreadId : (ctl[u] = "done" => ctl'[u] = "done") /\ (ctl[u] # "new" => ctl'[u] # "new")
    BY <1>3 DEF Resolved, Swept, Waiting, TypeInv, TypeOK
  <2>3. \A u \in ThreadId : \A k \in 1..(pc[u] - 1) :
          prog[u][k].op = "join" => prog[u][k].target \in ThreadId
    BY JoinedTarget DEF TypeInv
  <2> QED
    BY <2>1, <2>2, <2>3, ConstantsAssumption DEF JoinedInv, InvJoined
<1> QED
  BY <1>1, <1>2, <1>3, StepKinds DEF JoinedInv

\* Initially nothing has been joined.
LEMMA JoinedInit == Init => JoinedInv
<1> SUFFICES ASSUME Init PROVE JoinedInv
  OBVIOUS
<1>1. ctl[Main] = "woken" /\ phase = "decode" /\ \A t \in ThreadId : pc[t] = 1
  BY ConstantsAssumption DEF Init
<1> QED
  BY <1>1 DEF JoinedInv, InvJoined, InvOrphan

\* A thread that has returned has joined every thread its trace joins, and they
\* have returned.
LEMMA ReturnedJoins ==
  ASSUME TypeInv, ControlInv, JoinedInv, NEW t \in ThreadId, ctl[t] = "done",
         NEW u \in Joins(t)
  PROVE  u \in ThreadId /\ ctl[u] = "done"
<1>1. PICK k \in DOMAIN prog[t] : prog[t][k] = JoinThread(u)
  BY DEF Joins
<1>2. /\ pc[t] > Len(prog[t]) /\ pc[t] \in Nat /\ prog[t] \in Seq(Instrs)
      /\ Len(prog[t]) \in Nat
  BY DEF ControlInv, InvControl, TypeInv, TypeOK
<1>3. k \in 1..(pc[t] - 1)
  BY <1>1, <1>2
<1>4. prog[t][k].op = "join" /\ prog[t][k].target = u
  BY <1>1 DEF JoinThread
<1> QED
  BY <1>3, <1>4 DEF JoinedInv, InvJoined, Joins

-----------------------------------------------------------------------------
(* Theorems                                                                *)

\* process.rs, Process::step: when it comes to its choice no control task can
\* run, the oldest thunk of every thread is an atomic operation that can step
\* and is on offer unless it is a release, and something is on offer if any
\* thread has a thunk left.
THEOREM ChoiceIsQuiescent == Spec => []Quiescent
<1>1. TypeInv /\ ControlInv /\ QuietInv => Quiescent
  <2> SUFFICES ASSUME TypeInv, ControlInv, QuietInv, phase = "choose"
               PROVE  /\ Stalled
                      /\ \A t \in ThreadId : \A i \in thunks[t] : Oldest(t, i) =>
                           /\ t \in threads
                           /\ prog[t][i].ord # "None"
                           /\ CanStep(t, i)
                           /\ prog[t][i].ord # "Release" => <<t, i>> \in resolvable
                           /\ resolvable # {}
                      /\ \A t \in ThreadId : ctl[t] = "thunk" => prog[t][pc[t]].of \in thunks[t]
    BY DEF Quiescent
  <2>1. Stalled
    BY DEF QuietInv, InvStalled
  <2>2. ASSUME NEW t \in ThreadId, NEW i \in thunks[t], Oldest(t, i)
        PROVE  t \in threads /\ NeedsChoice(t, i) /\ CanStep(t, i)
    <3>1. t \in threads
      BY DEF QuietInv, InvLive
    <3>2. Settled(t)
      BY <3>1 DEF QuietInv, InvSettled
    <3> QED
      BY <2>2, <3>1, <3>2, OldestCanStep DEF Settled
  <2>3. \A t \in ThreadId : ctl[t] = "thunk" => prog[t][pc[t]].of \in thunks[t]
    BY AsleepOnPending DEF QuietInv
  <2> QED
    BY <2>1, <2>2, <2>3 DEF NeedsChoice
<1> QED
  BY <1>1, QuietInductive, PTL

\* process.rs:112: the assertion that no thread is left when nothing can be
\* resolved fails only with every pipeline empty and every control task that is
\* left waiting for a join handle or for the pipeline.
THEOREM StallsAreBlockedControl == Spec => []StallIsBlockedControl
<1>1. QuietInv => StallIsBlockedControl
  BY DEF QuietInv
<1> QED
  BY <1>1, QuietInductive, PTL
\* data.rs, <Thunk as Future>::poll of a constant: the look-up of the main
\* thread fails in no thread that main joins, itself or through the threads it
\* joins, because main has then returned, and so have they.
THEOREM MainOutlivesItsJoins == Spec => []MainOutlivesJoined
<1>1. Init => TypeInv /\ ControlInv /\ JoinedInv
  BY TypeInit, ControlInit, JoinedInit
<1>2. TypeInv /\ ControlInv /\ JoinedInv /\ [Next]_vars => TypeInv' /\ ControlInv' /\ JoinedInv'
  BY TypeNext, ControlNext, JoinedNext
<1>3. TypeInv /\ ControlInv /\ JoinedInv => MainOutlivesJoined
  <2> SUFFICES ASSUME TypeInv, ControlInv, JoinedInv, phase = "panic_thread",
                      NEW u \in Joins(Main) \cup {Main}, NEW t \in Joins(u)
               PROVE  ctl[t] # "running"
    BY DEF MainOutlivesJoined
  <2>1. Main \in ThreadId /\ ctl[Main] = "done"
    BY ConstantsAssumption DEF JoinedInv, InvJoined, InvOrphan, ControlInv, ReapedIsDone
  <2>2. u \in ThreadId /\ ctl[u] = "done"
    BY <2>1, ReturnedJoins
  <2>3. ctl[t] = "done"
    BY <2>2, ReturnedJoins
  <2> QED
    BY <2>3
<1> QED
  BY <1>1, <1>2, <1>3, PTL DEF Spec
=============================================================================
