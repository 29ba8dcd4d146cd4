------------------------------ MODULE Pthread ------------------------------
(***************************************************************************)
(* The mutexes and condition variables of simulated programs               *)
(* (src/src/native/pthread.rs) on top of AsyncMutex.  Every function also  *)
(* keeps the word of the mutex in simulated memory: a cmpxchg, which       *)
(* completes whenever Process::step chooses it, and an assertion on its    *)
(* result.  Other threads run while a cmpxchg is awaited, and between its  *)
(* completion and the poll of the control task that awaits it.             *)
(***************************************************************************)
EXTENDS AsyncMutex

VARIABLES
  word,  \* per mutex: the word at its address
  call   \* per task: the pthread function it is in, and how far

\* User: between two calls.  Lock: in mutex_lock, try_lock or cond_wait, until
\* the AsyncMutex is locked; acquire: awaiting the cmpxchg of mutex_lock_acquire;
\* release: awaiting the one of mutex_lock_release; released: it has completed.
Calls ==
  [step : {"user", "lock", "acquire", "release", "released"},
   mutex : MutexId \cup {None}, cond : CondvarId \cup {None}]

User == [step |-> "user", mutex |-> None, cond |-> None]
InCall(step, m, c) == [step |-> step, mutex |-> m, cond |-> c]

pthreadVars == <<vars, word, call>>

\* Every variable has its type, and a task is blocked only inside a call.
PthreadTypeOK ==
  /\ TypeOK
  /\ word \in [MutexId -> {"zero", "UNLOCKED", "LOCKED"}]
  /\ call \in [Task -> Calls]
  /\ \A t \in Task : st[t] # "run" <=> call[t].step = "lock"

PthreadInit ==
  /\ Init
  /\ word = [m \in MutexId |-> "zero"]
  /\ call = [t \in Task |-> User]

GoTo(t, s) == call' = [call EXCEPT ![t] = s]
At(t, step) == ~panicked /\ call[t].step = step

\* FlowCtx::cmpxchg_u64, and the assertion of mutex_lock_acquire and
\* mutex_lock_release that it found what it expected.
CmpxchgU64(m, expected, replacement) ==
  /\ word' = [word EXCEPT ![m] = IF @ = expected THEN replacement ELSE @]
  /\ panicked' = (word[m] # expected)
  /\ UNCHANGED <<locked, queue, cqueue, st, goal, holds>>

\* pthread_mutex_init, before the mutex is used.
MutexInit(t, m) ==
  /\ At(t, "user") /\ word[m] = "zero"
  /\ word' = [word EXCEPT ![m] = "UNLOCKED"]
  /\ UNCHANGED <<vars, call>>

\* Mutant of MutexTrylock: mutex_lock_acquire is not called.
MutexTrylockBare(t, m) ==
  /\ At(t, "user") /\ word[m] # "zero"
  /\ TryLock(t, m)
  /\ UNCHANGED <<word, call>>

\* pthread_mutex_lock of a free mutex, and pthread_mutex_trylock.
MutexTrylock(t, m) ==
  /\ At(t, "user") /\ word[m] # "zero"
  /\ TryLock(t, m)
  /\ GoTo(t, InCall("acquire", m, None))
  /\ UNCHANGED word

\* pthread_mutex_lock of a locked mutex.
MutexLock(t, m) ==
  /\ At(t, "user") /\ word[m] # "zero"
  /\ LockWait(t, m)
  /\ GoTo(t, InCall("lock", m, None))
  /\ UNCHANGED word

\* Mutex::lock or Condvar::wait returns.
Locked(t) ==
  /\ Resume(t)
  /\ GoTo(t, InCall("acquire", goal[t], None))
  /\ UNCHANGED word

\* mutex_lock_acquire: the cmpxchg completes and its result is checked.
MutexLockAcquire(t) ==
  /\ At(t, "acquire")
  /\ CmpxchgU64(call[t].mutex, "UNLOCKED", "LOCKED")
  /\ GoTo(t, User)

\* pthread_mutex_unlock and pthread_cond_wait begin with the release of the word.
MutexUnlock(t, m) ==
  /\ At(t, "user") /\ m \in holds[t]
  /\ GoTo(t, InCall("release", m, None))
  /\ UNCHANGED <<vars, word>>

CondWait(t, c, m) ==
  /\ At(t, "user") /\ m \in holds[t]
  /\ GoTo(t, InCall("release", m, c))
  /\ UNCHANGED <<vars, word>>

\* mutex_lock_release: the cmpxchg completes.
MutexLockRelease(t) ==
  /\ At(t, "release")
  /\ CmpxchgU64(call[t].mutex, "LOCKED", "UNLOCKED")
  /\ GoTo(t, [call[t] EXCEPT !.step = "released"])

\* Mutant of Released: the mutex is handed over while the cmpxchg is pending.
ReleasedEarly(t) ==
  LET m == call[t].mutex  c == call[t].cond
  IN  /\ At(t, "release") \/ At(t, "released")
      /\ \/ c = None /\ Unlock(t, m) /\ GoTo(t, User)
         \/ c # None /\ Wait(t, c, m) /\ GoTo(t, InCall("lock", m, None))
         \/ UnlockPanic(t, m) /\ UNCHANGED call
      /\ UNCHANGED word

\* The control task is polled and goes on: Mutex::unlock, or Condvar::wait,
\* which unlocks too.
Released(t) ==
  LET m == call[t].mutex  c == call[t].cond
  IN  /\ At(t, "released")
      /\ \/ c = None /\ Unlock(t, m) /\ GoTo(t, User)
         \/ c # None /\ Wait(t, c, m) /\ GoTo(t, InCall("lock", m, None))
         \/ UnlockPanic(t, m) /\ UNCHANGED call
      /\ UNCHANGED word

\* pthread_cond_signal and pthread_cond_broadcast.
CondSignal(t, c) == At(t, "user") /\ Notify(t, c) /\ UNCHANGED <<word, call>>
CondBroadcast(t, c) == At(t, "user") /\ NotifyAll(t, c) /\ UNCHANGED <<word, call>>

PthreadNext ==
  \E t \in Task :
    \/ \E m \in MutexId :
         MutexInit(t, m) \/ MutexTrylock(t, m) \/ MutexLock(t, m) \/ MutexUnlock(t, m)
    \/ \E m \in MutexId, c \in CondvarId : CondWait(t, c, m)
    \/ \E c \in CondvarId : CondSignal(t, c) \/ CondBroadcast(t, c)
    \/ Locked(t) \/ MutexLockAcquire(t) \/ MutexLockRelease(t) \/ Released(t)

\* The executor polls every woken task, Process::step resolves every operation
\* in the end, and a user who holds a mutex unlocks it, some time between other
\* calls.
PthreadFairness ==
  \A t \in Task :
    /\ WF_pthreadVars(Locked(t))
    /\ WF_pthreadVars(MutexLockAcquire(t))
    /\ WF_pthreadVars(MutexLockRelease(t))
    /\ WF_pthreadVars(Released(t))
    /\ \A m \in MutexId : SF_pthreadVars(MutexUnlock(t, m))

PthreadSpec == PthreadInit /\ [][PthreadNext]_pthreadVars /\ PthreadFairness

-----------------------------------------------------------------------------
(* Properties                                                              *)

\* Between the return of pthread_mutex_lock and the release of the word.
Inside(t, m) ==
  /\ m \in holds[t]
  /\ call[t].mutex = m => call[t].step = "release"

\* The word in simulated memory is LOCKED exactly while one thread is inside:
\* it follows the AsyncMutex although it is changed in other steps.
WordAgrees ==
  \A m \in MutexId :
    /\ word[m] = "LOCKED" <=> \E t \in Task : Inside(t, m)
    /\ \A t, u \in Task : Inside(t, m) /\ Inside(u, m) => t = u

\* None of the assertions in mutex_lock_acquire, mutex_lock_release and
\* Mutex::unlock (util/mutex.rs:57) fails.
AssertionsHold == ~panicked
=============================================================================
