---------------------------- MODULE AsyncMutex ----------------------------
(***************************************************************************)
(* The asynchronous mutexes and condition variables of                     *)
(* src/src/util/mutex.rs.  A task that has to wait puts the sender of a    *)
(* oneshot channel into a queue and awaits the receiver; dropping the      *)
(* sender wakes it.  A queued sender is modelled by the task that awaits   *)
(* its receiver.  No method awaits between two changes of state, so each   *)
(* is one action; the executor polls a woken task some time later.         *)
(***************************************************************************)
EXTENDS Naturals, Sequences, FiniteSets

CONSTANTS
  Task, MutexId, CondvarId, None,
  NotifyLocked  \* users notify only while they hold the mutexes of those they wake

ASSUME AsyncMutexAssumption == NotifyLocked \in BOOLEAN /\ None \notin Task \cup MutexId

VARIABLES
  locked,   \* per mutex: MutexInner.locked
  queue,    \* per mutex: MutexInner.queue
  cqueue,   \* per condition variable: CondvarInner.queue
  st,       \* per task: running, blocked on a receiver, or woken and not yet polled
  goal,     \* per task: the mutex it will hold when its receiver's await returns
  holds,    \* per task: the mutexes it has locked and not unlocked
  panicked  \* assert!(this.locked) has failed

vars == <<locked, queue, cqueue, st, goal, holds, panicked>>

Elems(s) == {s[i] : i \in 1..Len(s)}

\* Every variable has its type, and only tasks that are not running have a goal.
TypeOK ==
  /\ locked \in [MutexId -> BOOLEAN]
  /\ queue \in [MutexId -> Seq(Task)]
  /\ cqueue \in [CondvarId -> Seq(MutexId \X Task)]
  /\ st \in [Task -> {"run", "blocked", "woken"}]
  /\ goal \in [Task -> MutexId \cup {None}]
  /\ holds \in [Task -> SUBSET MutexId]
  /\ panicked \in BOOLEAN
  /\ \A t \in Task : st[t] = "run" <=> goal[t] = None

Init ==
  /\ locked = [m \in MutexId |-> FALSE]
  /\ queue = [m \in MutexId |-> <<>>]
  /\ cqueue = [c \in CondvarId |-> <<>>]
  /\ st = [t \in Task |-> "run"]
  /\ goal = [t \in Task |-> None]
  /\ holds = [t \in Task |-> {}]
  /\ panicked = FALSE

Running(t) == ~panicked /\ st[t] = "run"

\* Mutex::try_lock; the answer false changes nothing.
TryLock(t, m) ==
  /\ Running(t) /\ ~locked[m]
  /\ locked' = [locked EXCEPT ![m] = TRUE]
  /\ holds' = [holds EXCEPT ![t] = @ \cup {m}]
  /\ UNCHANGED <<queue, cqueue, st, goal, panicked>>

\* Mutant of LockWait: push_front for push_back.
LockWaitFront(t, m) ==
  /\ Running(t) /\ locked[m] /\ m \notin holds[t]
  /\ queue' = [queue EXCEPT ![m] = <<t>> \o @]
  /\ st' = [st EXCEPT ![t] = "blocked"]
  /\ goal' = [goal EXCEPT ![t] = m]
  /\ UNCHANGED <<locked, cqueue, holds, panicked>>

\* Mutex::lock of a locked mutex.  Users do not lock again what they hold.
LockWait(t, m) ==
  /\ Running(t) /\ locked[m] /\ m \notin holds[t]
  /\ queue' = [queue EXCEPT ![m] = Append(@, t)]
  /\ st' = [st EXCEPT ![t] = "blocked"]
  /\ goal' = [goal EXCEPT ![t] = m]
  /\ UNCHANGED <<locked, cqueue, holds, panicked>>

\* Mutex::lock.
Lock(t, m) == TryLock(t, m) \/ LockWait(t, m)

\* Mutant of HandOff: the mutex is unlocked and the head of the queue woken as well.
HandOffUnlocked(m) ==
  IF queue[m] = <<>>
  THEN locked' = [locked EXCEPT ![m] = FALSE] /\ UNCHANGED queue
  ELSE queue' = [queue EXCEPT ![m] = Tail(@)] /\ locked' = [locked EXCEPT ![m] = FALSE]

\* Mutex::unlock without its assertion: the head of the queue is dropped, which
\* wakes its task and leaves the mutex locked for it, or the mutex is unlocked.
HandOff(m) ==
  IF queue[m] = <<>>
  THEN locked' = [locked EXCEPT ![m] = FALSE] /\ UNCHANGED queue
  ELSE queue' = [queue EXCEPT ![m] = Tail(@)] /\ UNCHANGED locked

\* The tasks whose senders HandOff drops.
Dropped(m) == {queue[m][i] : i \in {1} \cap 1..Len(queue[m])}

Wake(S) == [u \in Task |-> IF u \in S THEN "woken" ELSE st[u]]

Unlock(t, m) ==
  /\ Running(t) /\ m \in holds[t] /\ locked[m]
  /\ HandOff(m)
  /\ st' = Wake(Dropped(m))
  /\ holds' = [holds EXCEPT ![t] = @ \ {m}]
  /\ UNCHANGED <<cqueue, goal, panicked>>

\* Mutant of Wait: the receiver is not awaited.
WaitReturns(t, c, m) ==
  /\ Running(t) /\ m \in holds[t] /\ locked[m]
  /\ HandOff(m)
  /\ cqueue' = [cqueue EXCEPT ![c] = Append(@, <<m, t>>)]
  /\ st' = Wake(Dropped(m))
  /\ goal' = [goal EXCEPT ![t] = m]
  /\ holds' = [holds EXCEPT ![t] = @ \ {m}]
  /\ UNCHANGED panicked

\* Condvar::wait: unlock, then queue up.
Wait(t, c, m) ==
  /\ Running(t) /\ m \in holds[t] /\ locked[m]
  /\ HandOff(m)
  /\ cqueue' = [cqueue EXCEPT ![c] = Append(@, <<m, t>>)]
  /\ st' = [Wake(Dropped(m)) EXCEPT ![t] = "blocked"]
  /\ goal' = [goal EXCEPT ![t] = m]
  /\ holds' = [holds EXCEPT ![t] = @ \ {m}]
  /\ UNCHANGED panicked

\* assert!(this.locked) in Mutex::unlock, called by a task that holds m.
UnlockPanic(t, m) ==
  /\ Running(t) /\ m \in holds[t] /\ ~locked[m]
  /\ panicked' = TRUE
  /\ UNCHANGED <<locked, queue, cqueue, st, goal, holds>>

\* The user's discipline: the notifier holds the mutex of everyone it notifies.
MayNotify(t, waiters) ==
  NotifyLocked => \A w \in Elems(waiters) : w[1] \in holds[t]

\* Mutex::notify_impl for the waiter w = <<mutex, task>>: to the queue of its
\* mutex if that is locked, else the sender is dropped.  q is the queues, which
\* an earlier waiter may have changed.
NotifyImpl(q, w) ==
  IF locked[w[1]] THEN [q EXCEPT ![w[1]] = Append(@, w[2])] ELSE q

\* The queues after notify_impl has been called for a sequence of waiters, in order.
Notified(waiters) ==
  LET after[i \in 0..Len(waiters)] ==
        IF i = 0 THEN queue ELSE NotifyImpl(after[i - 1], waiters[i])
  IN  after[Len(waiters)]

NotifyEach(waiters) ==
  /\ queue' = Notified(waiters)
  /\ st' = Wake({w[2] : w \in {v \in Elems(waiters) : ~locked[v[1]]}})

\* Mutant of Notify: the waiter stays in the condition variable's queue.
NotifyKeeps(t, c) ==
  /\ Running(t) /\ cqueue[c] # <<>>
  /\ MayNotify(t, <<Head(cqueue[c])>>) /\ NotifyEach(<<Head(cqueue[c])>>)
  /\ UNCHANGED <<cqueue, locked, goal, holds, panicked>>

\* Mutant of Notify: the waiter's sender is dropped although its mutex is locked.
NotifyDrops(t, c) ==
  /\ Running(t) /\ cqueue[c] # <<>>
  /\ MayNotify(t, <<Head(cqueue[c])>>)
  /\ st' = Wake({Head(cqueue[c])[2]})
  /\ cqueue' = [cqueue EXCEPT ![c] = Tail(@)]
  /\ UNCHANGED <<queue, locked, goal, holds, panicked>>

\* Condvar::notify; on an empty queue it changes nothing.
Notify(t, c) ==
  /\ Running(t) /\ cqueue[c] # <<>>
  /\ MayNotify(t, <<Head(cqueue[c])>>) /\ NotifyEach(<<Head(cqueue[c])>>)
  /\ cqueue' = [cqueue EXCEPT ![c] = Tail(@)]
  /\ UNCHANGED <<locked, goal, holds, panicked>>

\* Condvar::notify_all; the queue is drained in order.
NotifyAll(t, c) ==
  /\ Running(t) /\ cqueue[c] # <<>>
  /\ MayNotify(t, cqueue[c]) /\ NotifyEach(cqueue[c])
  /\ cqueue' = [cqueue EXCEPT ![c] = <<>>]
  /\ UNCHANGED <<locked, goal, holds, panicked>>

\* The executor polls a woken task: its receiver's await returns Canceled.
Resume(t) ==
  /\ ~panicked /\ st[t] = "woken"
  /\ st' = [st EXCEPT ![t] = "run"]
  /\ holds' = [holds EXCEPT ![t] = @ \cup {goal[t]}]
  /\ goal' = [goal EXCEPT ![t] = None]
  /\ UNCHANGED <<locked, queue, cqueue, panicked>>

Next ==
  \E t \in Task :
    \/ \E m \in MutexId : Lock(t, m) \/ Unlock(t, m) \/ UnlockPanic(t, m)
    \/ \E m \in MutexId, c \in CondvarId : Wait(t, c, m)
    \/ \E c \in CondvarId : Notify(t, c) \/ NotifyAll(t, c)
    \/ Resume(t)

\* The executor polls every woken task (run_until_stalled), and users unlock
\* what they hold.
Fairness ==
  \A t \in Task : WF_vars(Resume(t)) /\ \A m \in MutexId : WF_vars(Unlock(t, m))

Spec == Init /\ [][Next]_vars /\ Fairness

-----------------------------------------------------------------------------
(* Properties                                                              *)

\* t has the mutex, or will have it as soon as it is polled.
Owns(t, m) == m \in holds[t] \/ (st[t] = "woken" /\ goal[t] = m)

\* At most one task owns a mutex, counting a task the mutex has been handed to
\* and that has not been polled yet; and locked says whether there is one.
MutualExclusion ==
  \A m \in MutexId :
    /\ \A t, u \in Task : Owns(t, m) /\ Owns(u, m) => t = u
    /\ locked[m] <=> \E t \in Task : Owns(t, m)

\* Places a blocked task's sender can be.
Places(t) ==
  {p \in MutexId \X (1..Cardinality(Task)) :
     p[2] <= Len(queue[p[1]]) /\ queue[p[1]][p[2]] = t}
  \cup
  {p \in CondvarId \X (1..Cardinality(Task)) :
     p[2] <= Len(cqueue[p[1]]) /\ cqueue[p[1]][p[2]][2] = t}

\* Every blocked task has exactly one sender, in exactly one queue, and no other
\* task has any: no wake-up is lost and none comes twice.
OneSender ==
  \A t \in Task : Cardinality(Places(t)) = IF st[t] = "blocked" THEN 1 ELSE 0

\* A task waits for something while it holds a mutex, the users' own risk of
\* deadlock.
HoldAndWait == \E t \in Task : st[t] = "blocked" /\ holds[t] # {}

\* Whoever queues for a mutex gets it, past any number of other tasks that
\* lock, try and wait, because unlock hands the mutex over; unless users block
\* while they hold mutexes.
QueuedGetsLock ==
  \A t \in Task, m \in MutexId :
    t \in Elems(queue[m]) ~> m \in holds[t] \/ HoldAndWait

\* The task that owns m, or None.
Owner(m) == IF \E t \in Task : Owns(t, m) THEN CHOOSE t \in Task : Owns(t, m) ELSE None

\* The mutexes and condition variables do what Monitor promises.
Mon == INSTANCE Monitor WITH
  owner <- [m \in MutexId |-> Owner(m)],
  want <- [m \in MutexId |-> Elems(queue[m])],
  asleep <- [c \in CondvarId |-> Elems(cqueue[c])]

\* The specification Monitor is implemented (by the part of Spec that is safety).
ImplementsMonitor == Mon!Spec
=============================================================================
