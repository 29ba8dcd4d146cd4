------------------------------ MODULE Monitor ------------------------------
(***************************************************************************)
(* What the mutexes and condition variables of src/src/util/mutex.rs       *)
(* promise their users (src/src/native/pthread.rs): a mutex has at most    *)
(* one owner, a task that wants it gets it from nobody but its owner or    *)
(* when it is free, and a task asleep on a condition variable comes back   *)
(* only by being notified and then owning its mutex.  No order is promised.*)
(***************************************************************************)
CONSTANTS Task, MutexId, CondvarId, None

VARIABLES
  owner,   \* per mutex: the task that owns it, or None
  want,    \* per mutex: the tasks waiting to own it
  asleep   \* per condition variable: the <<mutex, task>> asleep on it

vars == <<owner, want, asleep>>

Init ==
  /\ owner = [m \in MutexId |-> None]
  /\ want = [m \in MutexId |-> {}]
  /\ asleep = [c \in CondvarId |-> {}]

\* A free mutex is taken.
Take(t, m) ==
  /\ owner[m] = None
  /\ owner' = [owner EXCEPT ![m] = t]
  /\ UNCHANGED <<want, asleep>>

\* A task begins to wait for an owned mutex.
Want(t, m) ==
  /\ owner[m] # None
  /\ want' = [want EXCEPT ![m] = @ \cup {t}]
  /\ UNCHANGED <<owner, asleep>>

\* The owner gives a mutex up: to a task that waits for it, if there is one.
GiveUp(m) ==
  \/ want[m] = {} /\ owner' = [owner EXCEPT ![m] = None] /\ UNCHANGED want
  \/ \E u \in want[m] :
       /\ owner' = [owner EXCEPT ![m] = u]
       /\ want' = [want EXCEPT ![m] = @ \ {u}]

Release(t, m) == owner[m] = t /\ GiveUp(m) /\ UNCHANGED asleep

Sleep(t, c, m) ==
  /\ owner[m] = t
  /\ GiveUp(m)
  /\ asleep' = [asleep EXCEPT ![c] = @ \cup {<<m, t>>}]

\* Some tasks asleep on c are notified and wait for their mutexes.
Rouse(c, S) ==
  /\ S \subseteq asleep[c]
  /\ asleep' = [asleep EXCEPT ![c] = @ \ S]
  /\ want' = [m \in MutexId |-> want[m] \cup {t \in Task : <<m, t>> \in S}]
  /\ UNCHANGED owner

Next ==
  \/ \E t \in Task, m \in MutexId :
       Take(t, m) \/ Want(t, m) \/ Release(t, m) \/ \E c \in CondvarId : Sleep(t, c, m)
  \/ \E c \in CondvarId : \E S \in SUBSET asleep[c] : Rouse(c, S)

Spec == Init /\ [][Next]_vars
=============================================================================
