--------------------------- MODULE PthreadProofs ---------------------------
(***************************************************************************)
(* Proofs about the mutexes and condition variables of simulated programs  *)
(* (src/src/native/pthread.rs on src/src/util/mutex.rs), for every set of  *)
(* threads, mutexes and condition variables: no wake-up is lost; and, if   *)
(* threads signal with the mutex locked, mutual exclusion, the agreement   *)
(* of the words in simulated memory, no failing assertion, and that        *)
(* Monitor is implemented.  The first part is about the methods of Mutex   *)
(* and Condvar in src/src/util/mutex.rs alone: each of its lemmas is about *)
(* a single method, whoever calls it.                                      *)
(***************************************************************************)
EXTENDS Pthread, SequenceTheorems, FiniteSetTheorems, WellFoundedInduction, TLAPS

\* No element comes twice.
Distinct(s) == \A i, j \in 1..Len(s) : s[i] = s[j] => i = j

\* A queued sender belongs to a task that is blocked and that wants the mutex
\* of the queue.
InvQueue ==
  \A m \in MutexId :
    /\ \A t \in Elems(queue[m]) : st[t] = "blocked" /\ goal[t] = m
    /\ Distinct(queue[m])

\* The same of the queues of condition variables.
InvCqueue ==
  \A c \in CondvarId :
    /\ \A w \in Elems(cqueue[c]) : st[w[2]] = "blocked" /\ goal[w[2]] = w[1]
    /\ Distinct(cqueue[c])

\* No task has senders in two queues.
InvApart ==
  /\ \A c, d \in CondvarId : c # d => Elems(cqueue[c]) \cap Elems(cqueue[d]) = {}
  /\ \A c \in CondvarId : \A w \in Elems(cqueue[c]) : w[2] \notin Elems(queue[w[1]])

\* And a blocked task has one somewhere.
InvQueued ==
  \A t \in Task :
    st[t] = "blocked" =>
      \/ t \in Elems(queue[goal[t]])
      \/ \E c \in CondvarId : <<goal[t], t>> \in Elems(cqueue[c])

\* What holds whether or not users notify with the mutex locked.
SenderInv == TypeOK /\ InvQueue /\ InvCqueue /\ InvApart /\ InvQueued

\* Tasks queue up only for locked mutexes.
InvLocked == \A m \in MutexId : queue[m] # <<>> => locked[m]

\* What holds if users notify with the mutex locked.
OwnerInv == MutualExclusion /\ InvLocked

-----------------------------------------------------------------------------
(* Sequences and induction                                                 *)

\* The elements of a sequence are what it is a sequence of.
LEMMA ElemsType ==
  ASSUME NEW S, NEW s \in Seq(S)
  PROVE  Elems(s) \subseteq S
BY DEF Elems

\* push_back.
LEMMA AppendFacts ==
  ASSUME NEW S, NEW s \in Seq(S), NEW e \in S
  PROVE  /\ Append(s, e) \in Seq(S)
         /\ Elems(Append(s, e)) = Elems(s) \cup {e}
         /\ Distinct(s) /\ e \notin Elems(s) => Distinct(Append(s, e))
<1>1. /\ Append(s, e) \in Seq(S) /\ Len(Append(s, e)) = Len(s) + 1 /\ Len(s) \in Nat
      /\ \A i \in 1..Len(s) : Append(s, e)[i] = s[i]
      /\ Append(s, e)[Len(s) + 1] = e
  OBVIOUS
<1>2. 1..Len(s) + 1 = (1..Len(s)) \cup {Len(s) + 1}
  BY <1>1
<1> HIDE <1>1
<1>3. Elems(Append(s, e)) = Elems(s) \cup {e}
  BY <1>1, <1>2 DEF Elems
<1>4. Distinct(s) /\ e \notin Elems(s) => Distinct(Append(s, e))
  BY <1>1, <1>2 DEF Distinct, Elems
<1> QED
  BY <1>1, <1>3, <1>4

\* pop_front.
LEMMA TailFacts ==
  ASSUME NEW S, NEW s \in Seq(S), s # <<>>
  PROVE  /\ Tail(s) \in Seq(S) /\ Head(s) \in S /\ Head(s) = s[1]
         /\ 1 \in 1..Len(s)
         /\ Elems(s) = Elems(Tail(s)) \cup {Head(s)}
         /\ Distinct(s) => Distinct(Tail(s)) /\ Head(s) \notin Elems(Tail(s))
<1>1. /\ Tail(s) \in Seq(S) /\ Len(s) \in Nat \ {0} /\ Len(Tail(s)) = Len(s) - 1
      /\ \A i \in 1..Len(s) - 1 : Tail(s)[i] = s[i + 1]
      /\ Head(s) = s[1] /\ s[1] \in S
  OBVIOUS
<1>2. /\ \A i \in 1..Len(s) - 1 : i + 1 \in 1..Len(s)
      /\ \A i \in 1..Len(s) : i = 1 \/ (i - 1 \in 1..Len(s) - 1 /\ (i - 1) + 1 = i)
      /\ 1 \in 1..Len(s)
  BY <1>1
<1>3. Elems(s) = Elems(Tail(s)) \cup {Head(s)}
  <2>1. Elems(Tail(s)) \subseteq Elems(s)
    BY <1>1, <1>2 DEF Elems
  <2>2. ASSUME NEW i \in 1..Len(s), i # 1
        PROVE  s[i] \in Elems(Tail(s))
    <3>1. i - 1 \in 1..Len(Tail(s)) /\ Tail(s)[i - 1] = s[i]
      BY <1>1, <1>2, <2>2
    <3> QED
      BY <3>1 DEF Elems
  <2>3. s[1] \in Elems(s)
    BY <1>2 DEF Elems
  <2>4. Elems(s) \subseteq Elems(Tail(s)) \cup {s[1]}
    BY <2>2 DEF Elems
  <2> QED
    BY <1>1, <2>1, <2>3, <2>4
<1>4. Distinct(s) => Distinct(Tail(s)) /\ Head(s) \notin Elems(Tail(s))
  BY <1>1, <1>2 DEF Distinct, Elems
<1> QED
  BY <1>1, <1>2, <1>3, <1>4

\* Sequences of no and of one element.
LEMMA ShortFacts ==
  ASSUME NEW S, NEW e \in S
  PROVE  /\ <<>> \in Seq(S) /\ Elems(<<>>) = {} /\ Distinct(<<>>)
         /\ <<e>> \in Seq(S) /\ Elems(<<e>>) = {e} /\ Distinct(<<e>>)
<1>1. /\ <<>> \in Seq(S) /\ Len(<<>>) = 0 /\ <<e>> \in Seq(S) /\ Len(<<e>>) = 1 /\ <<e>>[1] = e
      /\ 1..0 = {} /\ 1..1 = {1}
  OBVIOUS
<1> QED
  BY <1>1 DEF Elems, Distinct

\* An empty sequence is one without elements.
LEMMA EmptyFacts ==
  ASSUME NEW S, NEW s \in Seq(S)
  PROVE  s = <<>> <=> Elems(s) = {}
<1>1. s = <<>> \/ 1 \in 1..Len(s)
  OBVIOUS
<1>2. Len(<<>>) = 0 /\ 1..0 = {}
  OBVIOUS
<1> QED
  BY <1>1, <1>2 DEF Elems

\* A set of numbers has a least one.
LEMMA LeastNat ==
  ASSUME NEW T \in SUBSET Nat, T # {}
  PROVE  \E n \in T : \A k \in T : n <= k
<1> DEFINE R == {p \in Nat \X Nat : p[1] < p[2]}
<1>1. IsWellFoundedOn(R, Nat)
  BY NatLessThanWellFounded DEF OpToRel
<1>2. PICK n \in T : \A k \in T : <<k, n>> \notin R
  <2> HIDE DEF R
  <2> QED
    BY <1>1, WFMin
<1>3. \A k \in T : ~(k < n)
  BY <1>2
<1> QED
  BY <1>3

\* Induction over the naturals, for a property given as a set.
LEMMA NatSetInduction ==
  ASSUME NEW T, 0 \in T, \A n \in Nat : n \in T => n + 1 \in T
  PROVE  Nat \subseteq T
<1> SUFFICES ASSUME Nat \ T # {}
             PROVE  FALSE
  OBVIOUS
<1>1. PICK n \in Nat \ T : \A k \in Nat \ T : n <= k
  BY LeastNat
<1>2. n # 0 /\ n - 1 \in Nat /\ (n - 1) + 1 = n
  BY <1>1
<1>3. n - 1 \in T
  BY <1>1, <1>2
<1> QED
  BY <1>2, <1>3

-----------------------------------------------------------------------------
(* Notification                                                            *)

\* Mutex::notify_impl adds its task to the queue of its mutex, if that is locked.
LEMMA NotifyImplFacts ==
  ASSUME TypeOK, NEW q \in [MutexId -> Seq(Task)], NEW w \in MutexId \X Task
  PROVE  /\ NotifyImpl(q, w) \in [MutexId -> Seq(Task)]
         /\ \A m \in MutexId :
              /\ Elems(NotifyImpl(q, w)[m])
                   = Elems(q[m]) \cup {t \in Task : locked[m] /\ w = <<m, t>>}
              /\ Distinct(q[m]) /\ w[2] \notin Elems(q[w[1]]) => Distinct(NotifyImpl(q, w)[m])
<1>1. PICK k \in MutexId, u \in Task : w = <<k, u>>
  OBVIOUS
<1>2. CASE ~locked[k]
  BY <1>1, <1>2 DEF NotifyImpl
<1>3. CASE locked[k]
  <2>1. /\ NotifyImpl(q, w)[k] = Append(q[k], u)
        /\ \A m \in MutexId : m # k => NotifyImpl(q, w)[m] = q[m]
        /\ q[k] \in Seq(Task) /\ \A m \in MutexId : q[m] \in Seq(Task)
        /\ NotifyImpl(q, w) = [q EXCEPT ![k] = Append(q[k], u)]
    BY <1>1, <1>3 DEF NotifyImpl
  <2>2. /\ Append(q[k], u) \in Seq(Task)
        /\ Elems(Append(q[k], u)) = Elems(q[k]) \cup {u}
        /\ Distinct(q[k]) /\ u \notin Elems(q[k]) => Distinct(Append(q[k], u))
    BY <2>1, AppendFacts
  <2>3. NotifyImpl(q, w) \in [MutexId -> Seq(Task)]
    BY <2>1, <2>2
  <2>4. \A m \in MutexId : {t \in Task : locked[m] /\ w = <<m, t>>} = IF m = k THEN {u} ELSE {}
    BY <1>1, <1>3
  <2>5. \A m \in MutexId :
          Elems(NotifyImpl(q, w)[m]) = Elems(q[m]) \cup (IF m = k THEN {u} ELSE {})
    BY <2>1, <2>2
  <2>6. \A m \in MutexId :
          Distinct(q[m]) /\ w[2] \notin Elems(q[w[1]]) => Distinct(NotifyImpl(q, w)[m])
    BY <1>1, <2>1, <2>2
  <2> QED
    BY <2>3, <2>4, <2>5, <2>6
<1> QED
  BY <1>2, <1>3

\* The steps of Notified: a function of the number of waiters already notified.
LEMMA NotifiedSteps ==
  ASSUME NEW waiters, Len(waiters) \in Nat
  PROVE  \E f : /\ f[0] = queue
                /\ \A i \in 1..Len(waiters) : f[i] = NotifyImpl(f[i - 1], waiters[i])
                /\ Notified(waiters) = f[Len(waiters)]
<1> DEFINE n == Len(waiters)
           Steps(g, k) ==
             g = [i \in 0..k |-> IF i = 0 THEN queue ELSE NotifyImpl(g[i - 1], waiters[i])]
           T == {k \in Nat : \E g : Steps(g, k)}
<1>1. 0 \in T
  <2>1. Steps([i \in 0..0 |-> queue], 0)
    OBVIOUS
  <2> QED
    BY <2>1
<1>2. ASSUME NEW k \in Nat, k \in T
      PROVE  k + 1 \in T
  <2>1. PICK g : Steps(g, k)
    BY <1>2
  <2> DEFINE h == [i \in 0..k + 1 |->
                     IF i <= k THEN g[i] ELSE NotifyImpl(g[k], waiters[k + 1])]
  <2>2. /\ \A i \in 0..k : h[i] = g[i]
        /\ h[k + 1] = NotifyImpl(g[k], waiters[k + 1])
    OBVIOUS
  <2>3. ASSUME NEW i \in 0..k + 1
        PROVE  h[i] = IF i = 0 THEN queue ELSE NotifyImpl(h[i - 1], waiters[i])
    <3>1. \A l \in 0..k : g[l] = IF l = 0 THEN queue ELSE NotifyImpl(g[l - 1], waiters[l])
      BY <2>1
    <3> HIDE DEF h
    <3>2. CASE i = k + 1
      BY <2>2, <3>2
    <3>3. CASE i \in 0..k /\ i # 0
      <4>1. i - 1 \in 0..k
        BY <3>3
      <4> QED
        BY <2>2, <3>1, <3>3, <4>1
    <3>4. CASE i = 0
      BY <2>2, <3>1, <3>4
    <3> QED
      BY <3>2, <3>3, <3>4
  <2>4. h = [i \in 0..k + 1 |-> h[i]]
    OBVIOUS
  <2>5. Steps(h, k + 1)
    <3> HIDE DEF h
    <3> QED
      BY <2>3, <2>4
  <2> HIDE DEF h, Steps
  <2>6. \E e : Steps(e, k + 1)
    BY <2>5
  <2> QED
    BY <2>6
<1>3. \E g : Steps(g, n)
  <2>1. n \in T
    <3> HIDE DEF T
    <3> QED
      BY <1>1, <1>2, NatSetInduction
  <2> QED
    BY <2>1
<1> DEFINE f == CHOOSE g : Steps(g, n)
<1>4. Steps(f, n)
  BY <1>3
<1>5. Notified(waiters) = f[n]
  BY DEF Notified
<1> HIDE DEF f
<1>6. f[0] = queue /\ \A i \in 1..n : f[i] = NotifyImpl(f[i - 1], waiters[i])
  BY <1>4
<1> QED
  BY <1>5, <1>6

\* Notification of a sequence of waiters adds those of locked mutexes to the
\* queues of their mutexes, and nobody twice.
LEMMA NotifiedFacts ==
  ASSUME TypeOK, NEW waiters \in Seq(MutexId \X Task), Distinct(waiters),
         \A m \in MutexId : Distinct(queue[m]),
         \A w \in Elems(waiters) : w[2] \notin Elems(queue[w[1]])
  PROVE  /\ Notified(waiters) \in [MutexId -> Seq(Task)]
         /\ \A m \in MutexId :
              /\ Elems(Notified(waiters)[m])
                   = Elems(queue[m]) \cup {t \in Task : locked[m] /\ <<m, t>> \in Elems(waiters)}
              /\ Distinct(Notified(waiters)[m])
<1>1. Len(waiters) \in Nat /\ \A i \in 1..Len(waiters) : waiters[i] \in MutexId \X Task
  OBVIOUS
<1>2. PICK f : /\ f[0] = queue
               /\ \A i \in 1..Len(waiters) : f[i] = NotifyImpl(f[i - 1], waiters[i])
               /\ Notified(waiters) = f[Len(waiters)]
  BY <1>1, NotifiedSteps
<1> DEFINE Given(i, m) == {t \in Task : locked[m] /\ \E j \in 1..i : waiters[j] = <<m, t>>}
           Good(i) == /\ f[i] \in [MutexId -> Seq(Task)]
                      /\ \A m \in MutexId :
                           /\ Elems(f[i][m]) = Elems(queue[m]) \cup Given(i, m)
                           /\ Distinct(f[i][m])
           T == {i \in Nat : i <= Len(waiters) => Good(i)}
<1>3. 0 \in T
  <2>1. queue \in [MutexId -> Seq(Task)]
    BY DEF TypeOK
  <2>2. \A m \in MutexId : Given(0, m) = {}
    OBVIOUS
  <2> HIDE DEF Given
  <2>3. Good(0)
    BY <1>2, <2>1, <2>2
  <2> QED
    BY <2>3
<1>4. ASSUME NEW i \in Nat, i \in T
      PROVE  i + 1 \in T
  <2> SUFFICES ASSUME i + 1 <= Len(waiters)
               PROVE  Good(i + 1)
    <3> HIDE DEF Good
    <3> QED
      OBVIOUS
  <2>1. Good(i)
    <3> HIDE DEF Good
    <3> QED
      BY <1>1, <1>4
  <2>2. i + 1 \in 1..Len(waiters) /\ (i + 1) - 1 = i
    BY <1>1
  <2>3. PICK k \in MutexId, u \in Task : waiters[i + 1] = <<k, u>>
    BY <1>1, <2>2
  <2>4. <<k, u>> \in MutexId \X Task /\ <<k, u>>[1] = k /\ <<k, u>>[2] = u
    OBVIOUS
  <2>5. f[i + 1] = NotifyImpl(f[i], <<k, u>>)
    BY <1>2, <2>2, <2>3
  <2>6. u \notin Elems(queue[k])
    <3>1. <<k, u>> \in Elems(waiters)
      BY <2>2, <2>3 DEF Elems
    <3> QED
      BY <2>4, <3>1
  <2>7. u \notin Given(i, k)
    <3>1. \A j \in 1..i : j \in 1..Len(waiters) /\ j # i + 1
      BY <1>1, <2>2
    <3> QED
      BY <2>2, <2>3, <3>1 DEF Distinct
  <2>8. \A m \in MutexId : Given(i + 1, m)
          = Given(i, m) \cup {t \in Task : locked[m] /\ <<k, u>> = <<m, t>>}
    <3>1. 1..i + 1 = (1..i) \cup {i + 1}
      OBVIOUS
    <3> QED
      BY <2>3, <3>1
  <2> HIDE DEF Given
  <2>9. f[i] \in [MutexId -> Seq(Task)]
    BY <2>1
  <2>10. u \notin Elems(f[i][k])
    BY <2>1, <2>6, <2>7
  <2>11. /\ NotifyImpl(f[i], <<k, u>>) \in [MutexId -> Seq(Task)]
         /\ \A m \in MutexId :
              /\ Elems(NotifyImpl(f[i], <<k, u>>)[m])
                   = Elems(f[i][m]) \cup {t \in Task : locked[m] /\ <<k, u>> = <<m, t>>}
              /\ Distinct(f[i][m]) /\ <<k, u>>[2] \notin Elems(f[i][<<k, u>>[1]])
                   => Distinct(NotifyImpl(f[i], <<k, u>>)[m])
    BY <2>4, <2>9, NotifyImplFacts
  <2>12. \A m \in MutexId : Distinct(f[i][m]) => Distinct(NotifyImpl(f[i], <<k, u>>)[m])
    BY <2>4, <2>10, <2>11
  <2> QED
    BY <2>1, <2>5, <2>8, <2>11, <2>12
<1>5. Good(Len(waiters))
  <2>1. Len(waiters) \in T
    <3> HIDE DEF T
    <3> QED
      BY <1>1, <1>3, <1>4, NatSetInduction
  <2> HIDE DEF Good
  <2> QED
    BY <1>1, <2>1
<1>6. \A m \in MutexId : Given(Len(waiters), m)
        = {t \in Task : locked[m] /\ <<m, t>> \in Elems(waiters)}
  BY DEF Elems
<1> HIDE DEF Given
<1> QED
  BY <1>2, <1>5, <1>6

-----------------------------------------------------------------------------
(* Senders: no wake-up is lost and none comes twice                        *)

\* Mutex::unlock takes from the queue exactly the task it wakes, if any; then it
\* leaves the mutex locked.
LEMMA HandOffFacts ==
  ASSUME TypeOK, InvQueue, NEW m \in MutexId, HandOff(m)
  PROVE  /\ locked' \in [MutexId -> BOOLEAN] /\ queue' \in [MutexId -> Seq(Task)]
         /\ \A k \in MutexId : k # m => queue'[k] = queue[k] /\ locked'[k] = locked[k]
         /\ Distinct(queue'[m])
         /\ Elems(queue[m]) = Elems(queue'[m]) \cup Dropped(m)
         /\ \/ Dropped(m) = {} /\ ~locked'[m] /\ queue' = queue /\ queue[m] = <<>>
            \/ /\ locked' = locked
               /\ \E h \in Task : Dropped(m) = {h} /\ h \notin Elems(queue'[m])
<1>1. /\ queue \in [MutexId -> Seq(Task)] /\ queue[m] \in Seq(Task)
      /\ locked \in [MutexId -> BOOLEAN] /\ Distinct(queue[m])
  BY DEF TypeOK, InvQueue
<1>2. CASE queue[m] = <<>>
  <2>1. Dropped(m) = {}
    BY <1>2 DEF Dropped
  <2>2. queue' = queue /\ locked' = [locked EXCEPT ![m] = FALSE]
    BY <1>2 DEF HandOff
  <2> QED
    BY <1>1, <1>2, <2>1, <2>2
<1>3. CASE queue[m] # <<>>
  <2>1. /\ Tail(queue[m]) \in Seq(Task) /\ Head(queue[m]) \in Task
        /\ Head(queue[m]) = queue[m][1] /\ 1 \in 1..Len(queue[m])
        /\ Elems(queue[m]) = Elems(Tail(queue[m])) \cup {Head(queue[m])}
        /\ Distinct(Tail(queue[m])) /\ Head(queue[m]) \notin Elems(Tail(queue[m]))
    BY <1>1, <1>3, TailFacts
  <2>2. Dropped(m) = {Head(queue[m])}
    <3>1. {1} \cap 1..Len(queue[m]) = {1}
      BY <2>1
    <3> QED
      BY <2>1, <3>1 DEF Dropped
  <2>3. queue' = [queue EXCEPT ![m] = Tail(queue[m])] /\ locked' = locked
    BY <1>3 DEF HandOff
  <2>4. queue'[m] = Tail(queue[m]) /\ queue' \in [MutexId -> Seq(Task)]
        /\ \A k \in MutexId : k # m => queue'[k] = queue[k]
    BY <1>1, <2>1, <2>3
  <2> QED
    BY <1>1, <2>1, <2>2, <2>3, <2>4
<1> QED
  BY <1>2, <1>3

\* Initially every queue is empty and every task runs.
LEMMA SenderInit == Init => SenderInv
<1> SUFFICES ASSUME Init
             PROVE  SenderInv
  OBVIOUS
<1>1. /\ Elems(<<>>) = {} /\ Distinct(<<>>)
      /\ \A S : <<>> \in Seq(S)
  BY DEF Elems, Distinct
<1>2. TypeOK
  BY <1>1 DEF Init, TypeOK
<1> QED
  BY <1>1, <1>2 DEF Init, SenderInv, InvQueue, InvCqueue, InvApart, InvQueued

\* The types of the queues and of what is in them.
LEMMA QueueTypes ==
  ASSUME TypeOK
  PROVE  /\ \A m \in MutexId : queue[m] \in Seq(Task) /\ Elems(queue[m]) \subseteq Task
         /\ \A c \in CondvarId :
              /\ cqueue[c] \in Seq(MutexId \X Task)
              /\ \A w \in Elems(cqueue[c]) :
                   w \in MutexId \X Task /\ w[1] \in MutexId /\ w[2] \in Task /\ w = <<w[1], w[2]>>
<1>1. /\ \A m \in MutexId : queue[m] \in Seq(Task)
      /\ \A c \in CondvarId : cqueue[c] \in Seq(MutexId \X Task)
  BY DEF TypeOK
<1>2. \A c \in CondvarId : Elems(cqueue[c]) \subseteq MutexId \X Task
  BY <1>1, ElemsType
<1> QED
  BY <1>1, <1>2, ElemsType

\* A task that runs has no sender anywhere.
LEMMA RunningFacts ==
  ASSUME SenderInv, NEW t \in Task, st[t] # "blocked"
  PROVE  /\ \A m \in MutexId : t \notin Elems(queue[m])
         /\ \A c \in CondvarId : \A w \in Elems(cqueue[c]) : w[2] # t
BY DEF SenderInv, InvQueue, InvCqueue

\* try_lock touches no queue.
LEMMA TryLockSenders ==
  ASSUME SenderInv, NEW t \in Task, NEW m \in MutexId, TryLock(t, m)
  PROVE  SenderInv'
<1>1. TypeOK'
  BY DEF SenderInv, TypeOK, TryLock
<1> QED
  BY <1>1 DEF SenderInv, InvQueue, InvCqueue, InvApart, InvQueued, TryLock

\* lock puts the caller, which was in no queue, at the end of one.
LEMMA LockWaitSenders ==
  ASSUME SenderInv, NEW t \in Task, NEW m \in MutexId, LockWait(t, m)
  PROVE  SenderInv'
<1>1. /\ TypeOK /\ queue[m] \in Seq(Task) /\ st[t] = "run"
  BY DEF SenderInv, TypeOK, LockWait, Running
<1>2. /\ \A k \in MutexId : t \notin Elems(queue[k])
      /\ \A c \in CondvarId : \A w \in Elems(cqueue[c]) : w[2] # t
  BY <1>1, RunningFacts
<1>3. /\ queue'[m] = Append(queue[m], t) /\ \A k \in MutexId : k # m => queue'[k] = queue[k]
      /\ st' = [st EXCEPT ![t] = "blocked"] /\ goal' = [goal EXCEPT ![t] = m]
      /\ cqueue' = cqueue
  BY <1>1 DEF TypeOK, LockWait
<1>4. /\ Append(queue[m], t) \in Seq(Task)
      /\ Elems(Append(queue[m], t)) = Elems(queue[m]) \cup {t}
      /\ Distinct(queue[m]) => Distinct(Append(queue[m], t))
  BY <1>1, <1>2, AppendFacts
<1>5. TypeOK'
  BY <1>1, <1>4, AsyncMutexAssumption DEF TypeOK, LockWait
<1>6. st'[t] = "blocked" /\ goal'[t] = m /\ \A u \in Task : u # t => st'[u] = st[u] /\ goal'[u] = goal[u]
  BY <1>1, <1>3 DEF TypeOK
<1>7. /\ \A k \in MutexId : Elems(queue[k]) \subseteq Task
      /\ \A c \in CondvarId : \A w \in Elems(cqueue[c]) : w[1] \in MutexId /\ w[2] \in Task
  BY <1>1, QueueTypes
<1>8. InvQueue'
  <2> SUFFICES ASSUME NEW k \in MutexId
               PROVE  /\ \A u \in Elems(queue'[k]) : st'[u] = "blocked" /\ goal'[u] = k
                      /\ Distinct(queue'[k])
    BY DEF InvQueue
  <2>1. /\ \A u \in Elems(queue[k]) : st[u] = "blocked" /\ goal[u] = k
        /\ Distinct(queue[k])
    BY DEF SenderInv, InvQueue
  <2>2. CASE k = m
    BY <1>3, <1>4, <1>6, <1>7, <2>1, <2>2
  <2>3. CASE k # m
    BY <1>2, <1>3, <1>6, <1>7, <2>1, <2>3
  <2> QED
    BY <2>2, <2>3
<1>9. InvCqueue'
  BY <1>2, <1>3, <1>6, <1>7 DEF SenderInv, InvCqueue
<1>10. InvApart'
  BY <1>2, <1>3, <1>4, <1>7 DEF SenderInv, InvApart
<1>11. InvQueued'
  BY <1>1, <1>3, <1>4, <1>6 DEF SenderInv, InvQueued, TypeOK
<1> QED
  BY <1>5, <1>8, <1>9, <1>10, <1>11 DEF SenderInv

\* unlock takes the task it wakes out of the queue.
LEMMA UnlockSenders ==
  ASSUME SenderInv, NEW t \in Task, NEW m \in MutexId, Unlock(t, m)
  PROVE  SenderInv'
<1>1. TypeOK /\ InvQueue /\ st[t] = "run" /\ goal[t] = None
  BY DEF SenderInv, TypeOK, Unlock, Running
<1>2. /\ locked' \in [MutexId -> BOOLEAN] /\ queue' \in [MutexId -> Seq(Task)]
      /\ \A k \in MutexId : k # m => queue'[k] = queue[k]
      /\ Distinct(queue'[m])
      /\ Elems(queue[m]) = Elems(queue'[m]) \cup Dropped(m)
      /\ Dropped(m) \cap Elems(queue'[m]) = {}
  BY <1>1, HandOffFacts DEF Unlock, Elems
<1>3. \A u \in Dropped(m) : u \in Elems(queue[m]) /\ st[u] = "blocked" /\ goal[u] = m
  BY <1>1, <1>2 DEF InvQueue
<1>4. cqueue' = cqueue /\ goal' = goal /\ st' = Wake(Dropped(m))
  BY DEF Unlock
<1>5. \A u \in Task : st'[u] = IF u \in Dropped(m) THEN "woken" ELSE st[u]
  BY <1>4 DEF Wake
<1>6. /\ \A k \in MutexId : Elems(queue[k]) \subseteq Task
      /\ \A c \in CondvarId : \A w \in Elems(cqueue[c]) : w[1] \in MutexId /\ w[2] \in Task
  BY <1>1, QueueTypes
<1>7. TypeOK'
  <2>1. st' \in [Task -> {"run", "blocked", "woken"}]
    BY <1>1, <1>4 DEF TypeOK, Wake
  <2>2. \A u \in Task : st'[u] = "run" <=> goal'[u] = None
    BY <1>1, <1>3, <1>4, <1>5, AsyncMutexAssumption DEF TypeOK
  <2>3. UNCHANGED <<cqueue, goal, panicked>> /\ holds' \in [Task -> SUBSET MutexId]
    BY <1>1 DEF Unlock, TypeOK
  <2> QED
    BY <1>1, <1>2, <2>1, <2>2, <2>3 DEF TypeOK
<1>8. InvQueue'
  <2> SUFFICES ASSUME NEW k \in MutexId
               PROVE  /\ \A u \in Elems(queue'[k]) : st'[u] = "blocked" /\ goal'[u] = k
                      /\ Distinct(queue'[k])
    BY DEF InvQueue
  <2>1. /\ \A u \in Elems(queue[k]) : st[u] = "blocked" /\ goal[u] = k
        /\ Distinct(queue[k])
    BY <1>1 DEF InvQueue
  <2>2. CASE k = m
    BY <1>2, <1>4, <1>5, <1>6, <2>1, <2>2
  <2>3. CASE k # m
    BY <1>2, <1>3, <1>4, <1>5, <1>6, <2>1, <2>3
  <2> QED
    BY <2>2, <2>3
<1>9. InvCqueue'
  <2> SUFFICES ASSUME NEW c \in CondvarId, NEW w \in Elems(cqueue[c])
               PROVE  st'[w[2]] = "blocked"
    BY <1>4 DEF SenderInv, InvCqueue
  <2>1. /\ st[w[2]] = "blocked" /\ goal[w[2]] = w[1] /\ w[2] \in Task
        /\ w[2] \notin Elems(queue[w[1]])
    BY <1>6 DEF SenderInv, InvCqueue, InvApart
  <2>2. w[2] \notin Dropped(m)
    BY <1>3, <2>1
  <2> QED
    BY <1>5, <2>1, <2>2
<1>10. InvApart'
  BY <1>2, <1>4, <1>6 DEF SenderInv, InvApart
<1>11. InvQueued'
  <2> SUFFICES ASSUME NEW u \in Task, st'[u] = "blocked"
               PROVE  \/ u \in Elems(queue'[goal[u]])
                      \/ \E c \in CondvarId : <<goal[u], u>> \in Elems(cqueue[c])
    BY <1>4 DEF InvQueued
  <2>1. u \notin Dropped(m) /\ st[u] = "blocked" /\ goal[u] \in MutexId
    BY <1>1, <1>5 DEF TypeOK
  <2>2. \/ u \in Elems(queue[goal[u]])
        \/ \E c \in CondvarId : <<goal[u], u>> \in Elems(cqueue[c])
    BY <2>1 DEF SenderInv, InvQueued
  <2>3. u \in Elems(queue[goal[u]]) => u \in Elems(queue'[goal[u]])
    BY <1>2, <2>1
  <2> QED
    BY <2>2, <2>3
<1> QED
  BY <1>7, <1>8, <1>9, <1>10, <1>11 DEF SenderInv

\* Condvar::wait is Mutex::unlock and then the new sender.
LEMMA WaitSenders ==
  ASSUME SenderInv, NEW t \in Task, NEW c \in CondvarId, NEW m \in MutexId, Wait(t, c, m)
  PROVE  SenderInv'
<1>1. TypeOK /\ InvQueue /\ st[t] = "run" /\ goal[t] = None
  BY DEF SenderInv, TypeOK, Wait, Running
<1>2. /\ locked' \in [MutexId -> BOOLEAN] /\ queue' \in [MutexId -> Seq(Task)]
      /\ \A k \in MutexId : k # m => queue'[k] = queue[k]
      /\ Distinct(queue'[m])
      /\ Elems(queue[m]) = Elems(queue'[m]) \cup Dropped(m)
      /\ Dropped(m) \cap Elems(queue'[m]) = {}
  BY <1>1, HandOffFacts DEF Wait, Elems
<1>3. \A u \in Dropped(m) : u \in Elems(queue[m]) /\ st[u] = "blocked" /\ goal[u] = m
  BY <1>1, <1>2 DEF InvQueue
<1>4. /\ \A k \in MutexId : t \notin Elems(queue[k])
      /\ \A d \in CondvarId : \A w \in Elems(cqueue[d]) : w[2] # t
  BY <1>1, RunningFacts
<1>5. /\ \A k \in MutexId : Elems(queue[k]) \subseteq Task
      /\ \A d \in CondvarId : \A w \in Elems(cqueue[d]) : w[1] \in MutexId /\ w[2] \in Task
      /\ cqueue[c] \in Seq(MutexId \X Task)
  BY <1>1, QueueTypes
<1>6. /\ st' = [Wake(Dropped(m)) EXCEPT ![t] = "blocked"] /\ goal' = [goal EXCEPT ![t] = m]
      /\ cqueue' = [cqueue EXCEPT ![c] = Append(cqueue[c], <<m, t>>)]
  BY DEF Wait
<1>7. /\ st'[t] = "blocked" /\ goal'[t] = m
      /\ \A u \in Task : u # t => /\ st'[u] = IF u \in Dropped(m) THEN "woken" ELSE st[u]
                                 /\ goal'[u] = goal[u]
  BY <1>1, <1>6 DEF Wake, TypeOK
<1>8. /\ Append(cqueue[c], <<m, t>>) \in Seq(MutexId \X Task)
      /\ Elems(Append(cqueue[c], <<m, t>>)) = Elems(cqueue[c]) \cup {<<m, t>>}
      /\ Distinct(cqueue[c]) => Distinct(Append(cqueue[c], <<m, t>>))
  <2>1. <<m, t>> \notin Elems(cqueue[c]) /\ <<m, t>> \in MutexId \X Task
    BY <1>4
  <2> QED
    BY <1>5, <2>1, AppendFacts
<1>9. /\ cqueue'[c] = Append(cqueue[c], <<m, t>>)
      /\ \A d \in CondvarId : d # c => cqueue'[d] = cqueue[d]
  BY <1>1, <1>6 DEF TypeOK
<1>10. TypeOK'
  <2>1. st' \in [Task -> {"run", "blocked", "woken"}] /\ goal' \in [Task -> MutexId \cup {None}]
    BY <1>1, <1>6 DEF TypeOK, Wake
  <2>2. \A u \in Task : st'[u] = "run" <=> goal'[u] = None
    BY <1>1, <1>3, <1>7, AsyncMutexAssumption DEF TypeOK
  <2>3. UNCHANGED panicked /\ holds' \in [Task -> SUBSET MutexId]
    BY <1>1 DEF Wait, TypeOK
  <2>4. cqueue' \in [CondvarId -> Seq(MutexId \X Task)]
    BY <1>1, <1>6, <1>8 DEF TypeOK
  <2> QED
    BY <1>1, <1>2, <2>1, <2>2, <2>3, <2>4 DEF TypeOK
<1>11. InvQueue'
  <2> SUFFICES ASSUME NEW k \in MutexId
               PROVE  /\ \A u \in Elems(queue'[k]) : st'[u] = "blocked" /\ goal'[u] = k
                      /\ Distinct(queue'[k])
    BY DEF InvQueue
  <2>1. /\ \A u \in Elems(queue[k]) : st[u] = "blocked" /\ goal[u] = k /\ u # t /\ u \in Task
        /\ Distinct(queue[k])
    BY <1>1, <1>4, <1>5 DEF InvQueue
  <2>2. CASE k = m
    BY <1>2, <1>7, <2>1, <2>2
  <2>3. CASE k # m
    BY <1>2, <1>3, <1>7, <2>1, <2>3
  <2> QED
    BY <2>2, <2>3
<1>12. InvCqueue'
  <2>1. ASSUME NEW d \in CondvarId, NEW w \in Elems(cqueue[d])
        PROVE  st'[w[2]] = "blocked" /\ goal'[w[2]] = w[1]
    <3>1. /\ st[w[2]] = "blocked" /\ goal[w[2]] = w[1] /\ w[2] \in Task
          /\ w[2] \notin Elems(queue[w[1]])
      BY <1>5 DEF SenderInv, InvCqueue, InvApart
    <3>2. w[2] \notin Dropped(m) /\ w[2] # t
      BY <1>3, <1>4, <3>1
    <3> QED
      BY <1>7, <3>1, <3>2
  <2>2. st'[<<m, t>>[2]] = "blocked" /\ goal'[<<m, t>>[2]] = <<m, t>>[1]
    BY <1>7
  <2>3. ASSUME NEW d \in CondvarId
        PROVE  /\ \A w \in Elems(cqueue'[d]) : st'[w[2]] = "blocked" /\ goal'[w[2]] = w[1]
               /\ Distinct(cqueue'[d])
    <3>1. Distinct(cqueue[d])
      BY DEF SenderInv, InvCqueue
    <3>2. CASE d = c
      BY <1>8, <1>9, <2>1, <2>2, <3>1, <3>2
    <3>3. CASE d # c
      BY <1>9, <2>1, <3>1, <3>3
    <3> QED
      BY <3>2, <3>3
  <2> QED
    BY <2>3 DEF InvCqueue
<1>13. InvApart'
  <2>1. ASSUME NEW d \in CondvarId
        PROVE  Elems(cqueue'[d]) = Elems(cqueue[d]) \cup (IF d = c THEN {<<m, t>>} ELSE {})
    BY <1>8, <1>9
  <2>2. \A d \in CondvarId : <<m, t>> \notin Elems(cqueue[d])
    BY <1>4
  <2>3. \A d, e \in CondvarId : d # e => Elems(cqueue'[d]) \cap Elems(cqueue'[e]) = {}
    BY <2>1, <2>2 DEF SenderInv, InvApart
  <2>4. \A k \in MutexId : Elems(queue'[k]) \subseteq Elems(queue[k])
    BY <1>2
  <2>5. \A d \in CondvarId : \A w \in Elems(cqueue[d]) : w[2] \notin Elems(queue'[w[1]])
    BY <1>5, <2>4 DEF SenderInv, InvApart
  <2>6. <<m, t>>[2] \notin Elems(queue'[<<m, t>>[1]])
    BY <1>4, <2>4
  <2> QED
    BY <2>1, <2>3, <2>5, <2>6 DEF InvApart
<1>14. InvQueued'
  <2> SUFFICES ASSUME NEW u \in Task, st'[u] = "blocked"
               PROVE  \/ u \in Elems(queue'[goal'[u]])
                      \/ \E d \in CondvarId : <<goal'[u], u>> \in Elems(cqueue'[d])
    BY DEF InvQueued
  <2>1. CASE u = t
    BY <1>7, <1>8, <1>9, <2>1
  <2>2. CASE u # t
    <3>1. u \notin Dropped(m) /\ st[u] = "blocked" /\ goal[u] \in MutexId /\ goal'[u] = goal[u]
      BY <1>1, <1>7, <2>2 DEF TypeOK
    <3>2. \/ u \in Elems(queue[goal[u]])
          \/ \E d \in CondvarId : <<goal[u], u>> \in Elems(cqueue[d])
      BY <3>1 DEF SenderInv, InvQueued
    <3>3. u \in Elems(queue[goal[u]]) => u \in Elems(queue'[goal[u]])
      BY <1>2, <3>1
    <3>4. \A d \in CondvarId : Elems(cqueue[d]) \subseteq Elems(cqueue'[d])
      BY <1>8, <1>9
    <3> QED
      BY <3>1, <3>2, <3>3, <3>4
  <2> QED
    BY <2>1, <2>2
<1> QED
  BY <1>10, <1>11, <1>12, <1>13, <1>14 DEF SenderInv

\* What Notify and NotifyAll have in common: the waiters leave the queue of c for
\* the queues of their mutexes or wake up, the rest stays.
Rouses(c, waiters, rest) ==
  /\ waiters \in Seq(MutexId \X Task) /\ rest \in Seq(MutexId \X Task)
  /\ Distinct(waiters) /\ Distinct(rest)
  /\ Elems(cqueue[c]) = Elems(waiters) \cup Elems(rest)
  /\ Elems(waiters) \cap Elems(rest) = {}
  /\ NotifyEach(waiters)
  /\ cqueue' = [cqueue EXCEPT ![c] = rest]
  /\ UNCHANGED <<locked, goal, holds, panicked>>

\* notify takes the first waiter from the condition variable.
LEMMA NotifyRouses ==
  ASSUME SenderInv, NEW t \in Task, NEW c \in CondvarId, Notify(t, c)
  PROVE  Rouses(c, <<Head(cqueue[c])>>, Tail(cqueue[c]))
<1>1. cqueue[c] \in Seq(MutexId \X Task) /\ cqueue[c] # <<>> /\ Distinct(cqueue[c])
  BY QueueTypes DEF SenderInv, InvCqueue, Notify
<1>2. /\ Tail(cqueue[c]) \in Seq(MutexId \X Task) /\ Head(cqueue[c]) \in MutexId \X Task
      /\ Elems(cqueue[c]) = Elems(Tail(cqueue[c])) \cup {Head(cqueue[c])}
      /\ Distinct(Tail(cqueue[c])) /\ Head(cqueue[c]) \notin Elems(Tail(cqueue[c]))
  BY <1>1, TailFacts
<1>3. /\ <<Head(cqueue[c])>> \in Seq(MutexId \X Task) /\ Distinct(<<Head(cqueue[c])>>)
      /\ Elems(<<Head(cqueue[c])>>) = {Head(cqueue[c])}
  BY <1>2, ShortFacts
<1> QED
  BY <1>2, <1>3 DEF Notify, Rouses

\* notify_all takes all waiters from the condition variable.
LEMMA NotifyAllRouses ==
  ASSUME SenderInv, NEW t \in Task, NEW c \in CondvarId, NotifyAll(t, c)
  PROVE  Rouses(c, cqueue[c], <<>>)
<1>1. cqueue[c] \in Seq(MutexId \X Task) /\ Distinct(cqueue[c])
  BY QueueTypes DEF SenderInv, InvCqueue
<1>2. <<>> \in Seq(MutexId \X Task) /\ Elems(<<>>) = {} /\ Distinct(<<>>)
  BY DEF Elems, Distinct
<1> QED
  BY <1>1, <1>2 DEF NotifyAll, Rouses

\* What a notification does to the queues, the waiters and the other tasks.
LEMMA RousesFacts ==
  ASSUME SenderInv, NEW c \in CondvarId, NEW waiters, NEW rest, Rouses(c, waiters, rest)
  PROVE  /\ queue' \in [MutexId -> Seq(Task)]
         /\ \A m \in MutexId :
              /\ Elems(queue'[m])
                   = Elems(queue[m]) \cup {u \in Task : locked[m] /\ <<m, u>> \in Elems(waiters)}
              /\ Distinct(queue'[m])
         /\ \A w \in Elems(waiters) :
              w[1] \in MutexId /\ w[2] \in Task /\ st[w[2]] = "blocked" /\ goal[w[2]] = w[1]
         /\ \A u \in Task :
              st'[u] = IF \E w \in Elems(waiters) : w[2] = u /\ ~locked[w[1]]
                       THEN "woken" ELSE st[u]
         /\ cqueue'[c] = rest /\ \A d \in CondvarId : d # c => cqueue'[d] = cqueue[d]
<1>1. /\ TypeOK /\ waiters \in Seq(MutexId \X Task) /\ Distinct(waiters)
      /\ Elems(waiters) \subseteq Elems(cqueue[c])
      /\ \A m \in MutexId : Distinct(queue[m])
  BY DEF SenderInv, InvQueue, Rouses
<1>2. \A w \in Elems(waiters) : w[2] \notin Elems(queue[w[1]])
  BY <1>1 DEF SenderInv, InvApart
<1>3. \A w \in Elems(waiters) :
        w[1] \in MutexId /\ w[2] \in Task /\ st[w[2]] = "blocked" /\ goal[w[2]] = w[1]
  BY <1>1, QueueTypes DEF SenderInv, InvCqueue
<1>4. queue' = Notified(waiters)
  BY DEF Rouses, NotifyEach
<1>5. \A u \in Task :
        st'[u] = IF \E w \in Elems(waiters) : w[2] = u /\ ~locked[w[1]] THEN "woken" ELSE st[u]
  <2>1. st' = Wake({w[2] : w \in {v \in Elems(waiters) : ~locked[v[1]]}})
    BY DEF Rouses, NotifyEach
  <2> QED
    BY <2>1 DEF Wake
<1>6. cqueue'[c] = rest /\ \A d \in CondvarId : d # c => cqueue'[d] = cqueue[d]
  BY <1>1 DEF Rouses, TypeOK
<1>7. /\ Notified(waiters) \in [MutexId -> Seq(Task)]
      /\ \A m \in MutexId :
           /\ Elems(Notified(waiters)[m])
                = Elems(queue[m]) \cup {u \in Task : locked[m] /\ <<m, u>> \in Elems(waiters)}
           /\ Distinct(Notified(waiters)[m])
  BY <1>1, <1>2, NotifiedFacts
<1> QED
  BY <1>3, <1>4, <1>5, <1>6, <1>7

\* A notified task moves to the queue of its mutex or is woken: it is never in
\* two queues and never asleep in none.
LEMMA RousesSenders ==
  ASSUME SenderInv, NEW c \in CondvarId, NEW waiters, NEW rest, Rouses(c, waiters, rest)
  PROVE  SenderInv'
<1>1. TypeOK /\ goal' = goal
  BY DEF SenderInv, Rouses
<1>2. /\ queue' \in [MutexId -> Seq(Task)]
      /\ \A m \in MutexId :
           /\ Elems(queue'[m])
                = Elems(queue[m]) \cup {u \in Task : locked[m] /\ <<m, u>> \in Elems(waiters)}
           /\ Distinct(queue'[m])
      /\ \A w \in Elems(waiters) :
           w[1] \in MutexId /\ w[2] \in Task /\ st[w[2]] = "blocked" /\ goal[w[2]] = w[1]
      /\ \A u \in Task :
           st'[u] = IF \E w \in Elems(waiters) : w[2] = u /\ ~locked[w[1]]
                    THEN "woken" ELSE st[u]
      /\ cqueue'[c] = rest /\ \A d \in CondvarId : d # c => cqueue'[d] = cqueue[d]
  BY RousesFacts
<1>3. /\ Elems(cqueue[c]) = Elems(waiters) \cup Elems(rest)
      /\ Elems(waiters) \cap Elems(rest) = {} /\ Distinct(rest)
      /\ Elems(cqueue'[c]) = Elems(rest)
      /\ \A d \in CondvarId : Elems(cqueue'[d]) \subseteq Elems(cqueue[d])
  BY <1>2 DEF Rouses
<1>4. /\ \A k \in MutexId : Elems(queue[k]) \subseteq Task
      /\ \A d \in CondvarId : \A w \in Elems(cqueue[d]) :
           w[1] \in MutexId /\ w[2] \in Task /\ w = <<w[1], w[2]>>
  BY <1>1, QueueTypes
<1>5. \A d \in CondvarId : \A w \in Elems(cqueue'[d]) : w \notin Elems(waiters)
  BY <1>2, <1>3 DEF SenderInv, InvApart
<1>6. TypeOK'
  <2>1. st' \in [Task -> {"run", "blocked", "woken"}]
    BY <1>1 DEF Rouses, NotifyEach, Wake, TypeOK
  <2>2. \A u \in Task : st'[u] = "run" <=> goal'[u] = None
    BY <1>1, <1>2, AsyncMutexAssumption DEF TypeOK
  <2>3. cqueue' \in [CondvarId -> Seq(MutexId \X Task)]
    BY <1>1 DEF Rouses, TypeOK
  <2> QED
    BY <1>1, <1>2, <2>1, <2>2, <2>3 DEF Rouses, TypeOK
<1>7. InvQueue'
  <2> SUFFICES ASSUME NEW m \in MutexId, NEW u \in Elems(queue'[m])
               PROVE  st'[u] = "blocked" /\ goal[u] = m
    BY <1>1, <1>2 DEF InvQueue
  <2>1. u \in Task /\ st[u] = "blocked" /\ goal[u] = m
    <3>1. CASE u \in Elems(queue[m])
      BY <1>4, <3>1 DEF SenderInv, InvQueue
    <3>2. CASE u \in Task /\ locked[m] /\ <<m, u>> \in Elems(waiters)
      BY <1>2, <3>2
    <3> QED
      BY <1>2, <3>1, <3>2
  <2>2. ASSUME NEW w \in Elems(waiters), w[2] = u, ~locked[w[1]]
        PROVE  FALSE
    <3>1. w[1] = m /\ w = <<m, u>>
      BY <1>2, <1>3, <1>4, <2>1, <2>2
    <3>2. u \in Elems(queue[m])
      BY <1>2, <2>2, <3>1
    <3> QED
      BY <1>3, <2>2, <3>1, <3>2 DEF SenderInv, InvApart
  <2> QED
    BY <1>2, <2>1, <2>2
<1>8. InvCqueue'
  <2> SUFFICES ASSUME NEW d \in CondvarId, NEW w \in Elems(cqueue'[d])
               PROVE  st'[w[2]] = "blocked" /\ goal[w[2]] = w[1]
    <3>1. \A d \in CondvarId : Distinct(cqueue'[d])
      BY <1>2, <1>3 DEF SenderInv, InvCqueue
    <3> QED
      BY <1>1, <3>1 DEF InvCqueue
  <2>1. w \in Elems(cqueue[d]) /\ w[2] \in Task /\ st[w[2]] = "blocked" /\ goal[w[2]] = w[1]
    BY <1>3, <1>4 DEF SenderInv, InvCqueue
  <2>2. ASSUME NEW v \in Elems(waiters), v[2] = w[2]
        PROVE  FALSE
    <3>1. v[1] = w[1]
      BY <1>2, <2>1, <2>2
    <3>2. v = w
      BY <1>3, <1>4, <2>1, <2>2, <3>1
    <3> QED
      BY <1>5, <3>2
  <2> QED
    BY <1>2, <2>1, <2>2
<1>9. InvApart'
  <2>1. \A d, e \in CondvarId : d # e => Elems(cqueue'[d]) \cap Elems(cqueue'[e]) = {}
    BY <1>3 DEF SenderInv, InvApart
  <2>2. ASSUME NEW d \in CondvarId, NEW w \in Elems(cqueue'[d])
        PROVE  w[2] \notin Elems(queue'[w[1]])
    <3>1. w \in Elems(cqueue[d]) /\ w[1] \in MutexId /\ w = <<w[1], w[2]>>
      BY <1>3, <1>4
    <3>2. w[2] \notin Elems(queue[w[1]])
      BY <3>1 DEF SenderInv, InvApart
    <3> QED
      BY <1>2, <1>5, <3>1, <3>2
  <2> QED
    BY <2>1, <2>2 DEF InvApart
<1>10. InvQueued'
  <2> SUFFICES ASSUME NEW u \in Task, st'[u] = "blocked"
               PROVE  \/ u \in Elems(queue'[goal[u]])
                      \/ \E d \in CondvarId : <<goal[u], u>> \in Elems(cqueue'[d])
    BY <1>1 DEF InvQueued
  <2>1. st[u] = "blocked" /\ goal[u] \in MutexId
    BY <1>1, <1>2 DEF TypeOK
  <2>2. CASE u \in Elems(queue[goal[u]])
    BY <1>2, <2>1, <2>2
  <2>3. CASE <<goal[u], u>> \in Elems(waiters)
    <3>1. locked[goal[u]]
      BY <1>2, <2>3
    <3> QED
      BY <1>2, <2>1, <2>3, <3>1
  <2>4. ASSUME NEW d \in CondvarId, <<goal[u], u>> \in Elems(cqueue[d]),
               <<goal[u], u>> \notin Elems(waiters)
        PROVE  <<goal[u], u>> \in Elems(cqueue'[d])
    BY <1>2, <1>3, <2>4
  <2> QED
    BY <2>1, <2>2, <2>3, <2>4 DEF SenderInv, InvQueued
<1> QED
  BY <1>6, <1>7, <1>8, <1>9, <1>10 DEF SenderInv

\* A woken task is in no queue, so running on leaves the queues as they are.
LEMMA ResumeSenders ==
  ASSUME SenderInv, NEW t \in Task, Resume(t)
  PROVE  SenderInv'
<1>1. TypeOK /\ st[t] = "woken" /\ goal[t] \in MutexId
  BY DEF SenderInv, TypeOK, Resume
<1>2. /\ \A k \in MutexId : t \notin Elems(queue[k])
      /\ \A c \in CondvarId : \A w \in Elems(cqueue[c]) : w[2] # t
  BY <1>1, RunningFacts
<1>3. /\ \A k \in MutexId : Elems(queue[k]) \subseteq Task
      /\ \A d \in CondvarId : \A w \in Elems(cqueue[d]) : w[2] \in Task
  BY <1>1, QueueTypes
<1>4. /\ st'[t] = "run" /\ \A u \in Task : u # t => st'[u] = st[u] /\ goal'[u] = goal[u]
      /\ queue' = queue /\ cqueue' = cqueue
  BY <1>1 DEF Resume, TypeOK
<1>5. TypeOK'
  BY <1>1 DEF TypeOK, Resume
<1>6. InvQueue'
  BY <1>2, <1>3, <1>4 DEF SenderInv, InvQueue
<1>7. InvCqueue'
  BY <1>2, <1>3, <1>4 DEF SenderInv, InvCqueue
<1>8. InvApart' /\ InvQueued'
  BY <1>4 DEF SenderInv, InvApart, InvQueued
<1> QED
  BY <1>5, <1>6, <1>7, <1>8 DEF SenderInv

\* A failed assertion leaves the queues as they are.
LEMMA UnlockPanicSenders ==
  ASSUME SenderInv, NEW t \in Task, NEW m \in MutexId, UnlockPanic(t, m)
  PROVE  SenderInv'
BY DEF UnlockPanic, SenderInv, TypeOK, InvQueue, InvCqueue, InvApart, InvQueued

\* A queue is not longer than there are tasks.
LEMMA QueueLengths ==
  ASSUME SenderInv, IsFiniteSet(Task)
  PROVE  /\ Cardinality(Task) \in Nat
         /\ \A m \in MutexId : Len(queue[m]) <= Cardinality(Task)
         /\ \A c \in CondvarId : Len(cqueue[c]) <= Cardinality(Task)
<1>1. Cardinality(Task) \in Nat
  BY FS_CardinalityType
<1>2. ASSUME NEW f, NEW n \in Nat, f \in [1..n -> Task],
             \A i, j \in 1..n : f[i] = f[j] => i = j
      PROVE  n <= Cardinality(Task)
  <2>1. f \in Injection(1..n, Task)
    BY <1>2 DEF Injection, IsInjective
  <2>2. Cardinality(1..n) = n
    BY FS_Interval
  <2> QED
    BY <2>1, <2>2, FS_Injection
<1>3. ASSUME NEW m \in MutexId
      PROVE  Len(queue[m]) <= Cardinality(Task)
  <2>1. queue[m] \in Seq(Task) /\ Distinct(queue[m])
    BY QueueTypes DEF SenderInv, InvQueue
  <2>2. Len(queue[m]) \in Nat /\ queue[m] \in [1..Len(queue[m]) -> Task]
    BY <2>1
  <2> QED
    BY <1>2, <2>1, <2>2 DEF Distinct
<1>4. ASSUME NEW c \in CondvarId
      PROVE  Len(cqueue[c]) <= Cardinality(Task)
  <2> DEFINE n == Len(cqueue[c])
             f == [i \in 1..n |-> cqueue[c][i][2]]
  <2>1. /\ cqueue[c] \in Seq(MutexId \X Task) /\ Distinct(cqueue[c])
        /\ \A w \in Elems(cqueue[c]) : goal[w[2]] = w[1] /\ w[2] \in Task /\ w = <<w[1], w[2]>>
    BY QueueTypes DEF SenderInv, InvCqueue
  <2>2. n \in Nat /\ \A i \in 1..n : cqueue[c][i] \in Elems(cqueue[c])
    BY <2>1 DEF Elems
  <2>3. f \in [1..n -> Task]
    BY <2>1, <2>2
  <2>4. ASSUME NEW i \in 1..n, NEW j \in 1..n, f[i] = f[j]
        PROVE  i = j
    <3>1. cqueue[c][i][2] = cqueue[c][j][2]
      BY <2>4
    <3>2. cqueue[c][i] = cqueue[c][j]
      BY <2>1, <2>2, <3>1
    <3> QED
      BY <2>1, <3>2 DEF Distinct
  <2> HIDE DEF f
  <2> QED
    BY <1>2, <2>2, <2>3, <2>4
<1> QED
  BY <1>1, <1>3, <1>4

\* The invariant says what OneSender says.
LEMMA SendersAreOne ==
  ASSUME SenderInv, IsFiniteSet(Task)
  PROVE  OneSender
<1> DEFINE N == Cardinality(Task)
<1>1. /\ N \in Nat
      /\ \A m \in MutexId : Len(queue[m]) <= N /\ Len(queue[m]) \in Nat
      /\ \A c \in CondvarId : Len(cqueue[c]) <= N /\ Len(cqueue[c]) \in Nat
  BY QueueLengths, QueueTypes DEF SenderInv
<1> SUFFICES ASSUME NEW t \in Task
             PROVE  Cardinality(Places(t)) = IF st[t] = "blocked" THEN 1 ELSE 0
  BY DEF OneSender
<1> DEFINE InQueue(p) ==
             p \in MutexId \X (1..N) /\ p[2] <= Len(queue[p[1]]) /\ queue[p[1]][p[2]] = t
           InCqueue(p) ==
             p \in CondvarId \X (1..N) /\ p[2] <= Len(cqueue[p[1]]) /\ cqueue[p[1]][p[2]][2] = t
<1>2. \A p : p \in Places(t) <=> InQueue(p) \/ InCqueue(p)
  BY DEF Places
<1>3. ASSUME NEW p, InQueue(p)
      PROVE  /\ p[1] \in MutexId /\ p[2] \in 1..Len(queue[p[1]]) /\ p = <<p[1], p[2]>>
             /\ t \in Elems(queue[p[1]]) /\ st[t] = "blocked" /\ goal[t] = p[1]
  <2>1. p[1] \in MutexId /\ p[2] \in 1..Len(queue[p[1]]) /\ p = <<p[1], p[2]>>
    BY <1>1, <1>3
  <2>2. t \in Elems(queue[p[1]])
    BY <1>3, <2>1 DEF Elems
  <2> QED
    BY <2>1, <2>2 DEF SenderInv, InvQueue
<1>4. ASSUME NEW p, InCqueue(p)
      PROVE  /\ p[1] \in CondvarId /\ p[2] \in 1..Len(cqueue[p[1]]) /\ p = <<p[1], p[2]>>
             /\ cqueue[p[1]][p[2]] = <<goal[t], t>> /\ <<goal[t], t>> \in Elems(cqueue[p[1]])
             /\ st[t] = "blocked"
  <2>1. p[1] \in CondvarId /\ p[2] \in 1..Len(cqueue[p[1]]) /\ p = <<p[1], p[2]>>
    BY <1>1, <1>4
  <2>2. cqueue[p[1]][p[2]] \in Elems(cqueue[p[1]])
    BY <2>1 DEF Elems
  <2>3. \A w \in Elems(cqueue[p[1]]) : st[w[2]] = "blocked" /\ goal[w[2]] = w[1] /\ w = <<w[1], w[2]>>
    BY <2>1, QueueTypes DEF SenderInv, InvCqueue
  <2> QED
    BY <1>4, <2>1, <2>2, <2>3
<1>5. CASE st[t] # "blocked"
  <2>1. Places(t) = {}
    <3> HIDE DEF InQueue, InCqueue
    <3> QED
      BY <1>2, <1>3, <1>4, <1>5
  <2> QED
    BY <1>5, <2>1, FS_EmptySet
<1>6. CASE st[t] = "blocked"
  <2>1. Places(t) # {}
    <3>1. CASE t \in Elems(queue[goal[t]])
      <4>1. goal[t] \in MutexId
        BY <1>6 DEF SenderInv, TypeOK
      <4>2. PICK i \in 1..Len(queue[goal[t]]) : queue[goal[t]][i] = t
        BY <3>1 DEF Elems
      <4>3. InQueue(<<goal[t], i>>)
        BY <1>1, <4>1, <4>2
      <4> QED
        BY <1>2, <4>3
    <3>2. ASSUME NEW c \in CondvarId, <<goal[t], t>> \in Elems(cqueue[c])
          PROVE  Places(t) # {}
      <4>1. PICK i \in 1..Len(cqueue[c]) : cqueue[c][i] = <<goal[t], t>>
        BY <3>2 DEF Elems
      <4>2. InCqueue(<<c, i>>)
        BY <1>1, <4>1
      <4> QED
        BY <1>2, <4>2
    <3> QED
      BY <1>6, <3>1, <3>2 DEF SenderInv, InvQueued
  <2>2. ASSUME NEW p, NEW q, InQueue(p), InQueue(q)
        PROVE  p = q
    <3>1. /\ p[1] = q[1] /\ p[1] \in MutexId
          /\ p[2] \in 1..Len(queue[p[1]]) /\ q[2] \in 1..Len(queue[p[1]])
          /\ p = <<p[1], p[2]>> /\ q = <<q[1], q[2]>>
          /\ queue[p[1]][p[2]] = queue[p[1]][q[2]]
      BY <1>3, <2>2
    <3>2. p[2] = q[2]
      BY <3>1 DEF SenderInv, InvQueue, Distinct
    <3> QED
      BY <3>1, <3>2
  <2>3. ASSUME NEW p, NEW q, InCqueue(p), InCqueue(q)
        PROVE  p = q
    <3>1. /\ p[1] \in CondvarId /\ q[1] \in CondvarId
          /\ p[2] \in 1..Len(cqueue[p[1]]) /\ q[2] \in 1..Len(cqueue[q[1]])
          /\ p = <<p[1], p[2]>> /\ q = <<q[1], q[2]>>
          /\ cqueue[p[1]][p[2]] = cqueue[q[1]][q[2]]
          /\ <<goal[t], t>> \in Elems(cqueue[p[1]]) /\ <<goal[t], t>> \in Elems(cqueue[q[1]])
      BY <1>4, <2>3
    <3>2. p[1] = q[1]
      BY <3>1 DEF SenderInv, InvApart
    <3>3. p[2] = q[2]
      BY <3>1, <3>2 DEF SenderInv, InvCqueue, Distinct
    <3> QED
      BY <3>1, <3>2, <3>3
  <2>4. ASSUME NEW p, NEW q, InQueue(p), InCqueue(q)
        PROVE  FALSE
    <3>1. t \in Elems(queue[goal[t]]) /\ <<goal[t], t>> \in Elems(cqueue[q[1]]) /\ q[1] \in CondvarId
      BY <1>3, <1>4, <2>4
    <3> QED
      BY <3>1 DEF SenderInv, InvApart
  <2> HIDE DEF InQueue, InCqueue
  <2>5. \A p, q \in Places(t) : p = q
    BY <1>2, <2>2, <2>3, <2>4
  <2>6. \E p : Places(t) = {p}
    BY <2>1, <2>5
  <2> QED
    BY <1>6, <2>6, FS_Singleton
<1> QED
  BY <1>5, <1>6

-----------------------------------------------------------------------------
(* Owners: what each method does to them                                   *)

\* try_lock makes the caller the owner.
LEMMA TryLockOwners ==
  ASSUME TypeOK, NEW t \in Task, NEW m \in MutexId, TryLock(t, m)
  PROVE  \A u \in Task, k \in MutexId : Owns(u, k)' <=> Owns(u, k) \/ (u = t /\ k = m)
BY DEF TryLock, TypeOK, Owns

\* Waiting for a mutex makes nobody an owner.
LEMMA LockWaitOwners ==
  ASSUME TypeOK, NEW t \in Task, NEW m \in MutexId, LockWait(t, m)
  PROVE  \A u \in Task, k \in MutexId : Owns(u, k)' <=> Owns(u, k)
BY DEF LockWait, Running, TypeOK, Owns

\* Mutex::unlock and Condvar::wait: from t to the task at the head of the queue.
LEMMA UnlockOwners ==
  ASSUME TypeOK, InvQueue, NEW t \in Task, NEW m \in MutexId,
         Unlock(t, m) \/ \E c \in CondvarId : Wait(t, c, m)
  PROVE  /\ t \notin Dropped(m)
         /\ \A u \in Task, k \in MutexId :
              Owns(u, k)' <=> (Owns(u, k) /\ ~(u = t /\ k = m)) \/ (u \in Dropped(m) /\ k = m)
<1>1. Elems(queue[m]) = Elems(queue'[m]) \cup Dropped(m)
  BY HandOffFacts DEF Unlock, Wait
<1>2. \A u \in Dropped(m) : st[u] = "blocked" /\ goal[u] = m
  BY <1>1 DEF InvQueue
<1>3. st[t] = "run" /\ t \notin Dropped(m)
  BY <1>2 DEF Unlock, Wait, Running
<1>4. /\ \A u \in Task : u # t =>
           /\ st'[u] = IF u \in Dropped(m) THEN "woken" ELSE st[u]
           /\ goal'[u] = goal[u] /\ holds'[u] = holds[u]
      /\ holds'[t] = holds[t] \ {m} /\ st'[t] # "woken"
  BY <1>3 DEF Unlock, Wait, Wake, TypeOK
<1> QED
  BY <1>2, <1>3, <1>4 DEF Owns

\* Condvar::notify and notify_all of waiters whose mutexes are locked.
LEMMA RousesOwners ==
  ASSUME SenderInv, NEW c \in CondvarId, NEW waiters, NEW rest, Rouses(c, waiters, rest),
         \A w \in Elems(waiters) : locked[w[1]]
  PROVE  \A u \in Task, k \in MutexId : Owns(u, k)' <=> Owns(u, k)
<1>1. \A u \in Task : st'[u] = st[u]
  BY RousesFacts
<1> QED
  BY <1>1 DEF Rouses, Owns

\* A task that is handed a mutex owns it before it is polled, and after.
LEMMA ResumeOwners ==
  ASSUME TypeOK, NEW t \in Task, Resume(t)
  PROVE  \A u \in Task, k \in MutexId : Owns(u, k)' <=> Owns(u, k)
BY AsyncMutexAssumption DEF Resume, TypeOK, Owns

-----------------------------------------------------------------------------
(* Mutual exclusion                                                        *)

\* Initially nothing is locked or owned.
LEMMA OwnerInit == Init => OwnerInv
BY DEF Init, OwnerInv, MutualExclusion, Owns, InvLocked

\* try_lock succeeds only on a free mutex.
LEMMA TryLockOwnerInv ==
  ASSUME TypeOK, OwnerInv, NEW t \in Task, NEW m \in MutexId, TryLock(t, m)
  PROVE  OwnerInv'
<1>1. \A u \in Task, k \in MutexId : Owns(u, k)' <=> Owns(u, k) \/ (u = t /\ k = m)
  BY TryLockOwners
<1>2. ~locked[m] /\ queue' = queue /\ \A k \in MutexId : locked'[k] = IF k = m THEN TRUE ELSE locked[k]
  BY DEF TryLock, TypeOK
<1> QED
  BY <1>1, <1>2 DEF OwnerInv, MutualExclusion, InvLocked

\* lock waits only for a mutex that is locked.
LEMMA LockWaitOwnerInv ==
  ASSUME TypeOK, OwnerInv, NEW t \in Task, NEW m \in MutexId, LockWait(t, m)
  PROVE  OwnerInv'
<1>1. \A u \in Task, k \in MutexId : Owns(u, k)' <=> Owns(u, k)
  BY LockWaitOwners
<1>2. locked' = locked /\ locked[m] /\ \A k \in MutexId : k # m => queue'[k] = queue[k]
  BY DEF LockWait, TypeOK
<1> QED
  BY <1>1, <1>2 DEF OwnerInv, MutualExclusion, InvLocked

\* The mutex stays locked exactly if there is somebody to hand it to.
LEMMA UnlockOwnerInv ==
  ASSUME SenderInv, OwnerInv, NEW t \in Task, NEW m \in MutexId,
         Unlock(t, m) \/ \E c \in CondvarId : Wait(t, c, m)
  PROVE  OwnerInv'
<1>1. TypeOK /\ InvQueue /\ HandOff(m) /\ m \in holds[t] /\ locked[m]
  BY DEF SenderInv, Unlock, Wait
<1>2. /\ t \notin Dropped(m)
      /\ \A u \in Task, k \in MutexId :
           Owns(u, k)' <=> (Owns(u, k) /\ ~(u = t /\ k = m)) \/ (u \in Dropped(m) /\ k = m)
  BY <1>1, UnlockOwners
<1>3. /\ locked' \in [MutexId -> BOOLEAN]
      /\ \A k \in MutexId : k # m => queue'[k] = queue[k] /\ locked'[k] = locked[k]
      /\ \/ Dropped(m) = {} /\ ~locked'[m] /\ queue'[m] = <<>>
         \/ locked' = locked /\ \E h \in Task : Dropped(m) = {h}
  BY <1>1, HandOffFacts
<1>4. \A u \in Task : Owns(u, m) => u = t
  BY <1>1 DEF OwnerInv, MutualExclusion, Owns
<1>5. \A u \in Task : Owns(u, m)' <=> u \in Dropped(m)
  BY <1>2, <1>4
<1>6. \A k \in MutexId : k # m => \A u \in Task : Owns(u, k)' <=> Owns(u, k)
  BY <1>2
<1>7. ASSUME NEW k \in MutexId
      PROVE  /\ \A u, v \in Task : Owns(u, k)' /\ Owns(v, k)' => u = v
             /\ locked'[k] <=> \E u \in Task : Owns(u, k)'
             /\ queue'[k] # <<>> => locked'[k]
  <2>1. CASE k = m
    BY <1>1, <1>3, <1>5, <2>1
  <2>2. CASE k # m
    <3>1. /\ \A u, v \in Task : Owns(u, k) /\ Owns(v, k) => u = v
          /\ locked[k] <=> \E u \in Task : Owns(u, k)
          /\ queue[k] # <<>> => locked[k]
      BY DEF OwnerInv, MutualExclusion, InvLocked
    <3> HIDE DEF Owns
    <3> QED
      BY <1>3, <1>6, <2>2, <3>1
  <2> QED
    BY <2>1, <2>2
<1> QED
  BY <1>7 DEF OwnerInv, MutualExclusion, InvLocked

\* Notifying waiters of locked mutexes wakes nobody, so it makes no owner.
LEMMA RousesOwnerInv ==
  ASSUME SenderInv, OwnerInv, NEW c \in CondvarId, NEW waiters, NEW rest,
         Rouses(c, waiters, rest), \A w \in Elems(waiters) : locked[w[1]]
  PROVE  OwnerInv'
<1>1. \A u \in Task, k \in MutexId : Owns(u, k)' <=> Owns(u, k)
  BY RousesOwners
<1>2. /\ queue' \in [MutexId -> Seq(Task)] /\ locked' = locked
      /\ \A m \in MutexId :
           Elems(queue'[m])
             = Elems(queue[m]) \cup {u \in Task : locked[m] /\ <<m, u>> \in Elems(waiters)}
  <2>1. locked' = locked
    BY DEF Rouses
  <2> QED
    BY <2>1, RousesFacts
<1>3. ASSUME NEW m \in MutexId, queue'[m] # <<>>
      PROVE  locked[m]
  <2>1. queue[m] \in Seq(Task)
    BY DEF SenderInv, TypeOK
  <2>2. Elems(queue'[m]) # {}
    BY <1>2, <1>3, EmptyFacts
  <2>3. Elems(queue[m]) # {} \/ locked[m]
    BY <1>2, <2>2
  <2> QED
    BY <2>1, <2>3, EmptyFacts DEF OwnerInv, InvLocked
<1> QED
  BY <1>1, <1>2, <1>3 DEF OwnerInv, MutualExclusion, InvLocked

\* The users' discipline means that notified waiters' mutexes are locked.
LEMMA NotifiedAreLocked ==
  ASSUME SenderInv, OwnerInv, NotifyLocked = TRUE, NEW t \in Task, NEW c \in CondvarId, NEW waiters,
         Elems(waiters) \subseteq Elems(cqueue[c]), MayNotify(t, waiters)
  PROVE  \A w \in Elems(waiters) : locked[w[1]]
<1>1. \A w \in Elems(waiters) : w[1] \in MutexId
  BY QueueTypes DEF SenderInv
<1>2. \A w \in Elems(waiters) : w[1] \in holds[t]
  BY DEF MayNotify
<1> QED
  BY <1>1, <1>2 DEF OwnerInv, MutualExclusion, Owns

\* Polling a woken task changes no ownership.
LEMMA ResumeOwnerInv ==
  ASSUME TypeOK, OwnerInv, NEW t \in Task, Resume(t)
  PROVE  OwnerInv'
<1>1. \A u \in Task, k \in MutexId : Owns(u, k)' <=> Owns(u, k)
  BY ResumeOwners
<1>2. locked' = locked /\ queue' = queue
  BY DEF Resume
<1> QED
  BY <1>1, <1>2 DEF OwnerInv, MutualExclusion, InvLocked

\* assert!(this.locked) in Mutex::unlock holds.
LEMMA NoUnlockPanic ==
  ASSUME OwnerInv, NEW t \in Task, NEW m \in MutexId
  PROVE  ~UnlockPanic(t, m)
BY DEF UnlockPanic, OwnerInv, MutualExclusion, Owns

-----------------------------------------------------------------------------
(* The pthread functions                                                   *)

PthreadInv == PthreadTypeOK /\ SenderInv

\* A thread that awaits a cmpxchg, or has just had one, has the AsyncMutex, and
\* one that waits for the AsyncMutex will have it when it is woken.
InvCall ==
  \A t \in Task :
    /\ call[t].step \in {"acquire", "release", "released"} => call[t].mutex \in holds[t]
    /\ call[t].step = "user" => call[t].mutex = None
    /\ call[t].step = "lock" => call[t].mutex = goal[t]

\* Only mutexes that have been initialised are locked.
InvWord == \A m \in MutexId : locked[m] => word[m] # "zero"

\* What holds if threads signal with the mutex locked.
DisciplineInv == PthreadInv /\ OwnerInv /\ InvCall /\ InvWord /\ WordAgrees /\ AssertionsHold

-----------------------------------------------------------------------------
(* Types, and senders                                                      *)

\* A thread waits exactly if it has a mutex to wait for.
LEMMA CallTypes ==
  ASSUME SenderInv', word' \in [MutexId -> {"zero", "UNLOCKED", "LOCKED"}],
         call' \in [Task -> Calls], \A t \in Task : goal'[t] # None <=> call'[t].step = "lock"
  PROVE  PthreadInv'
BY DEF PthreadInv, PthreadTypeOK, SenderInv, TypeOK

\* Initially no function is being called.
LEMMA PthreadInitInv == PthreadInit => PthreadInv
<1> SUFFICES ASSUME PthreadInit
             PROVE  PthreadInv
  OBVIOUS
<1>1. SenderInv
  BY SenderInit DEF PthreadInit
<1>2. TypeOK
  BY <1>1 DEF SenderInv
<1> QED
  BY <1>1, <1>2 DEF PthreadInit, Init, PthreadInv, PthreadTypeOK, Calls, User

\* Released with an AsyncMutex that is locked: unlock, or wait.
ReleasedBy(t, m) ==
  \/ /\ Unlock(t, m) /\ call' = [call EXCEPT ![t] = User]
  \/ \E c \in CondvarId : Wait(t, c, m) /\ call' = [call EXCEPT ![t] = InCall("lock", m, None)]

\* After the word is released the mutex is unlocked, or the assertion of unlock
\* fails.
LEMMA ReleasedKinds ==
  ASSUME PthreadInv, NEW t \in Task, Released(t)
  PROVE  \E m \in MutexId :
           /\ m = call[t].mutex /\ word' = word /\ call[t].step = "released"
           /\ ReleasedBy(t, m) \/ (UnlockPanic(t, m) /\ call' = call)
<1>1. call[t] \in Calls /\ holds[t] \subseteq MutexId
  BY DEF PthreadInv, PthreadTypeOK, TypeOK
<1>2. call[t].mutex \in holds[t]
  BY DEF Released, Unlock, Wait, UnlockPanic
<1>3. call[t].cond # None => call[t].cond \in CondvarId
  BY <1>1 DEF Calls
<1> QED
  BY <1>1, <1>2, <1>3 DEF Released, ReleasedBy, GoTo, At

\* The types and the queues of senders are kept by every step.
LEMMA PthreadNextInv ==
  ASSUME PthreadInv, [PthreadNext]_pthreadVars
  PROVE  PthreadInv'
<1>1. /\ SenderInv /\ TypeOK /\ word \in [MutexId -> {"zero", "UNLOCKED", "LOCKED"}]
      /\ call \in [Task -> Calls] /\ goal \in [Task -> MutexId \cup {None}]
      /\ \A u \in Task : goal[u] # None <=> call[u].step = "lock"
  BY DEF PthreadInv, PthreadTypeOK, SenderInv, TypeOK
<1>2. CASE UNCHANGED pthreadVars
  BY <1>2 DEF pthreadVars, vars, PthreadInv, PthreadTypeOK, SenderInv, TypeOK, InvQueue, InvCqueue,
              InvApart, InvQueued
<1>3. ASSUME UNCHANGED <<locked, queue, cqueue, st, goal, holds>>, panicked' \in BOOLEAN
      PROVE  SenderInv'
  BY <1>1, <1>3 DEF SenderInv, TypeOK, InvQueue, InvCqueue, InvApart, InvQueued
<1>4. ASSUME NEW t \in Task, NEW m \in MutexId, MutexInit(t, m)
      PROVE  PthreadInv'
  <2>1. SenderInv'
    BY <1>1, <1>3, <1>4 DEF MutexInit, vars, TypeOK
  <2> QED
    BY <1>1, <1>4, <2>1, CallTypes DEF MutexInit, vars
<1>5. ASSUME NEW t \in Task, NEW m \in MutexId, MutexTrylock(t, m)
      PROVE  PthreadInv'
  <2>1. SenderInv'
    BY <1>1, <1>5, TryLockSenders DEF MutexTrylock
  <2>2. InCall("acquire", m, None) \in Calls /\ InCall("acquire", m, None).step = "acquire"
    BY DEF InCall, Calls
  <2>3. goal' = goal /\ word' = word /\ call' = [call EXCEPT ![t] = InCall("acquire", m, None)]
        /\ call[t].step = "user"
    BY <1>5 DEF MutexTrylock, TryLock, GoTo, At
  <2> QED
    BY <1>1, <2>1, <2>2, <2>3, CallTypes
<1>6. ASSUME NEW t \in Task, NEW m \in MutexId, MutexLock(t, m)
      PROVE  PthreadInv'
  <2>1. SenderInv'
    BY <1>1, <1>6, LockWaitSenders DEF MutexLock
  <2>2. InCall("lock", m, None) \in Calls /\ InCall("lock", m, None).step = "lock"
    BY DEF InCall, Calls
  <2>3. /\ goal' = [goal EXCEPT ![t] = m] /\ word' = word
        /\ call' = [call EXCEPT ![t] = InCall("lock", m, None)]
    BY <1>6 DEF MutexLock, LockWait, GoTo
  <2> QED
    BY <1>1, <2>1, <2>2, <2>3, CallTypes, AsyncMutexAssumption
<1>7. ASSUME NEW t \in Task, NEW m \in MutexId, NEW c \in CondvarId \cup {None},
             At(t, "user"), GoTo(t, InCall("release", m, c)), UNCHANGED <<vars, word>>
      PROVE  PthreadInv'
  <2>1. SenderInv'
    BY <1>1, <1>3, <1>7 DEF vars, TypeOK
  <2>2. InCall("release", m, c) \in Calls /\ InCall("release", m, c).step = "release"
    BY DEF InCall, Calls
  <2> QED
    BY <1>1, <1>7, <2>1, <2>2, CallTypes DEF GoTo, vars, At
<1>8. ASSUME NEW t \in Task, NEW c \in CondvarId, CondSignal(t, c) \/ CondBroadcast(t, c)
      PROVE  PthreadInv'
  <2>1. PICK waiters, rest : Rouses(c, waiters, rest)
    BY <1>1, <1>8, NotifyRouses, NotifyAllRouses DEF CondSignal, CondBroadcast
  <2>2. SenderInv'
    BY <1>1, <2>1, RousesSenders
  <2>3. goal' = goal /\ word' = word /\ call' = call
    BY <1>8, <2>1 DEF Rouses, CondSignal, CondBroadcast
  <2> QED
    BY <1>1, <2>2, <2>3, CallTypes
<1>9. ASSUME NEW t \in Task, Locked(t)
      PROVE  PthreadInv'
  <2>1. SenderInv' /\ goal[t] \in MutexId \cup {None}
    BY <1>1, <1>9, ResumeSenders DEF Locked
  <2>2. InCall("acquire", goal[t], None) \in Calls /\ InCall("acquire", goal[t], None).step = "acquire"
    BY <2>1 DEF InCall, Calls
  <2>3. /\ goal' = [goal EXCEPT ![t] = None] /\ word' = word
        /\ call' = [call EXCEPT ![t] = InCall("acquire", goal[t], None)]
    BY <1>9 DEF Locked, Resume, GoTo
  <2> QED
    BY <1>1, <2>1, <2>2, <2>3, CallTypes
<1>10. ASSUME NEW t \in Task, MutexLockAcquire(t) \/ MutexLockRelease(t)
       PROVE  PthreadInv'
  <2>1. SenderInv' /\ goal' = goal
    BY <1>1, <1>3, <1>10 DEF MutexLockAcquire, MutexLockRelease, CmpxchgU64
  <2>2. word' \in [MutexId -> {"zero", "UNLOCKED", "LOCKED"}]
    BY <1>1, <1>10 DEF MutexLockAcquire, MutexLockRelease, CmpxchgU64
  <2>3. /\ User \in Calls /\ User.step = "user"
        /\ [call[t] EXCEPT !.step = "released"] \in Calls
        /\ [call[t] EXCEPT !.step = "released"].step = "released"
    BY <1>1 DEF User, Calls
  <2>4. /\ call[t].step # "lock"
        /\ \/ call' = [call EXCEPT ![t] = User]
           \/ call' = [call EXCEPT ![t] = [call[t] EXCEPT !.step = "released"]]
    BY <1>10 DEF MutexLockAcquire, MutexLockRelease, GoTo, At
  <2> QED
    BY <1>1, <2>1, <2>2, <2>3, <2>4, CallTypes
<1>11. ASSUME NEW t \in Task, Released(t)
       PROVE  PthreadInv'
  <2>1. PICK m \in MutexId :
          /\ word' = word /\ call[t].step = "released"
          /\ ReleasedBy(t, m) \/ (UnlockPanic(t, m) /\ call' = call)
    BY <1>11, ReleasedKinds
  <2>2. /\ User \in Calls /\ User.step = "user"
        /\ InCall("lock", m, None) \in Calls /\ InCall("lock", m, None).step = "lock"
    BY DEF User, InCall, Calls
  <2>3. CASE UnlockPanic(t, m) /\ call' = call
    <3>1. SenderInv' /\ goal' = goal
      BY <1>1, <2>3, UnlockPanicSenders DEF UnlockPanic
    <3> QED
      BY <1>1, <2>1, <2>3, <3>1, CallTypes
  <2>4. CASE Unlock(t, m) /\ call' = [call EXCEPT ![t] = User]
    <3>1. SenderInv' /\ goal' = goal
      BY <1>1, <2>4, UnlockSenders DEF Unlock
    <3> QED
      BY <1>1, <2>1, <2>2, <2>4, <3>1, CallTypes
  <2>5. ASSUME NEW c \in CondvarId, Wait(t, c, m), call' = [call EXCEPT ![t] = InCall("lock", m, None)]
        PROVE  PthreadInv'
    <3>1. SenderInv' /\ goal' = [goal EXCEPT ![t] = m]
      BY <1>1, <2>5, WaitSenders DEF Wait
    <3> QED
      BY <1>1, <2>1, <2>2, <2>5, <3>1, CallTypes, AsyncMutexAssumption
  <2> QED
    BY <2>1, <2>3, <2>4, <2>5 DEF ReleasedBy
<1>12. ASSUME NEW t \in Task, NEW m \in MutexId, MutexUnlock(t, m)
       PROVE  PthreadInv'
  BY <1>7, <1>12 DEF MutexUnlock
<1>13. ASSUME NEW t \in Task, NEW m \in MutexId, NEW c \in CondvarId, CondWait(t, c, m)
       PROVE  PthreadInv'
  BY <1>7, <1>13 DEF CondWait
<1> QED
  BY <1>2, <1>4, <1>5, <1>6, <1>8, <1>9, <1>10, <1>11, <1>12, <1>13 DEF PthreadNext

\* Every variable has its type, and a task is blocked or woken exactly inside a
\* call that waits, even if threads signal without the mutex.
THEOREM PthreadTypes == PthreadSpec => []PthreadTypeOK
<1>1. PthreadInit => PthreadInv
  BY PthreadInitInv
<1>2. PthreadInv /\ [PthreadNext]_pthreadVars => PthreadInv'
  BY PthreadNextInv
<1>3. PthreadInv => PthreadTypeOK
  BY DEF PthreadInv
<1> QED
  BY <1>1, <1>2, <1>3, PTL DEF PthreadSpec

\* Every blocked task has exactly one sender in exactly one queue and no other
\* task has any, even if threads signal without the mutex: Mutex::unlock,
\* Condvar::wait, notify and notify_all lose no wake-up and duplicate none.
THEOREM OneSenderEach ==
  ASSUME IsFiniteSet(Task)
  PROVE  PthreadSpec => []OneSender
<1>1. PthreadInit => PthreadInv
  BY PthreadInitInv
<1>2. PthreadInv /\ [PthreadNext]_pthreadVars => PthreadInv'
  BY PthreadNextInv
<1>3. PthreadInv => OneSender
  BY SendersAreOne DEF PthreadInv
<1> QED
  BY <1>1, <1>2, <1>3, PTL DEF PthreadSpec

-----------------------------------------------------------------------------
(* The words in simulated memory                                           *)

\* The part of DisciplineInv that is about calls and words.
CallInv == InvCall /\ InvWord /\ WordAgrees /\ AssertionsHold

\* Who is inside owns the mutex.
LEMMA InsideOwns ==
  ASSUME NEW t \in Task, NEW m \in MutexId, Inside(t, m)
  PROVE  Owns(t, m)
BY DEF Inside, Owns

\* A step of t that changes no word and nobody's being inside.
LEMMA SameWord ==
  ASSUME CallInv, word' = word, ~panicked',
         \A u \in Task, k \in MutexId : Inside(u, k)' <=> Inside(u, k),
         \A k \in MutexId : locked'[k] => word[k] # "zero",
         NEW t \in Task,
         \A u \in Task : u # t => holds'[u] = holds[u] /\ goal'[u] = goal[u] /\ call'[u] = call[u],
         call'[t].step \in {"acquire", "release", "released"} => call'[t].mutex \in holds'[t],
         call'[t].step = "user" => call'[t].mutex = None,
         call'[t].step = "lock" => call'[t].mutex = goal'[t]
  PROVE  CallInv'
<1>1. InvCall'
  BY DEF CallInv, InvCall
<1>2. InvWord'
  BY DEF InvWord
<1>3. WordAgrees'
  <2> HIDE DEF Inside
  <2> QED
    BY DEF CallInv, WordAgrees
<1> QED
  BY <1>1, <1>2, <1>3 DEF CallInv, AssertionsHold

\* Initially every word is zero and nothing is locked.
LEMMA CallInitInv == PthreadInit => CallInv
BY AsyncMutexAssumption
   DEF PthreadInit, Init, CallInv, InvCall, InvWord, WordAgrees, Inside, AssertionsHold, User

\* Initialising a word does not touch one that is in use.
LEMMA MutexInitCalls ==
  ASSUME DisciplineInv, NEW t \in Task, NEW m \in MutexId, MutexInit(t, m)
  PROVE  CallInv'
<1>1. /\ word \in [MutexId -> {"zero", "UNLOCKED", "LOCKED"}] /\ word[m] = "zero"
      /\ word' = [word EXCEPT ![m] = "UNLOCKED"]
      /\ UNCHANGED <<locked, holds, goal, call, panicked>>
  BY DEF DisciplineInv, PthreadInv, PthreadTypeOK, MutexInit, vars
<1>2. \A k \in MutexId : word'[k] = "LOCKED" <=> word[k] = "LOCKED"
  BY <1>1
<1>3. InvCall' /\ AssertionsHold'
  BY <1>1 DEF DisciplineInv, InvCall, AssertionsHold
<1>4. InvWord'
  BY <1>1 DEF DisciplineInv, InvWord
<1>5. WordAgrees'
  <2>1. \A u \in Task, k \in MutexId : Inside(u, k)' <=> Inside(u, k)
    BY <1>1 DEF Inside
  <2> HIDE DEF Inside
  <2> QED
    BY <1>2, <2>1 DEF DisciplineInv, WordAgrees
<1> QED
  BY <1>3, <1>4, <1>5 DEF CallInv

\* pthread_mutex_trylock goes on to the word only with the mutex.
LEMMA MutexTrylockCalls ==
  ASSUME DisciplineInv, NEW t \in Task, NEW m \in MutexId, MutexTrylock(t, m)
  PROVE  CallInv'
<1>1. /\ CallInv /\ TypeOK /\ call \in [Task -> Calls] /\ call[t].step = "user" /\ call[t].mutex = None
  BY DEF DisciplineInv, CallInv, PthreadInv, PthreadTypeOK, InvCall, MutexTrylock, At
<1>2. m \notin holds[t] /\ word[m] # "zero" /\ ~panicked' /\ word' = word
  BY DEF DisciplineInv, OwnerInv, MutualExclusion, Owns, MutexTrylock, TryLock, Running
<1>3. /\ holds' = [holds EXCEPT ![t] = holds[t] \cup {m}]
      /\ call' = [call EXCEPT ![t] = InCall("acquire", m, None)]
      /\ locked' = [locked EXCEPT ![m] = TRUE] /\ goal' = goal
  BY DEF MutexTrylock, TryLock, GoTo
<1>4. /\ holds'[t] = holds[t] \cup {m}
      /\ call'[t].step = "acquire" /\ call'[t].mutex = m
      /\ \A u \in Task : u # t => holds'[u] = holds[u] /\ goal'[u] = goal[u] /\ call'[u] = call[u]
      /\ \A k \in MutexId : locked'[k] => locked[k] \/ k = m
  BY <1>1, <1>3 DEF TypeOK, InCall
<1>5. \A u \in Task, k \in MutexId : Inside(u, k)' <=> Inside(u, k)
  BY <1>1, <1>2, <1>4, AsyncMutexAssumption DEF Inside
<1>6. \A k \in MutexId : locked'[k] => word[k] # "zero"
  BY <1>1, <1>2, <1>4 DEF CallInv, InvWord
<1> QED
  BY <1>1, <1>2, <1>4, <1>5, <1>6, SameWord

\* pthread_mutex_lock goes on to the word with the mutex, or waits.
LEMMA MutexLockCalls ==
  ASSUME DisciplineInv, NEW t \in Task, NEW m \in MutexId, MutexLock(t, m)
  PROVE  CallInv'
<1>1. /\ CallInv /\ TypeOK /\ call \in [Task -> Calls] /\ call[t].step = "user" /\ call[t].mutex = None
  BY DEF DisciplineInv, CallInv, PthreadInv, PthreadTypeOK, InvCall, MutexLock, At
<1>2. m \notin holds[t] /\ ~panicked' /\ word' = word /\ holds' = holds /\ locked' = locked
  BY DEF MutexLock, LockWait, Running
<1>3. /\ call' = [call EXCEPT ![t] = InCall("lock", m, None)] /\ goal' = [goal EXCEPT ![t] = m]
  BY DEF MutexLock, LockWait, GoTo
<1>4. /\ call'[t].step = "lock" /\ call'[t].mutex = m /\ goal'[t] = m
      /\ \A u \in Task : u # t => holds'[u] = holds[u] /\ goal'[u] = goal[u] /\ call'[u] = call[u]
  BY <1>1, <1>2, <1>3 DEF TypeOK, InCall
<1>5. \A u \in Task, k \in MutexId : Inside(u, k)' <=> Inside(u, k)
  BY <1>1, <1>2, <1>4, AsyncMutexAssumption DEF Inside
<1>6. \A k \in MutexId : locked'[k] => word[k] # "zero"
  BY <1>1, <1>2 DEF CallInv, InvWord
<1> QED
  BY <1>1, <1>2, <1>4, <1>5, <1>6, SameWord

\* pthread_mutex_unlock and pthread_cond_wait, up to the cmpxchg.
LEMMA ReleaseBeginsCalls ==
  ASSUME DisciplineInv, NEW t \in Task, NEW m \in MutexId, NEW c,
         At(t, "user"), m \in holds[t], GoTo(t, InCall("release", m, c)), UNCHANGED <<vars, word>>
  PROVE  CallInv'
<1>1. /\ CallInv /\ call \in [Task -> Calls] /\ call[t].step = "user" /\ call[t].mutex = None
  BY DEF DisciplineInv, CallInv, PthreadInv, PthreadTypeOK, InvCall, At
<1>2. UNCHANGED <<word, holds, goal, locked>> /\ ~panicked'
  BY <1>1 DEF vars, CallInv, AssertionsHold
<1>3. /\ call'[t].step = "release" /\ call'[t].mutex = m
      /\ \A u \in Task : u # t => call'[u] = call[u]
  BY <1>1 DEF GoTo, InCall
<1>4. \A u \in Task, k \in MutexId : Inside(u, k)' <=> Inside(u, k)
  BY <1>1, <1>2, <1>3, AsyncMutexAssumption DEF Inside
<1>5. \A k \in MutexId : locked'[k] => word[k] # "zero"
  BY <1>1, <1>2 DEF CallInv, InvWord
<1> QED
  BY <1>1, <1>2, <1>3, <1>4, <1>5, SameWord

\* Steps that leave mutexes, words and calls alone.
LEMMA CondCalls ==
  ASSUME DisciplineInv, UNCHANGED <<word, call, locked, goal, holds, panicked>>
  PROVE  CallInv'
BY DEF DisciplineInv, CallInv, InvCall, InvWord, WordAgrees, Inside, AssertionsHold

\* Mutex::lock or Condvar::wait returns: the thread has the AsyncMutex and is
\* not yet inside.
LEMMA LockedCalls ==
  ASSUME DisciplineInv, NEW t \in Task, Locked(t)
  PROVE  CallInv'
<1>1. /\ CallInv /\ TypeOK /\ call \in [Task -> Calls] /\ st[t] = "woken" /\ call[t].step = "lock"
  BY DEF DisciplineInv, CallInv, PthreadInv, PthreadTypeOK, Locked, Resume
<1>2. call[t].mutex = goal[t] /\ goal[t] \in MutexId
  BY <1>1 DEF CallInv, InvCall, TypeOK
<1>3. /\ holds' = [holds EXCEPT ![t] = holds[t] \cup {goal[t]}]
      /\ call' = [call EXCEPT ![t] = InCall("acquire", goal[t], None)]
      /\ locked' = locked /\ goal' = [goal EXCEPT ![t] = None] /\ word' = word /\ ~panicked'
  BY DEF Locked, Resume, GoTo
<1>4. /\ holds'[t] = holds[t] \cup {goal[t]}
      /\ call'[t].step = "acquire" /\ call'[t].mutex = goal[t]
      /\ \A u \in Task : u # t => holds'[u] = holds[u] /\ goal'[u] = goal[u] /\ call'[u] = call[u]
  BY <1>1, <1>3 DEF TypeOK, InCall
<1>5. \A u \in Task, k \in MutexId : Inside(u, k)' <=> Inside(u, k)
  BY <1>1, <1>2, <1>4 DEF Inside
<1>6. \A k \in MutexId : locked'[k] => word[k] # "zero"
  BY <1>1, <1>3 DEF CallInv, InvWord
<1> QED
  BY <1>1, <1>3, <1>4, <1>5, <1>6, SameWord

\* mutex_lock_acquire: nobody is inside, so that the cmpxchg finds UNLOCKED.
LEMMA AcquireCalls ==
  ASSUME DisciplineInv, NEW t \in Task, MutexLockAcquire(t)
  PROVE  CallInv'
<1> DEFINE m == call[t].mutex
<1>1. /\ CallInv /\ TypeOK /\ MutualExclusion /\ call \in [Task -> Calls]
      /\ word \in [MutexId -> {"zero", "UNLOCKED", "LOCKED"}] /\ call[t].step = "acquire"
  BY DEF DisciplineInv, OwnerInv, CallInv, PthreadInv, PthreadTypeOK, MutexLockAcquire, At
<1>2. m \in holds[t] /\ m \in MutexId /\ Owns(t, m)
  BY <1>1 DEF CallInv, InvCall, TypeOK, Owns
<1>3. ~Inside(t, m) /\ \A u \in Task : ~Inside(u, m)
  <2>1. ~Inside(t, m)
    BY <1>1 DEF Inside
  <2> QED
    BY <1>1, <1>2, <2>1, InsideOwns DEF MutualExclusion
<1>4. word[m] = "UNLOCKED"
  <2>1. word[m] # "LOCKED"
    BY <1>1, <1>2, <1>3 DEF CallInv, WordAgrees
  <2>2. word[m] # "zero"
    BY <1>1, <1>2 DEF CallInv, InvWord, MutualExclusion
  <2> QED
    BY <1>1, <1>2, <2>1, <2>2
<1>5. /\ word' = [word EXCEPT ![m] = "LOCKED"] /\ ~panicked'
      /\ UNCHANGED <<locked, goal, holds>> /\ call' = [call EXCEPT ![t] = User]
  BY <1>4 DEF MutexLockAcquire, CmpxchgU64, GoTo
<1>6. /\ call'[t].step = "user" /\ call'[t].mutex = None
      /\ \A u \in Task : u # t => call'[u] = call[u]
      /\ word'[m] = "LOCKED" /\ \A k \in MutexId : k # m => word'[k] = word[k]
  BY <1>1, <1>2, <1>5 DEF User
<1>7. \A u \in Task, k \in MutexId : Inside(u, k)' <=> Inside(u, k) \/ (u = t /\ k = m)
  BY <1>1, <1>2, <1>5, <1>6, AsyncMutexAssumption DEF Inside
<1>8. InvCall' /\ InvWord' /\ AssertionsHold'
  BY <1>1, <1>5, <1>6 DEF CallInv, InvCall, InvWord, AssertionsHold
<1>9. WordAgrees'
  <2> HIDE DEF m, Inside
  <2>1. ASSUME NEW k \in MutexId
        PROVE  /\ word'[k] = "LOCKED" <=> \E u \in Task : Inside(u, k)'
               /\ \A u, v \in Task : Inside(u, k)' /\ Inside(v, k)' => u = v
    <3>1. CASE k = m
      BY <1>3, <1>6, <1>7, <3>1
    <3>2. CASE k # m
      BY <1>1, <1>6, <1>7, <3>2 DEF CallInv, WordAgrees
    <3> QED
      BY <3>1, <3>2
  <2> QED
    BY <2>1 DEF WordAgrees
<1> QED
  BY <1>8, <1>9 DEF CallInv

\* mutex_lock_release: the thread is inside, so that the cmpxchg finds LOCKED.
LEMMA ReleaseCalls ==
  ASSUME DisciplineInv, NEW t \in Task, MutexLockRelease(t)
  PROVE  CallInv'
<1> DEFINE m == call[t].mutex
<1>1. /\ CallInv /\ TypeOK /\ call \in [Task -> Calls]
      /\ word \in [MutexId -> {"zero", "UNLOCKED", "LOCKED"}] /\ call[t].step = "release"
  BY DEF DisciplineInv, CallInv, PthreadInv, PthreadTypeOK, MutexLockRelease, At
<1>2. m \in holds[t] /\ m \in MutexId /\ Inside(t, m)
  BY <1>1 DEF CallInv, InvCall, TypeOK, Inside
<1>3. word[m] = "LOCKED" /\ \A u \in Task : Inside(u, m) => u = t
  BY <1>1, <1>2 DEF CallInv, WordAgrees
<1>4. /\ word' = [word EXCEPT ![m] = "UNLOCKED"] /\ ~panicked' /\ UNCHANGED <<locked, goal, holds>>
      /\ call' = [call EXCEPT ![t] = [call[t] EXCEPT !.step = "released"]]
  BY <1>3 DEF MutexLockRelease, CmpxchgU64, GoTo
<1>5. /\ call'[t].step = "released" /\ call'[t].mutex = m
      /\ \A u \in Task : u # t => call'[u] = call[u]
      /\ word'[m] = "UNLOCKED" /\ \A k \in MutexId : k # m => word'[k] = word[k]
  BY <1>1, <1>2, <1>4 DEF Calls
<1>6. \A u \in Task, k \in MutexId : Inside(u, k)' <=> Inside(u, k) /\ ~(u = t /\ k = m)
  BY <1>1, <1>2, <1>4, <1>5 DEF Inside
<1>7. InvCall' /\ InvWord' /\ AssertionsHold'
  BY <1>1, <1>2, <1>4, <1>5 DEF CallInv, InvCall, InvWord, AssertionsHold
<1>8. WordAgrees'
  <2> HIDE DEF m, Inside
  <2>1. ASSUME NEW k \in MutexId
        PROVE  /\ word'[k] = "LOCKED" <=> \E u \in Task : Inside(u, k)'
               /\ \A u, v \in Task : Inside(u, k)' /\ Inside(v, k)' => u = v
    <3>1. CASE k = m
      BY <1>3, <1>5, <1>6, <3>1
    <3>2. CASE k # m
      BY <1>1, <1>5, <1>6, <3>2 DEF CallInv, WordAgrees
    <3> QED
      BY <3>1, <3>2
  <2> QED
    BY <2>1 DEF WordAgrees
<1> QED
  BY <1>7, <1>8 DEF CallInv

\* The AsyncMutex is unlocked when the word is not LOCKED any more.
LEMMA ReleasedCalls ==
  ASSUME DisciplineInv, NEW t \in Task, NEW m \in MutexId, m = call[t].mutex,
         call[t].step = "released", word' = word, ReleasedBy(t, m)
  PROVE  CallInv'
<1>1. /\ CallInv /\ TypeOK /\ InvQueue /\ call \in [Task -> Calls] /\ HandOff(m)
  BY DEF DisciplineInv, CallInv, PthreadInv, PthreadTypeOK, SenderInv, ReleasedBy, Unlock, Wait
<1>2. \A k \in MutexId : locked'[k] => locked[k]
  <2>1. \A k \in MutexId : k # m => locked'[k] = locked[k]
    BY <1>1, HandOffFacts
  <2>2. locked[m]
    BY DEF ReleasedBy, Unlock, Wait
  <2> QED
    BY <2>1, <2>2
<1>3. /\ holds' = [holds EXCEPT ![t] = holds[t] \ {m}] /\ ~panicked'
      /\ \/ call' = [call EXCEPT ![t] = User] /\ goal' = goal
         \/ call' = [call EXCEPT ![t] = InCall("lock", m, None)] /\ goal' = [goal EXCEPT ![t] = m]
  BY DEF ReleasedBy, Unlock, Wait, Running
<1>4. /\ holds'[t] = holds[t] \ {m}
      /\ \/ call'[t].step = "user" /\ call'[t].mutex = None
         \/ call'[t].step = "lock" /\ call'[t].mutex = m /\ goal'[t] = m
      /\ \A u \in Task : u # t => holds'[u] = holds[u] /\ goal'[u] = goal[u] /\ call'[u] = call[u]
  BY <1>1, <1>3 DEF TypeOK, InCall, User
<1>5. \A u \in Task, k \in MutexId : Inside(u, k)' <=> Inside(u, k)
  BY <1>1, <1>4, AsyncMutexAssumption DEF Inside
<1>6. \A k \in MutexId : locked'[k] => word[k] # "zero"
  BY <1>1, <1>2 DEF CallInv, InvWord
<1>7. /\ call'[t].step \in {"acquire", "release", "released"} => call'[t].mutex \in holds'[t]
      /\ call'[t].step = "user" => call'[t].mutex = None
      /\ call'[t].step = "lock" => call'[t].mutex = goal'[t]
  BY <1>4
<1> QED
  BY <1>1, <1>3, <1>4, <1>5, <1>6, <1>7, SameWord

\* A step that leaves mutexes, queues and tasks alone keeps the owners.
LEMMA SameOwners ==
  ASSUME OwnerInv, UNCHANGED <<locked, queue, st, goal, holds>>
  PROVE  OwnerInv'
BY DEF OwnerInv, MutualExclusion, Owns, InvLocked

\* The kinds of steps, each with its effect on the AsyncMutex, from a state in
\* which DisciplineInv holds.
LEMMA DisciplineSteps ==
  ASSUME NotifyLocked = TRUE, DisciplineInv, PthreadNext
  PROVE  /\ CallInv'
         /\ \/ UNCHANGED <<locked, queue, cqueue, st, goal, holds>>
            \/ \E t \in Task, m \in MutexId :
                 \/ TryLock(t, m) \/ LockWait(t, m) \/ Unlock(t, m)
                 \/ \E c \in CondvarId : Wait(t, c, m)
            \/ \E t \in Task : Resume(t)
            \/ \E c \in CondvarId : \E waiters, rest :
                 Rouses(c, waiters, rest) /\ \A w \in Elems(waiters) : locked[w[1]]
<1> DEFINE Same == UNCHANGED <<locked, queue, cqueue, st, goal, holds>>
           OfMutex == \E t \in Task, m \in MutexId :
                        \/ TryLock(t, m) \/ LockWait(t, m) \/ Unlock(t, m)
                        \/ \E c \in CondvarId : Wait(t, c, m)
           OfResume == \E t \in Task : Resume(t)
           OfRouse == \E c \in CondvarId : \E waiters, rest :
                        Rouses(c, waiters, rest) /\ \A w \in Elems(waiters) : locked[w[1]]
           Goal == CallInv' /\ (Same \/ OfMutex \/ OfResume \/ OfRouse)
<1>1. ASSUME NEW t \in Task, NEW m \in MutexId, MutexInit(t, m)
      PROVE  Goal
  BY <1>1, MutexInitCalls DEF MutexInit, vars
<1>2. ASSUME NEW t \in Task, NEW m \in MutexId, MutexTrylock(t, m)
      PROVE  Goal
  <2>1. OfMutex
    BY <1>2 DEF MutexTrylock
  <2> QED
    BY <1>2, <2>1, MutexTrylockCalls
<1>3. ASSUME NEW t \in Task, NEW m \in MutexId, MutexLock(t, m)
      PROVE  Goal
  <2>1. OfMutex
    BY <1>3 DEF MutexLock
  <2> QED
    BY <1>3, <2>1, MutexLockCalls
<1>4. ASSUME NEW t \in Task, NEW m \in MutexId, MutexUnlock(t, m)
      PROVE  Goal
  BY <1>4, ReleaseBeginsCalls DEF MutexUnlock, vars
<1>5. ASSUME NEW t \in Task, NEW m \in MutexId, NEW c \in CondvarId, CondWait(t, c, m)
      PROVE  Goal
  BY <1>5, ReleaseBeginsCalls DEF CondWait, vars
<1>6. ASSUME NEW t \in Task, NEW c \in CondvarId, CondSignal(t, c) \/ CondBroadcast(t, c)
      PROVE  Goal
  <2>1. SenderInv /\ OwnerInv
    BY DEF DisciplineInv, PthreadInv
  <2>2. PICK waiters, rest : Rouses(c, waiters, rest) /\ MayNotify(t, waiters)
    <3>1. CASE CondSignal(t, c)
      <4>1. Notify(t, c)
        BY <3>1 DEF CondSignal
      <4>2. MayNotify(t, <<Head(cqueue[c])>>)
        BY <4>1 DEF Notify
      <4> QED
        BY <2>1, <4>1, <4>2, NotifyRouses
    <3>2. CASE CondBroadcast(t, c)
      <4>1. NotifyAll(t, c)
        BY <3>2 DEF CondBroadcast
      <4>2. MayNotify(t, cqueue[c])
        BY <4>1 DEF NotifyAll
      <4> QED
        BY <2>1, <4>1, <4>2, NotifyAllRouses
    <3> QED
      BY <1>6, <3>1, <3>2
  <2>3. Elems(waiters) \subseteq Elems(cqueue[c])
    BY <2>2 DEF Rouses
  <2>4. \A w \in Elems(waiters) : locked[w[1]]
    BY <2>1, <2>2, <2>3, NotifiedAreLocked
  <2>5. OfRouse
    BY <2>2, <2>4
  <2>6. UNCHANGED <<word, call, locked, goal, holds, panicked>>
    BY <1>6, <2>2 DEF CondSignal, CondBroadcast, Rouses
  <2> QED
    BY <2>5, <2>6, CondCalls
<1>7. ASSUME NEW t \in Task, Locked(t)
      PROVE  Goal
  <2>1. OfResume
    BY <1>7 DEF Locked
  <2> QED
    BY <1>7, <2>1, LockedCalls
<1>8. ASSUME NEW t \in Task, MutexLockAcquire(t)
      PROVE  Goal
  BY <1>8, AcquireCalls DEF MutexLockAcquire, CmpxchgU64
<1>9. ASSUME NEW t \in Task, MutexLockRelease(t)
      PROVE  Goal
  BY <1>9, ReleaseCalls DEF MutexLockRelease, CmpxchgU64
<1>10. ASSUME NEW t \in Task, Released(t)
       PROVE  Goal
  <2>1. PthreadInv /\ OwnerInv
    BY DEF DisciplineInv
  <2>2. PICK m \in MutexId :
          /\ m = call[t].mutex /\ word' = word /\ call[t].step = "released"
          /\ ReleasedBy(t, m) \/ UnlockPanic(t, m)
    BY <1>10, <2>1, ReleasedKinds
  <2>3. ReleasedBy(t, m)
    BY <2>1, <2>2, NoUnlockPanic
  <2>4. OfMutex
    BY <2>3 DEF ReleasedBy
  <2> QED
    BY <2>2, <2>3, <2>4, ReleasedCalls
<1>11. Goal
  <2> HIDE DEF Goal
  <2> QED
    BY <1>1, <1>2, <1>3, <1>4, <1>5, <1>6, <1>7, <1>8, <1>9, <1>10 DEF PthreadNext
<1> QED
  BY <1>11

\* The invariant holds initially.
LEMMA DisciplineInitInv == PthreadInit => DisciplineInv
BY PthreadInitInv, OwnerInit, CallInitInv DEF PthreadInit, DisciplineInv, CallInv

\* The invariant is inductive if threads signal with the mutex locked.
LEMMA DisciplineNextInv ==
  ASSUME NotifyLocked = TRUE, DisciplineInv, [PthreadNext]_pthreadVars
  PROVE  DisciplineInv'
<1>1. PthreadInv'
  BY PthreadNextInv DEF DisciplineInv
<1>2. SenderInv /\ TypeOK /\ OwnerInv
  BY DEF DisciplineInv, PthreadInv, SenderInv
<1>3. CASE PthreadNext
  <2>1. CallInv'
    BY <1>3, DisciplineSteps
  <2>2. ASSUME NEW t \in Task, NEW m \in MutexId,
               \/ TryLock(t, m) \/ LockWait(t, m) \/ Unlock(t, m)
               \/ \E c \in CondvarId : Wait(t, c, m)
        PROVE  OwnerInv'
    BY <1>2, <2>2, TryLockOwnerInv, LockWaitOwnerInv, UnlockOwnerInv
  <2>3. ASSUME NEW t \in Task, Resume(t)
        PROVE  OwnerInv'
    BY <1>2, <2>3, ResumeOwnerInv
  <2>4. ASSUME NEW c \in CondvarId, NEW waiters, NEW rest,
               Rouses(c, waiters, rest), \A w \in Elems(waiters) : locked[w[1]]
        PROVE  OwnerInv'
    BY <1>2, <2>4, RousesOwnerInv
  <2>5. OwnerInv'
    BY <1>2, <1>3, <2>2, <2>3, <2>4, DisciplineSteps, SameOwners
  <2> QED
    BY <1>1, <2>1, <2>5 DEF DisciplineInv, CallInv
<1>4. CASE UNCHANGED pthreadVars
  <2>1. OwnerInv'
    BY <1>2, <1>4, SameOwners DEF pthreadVars, vars
  <2>2. CallInv'
    BY <1>4, CondCalls DEF pthreadVars, vars
  <2> QED
    BY <1>1, <2>1, <2>2 DEF DisciplineInv, CallInv
<1> QED
  BY <1>3, <1>4

\* The invariant for threads that signal with the mutex locked.
LEMMA Discipline ==
  ASSUME NotifyLocked = TRUE
  PROVE  PthreadSpec => []DisciplineInv
<1>1. PthreadInit => DisciplineInv
  BY DisciplineInitInv
<1>2. DisciplineInv /\ [PthreadNext]_pthreadVars => DisciplineInv'
  BY DisciplineNextInv
<1> QED
  BY <1>1, <1>2, PTL DEF PthreadSpec

\* At most one thread has a mutex or has been handed it, and locked says whether
\* one does (Mutex::unlock leaves locked set for the task it wakes), if threads
\* signal with the mutex locked.
THEOREM PthreadMutualExclusion ==
  ASSUME NotifyLocked = TRUE
  PROVE  PthreadSpec => []MutualExclusion
<1>1. DisciplineInv => MutualExclusion
  BY DEF DisciplineInv, OwnerInv
<1> QED
  BY <1>1, Discipline, PTL

\* The word of a mutex in simulated memory is LOCKED exactly while one thread is
\* between the return of pthread_mutex_lock and the release of the word, although
\* the cmpxchg and the AsyncMutex change in different steps.
THEOREM PthreadWordAgrees ==
  ASSUME NotifyLocked = TRUE
  PROVE  PthreadSpec => []WordAgrees
<1>1. DisciplineInv => WordAgrees
  BY DEF DisciplineInv
<1> QED
  BY <1>1, Discipline, PTL

\* The assertions of mutex_lock_acquire, mutex_lock_release and Mutex::unlock hold.
THEOREM PthreadAssertionsHold ==
  ASSUME NotifyLocked = TRUE
  PROVE  PthreadSpec => []AssertionsHold
<1>1. DisciplineInv => AssertionsHold
  BY DEF DisciplineInv
<1> QED
  BY <1>1, Discipline, PTL

-----------------------------------------------------------------------------
(* Monitor is implemented                                                  *)

\* The owner of Monitor is the task that owns the mutex.
OwnerSound ==
  \A m \in MutexId :
    /\ \A t \in Task : Owner(m) = t <=> Owns(t, m)
    /\ Owner(m) = None <=> ~locked[m]

\* So it is with mutual exclusion.
LEMMA OwnerFacts == MutualExclusion => OwnerSound
<1> SUFFICES ASSUME MutualExclusion, NEW m \in MutexId
             PROVE  /\ \A t \in Task : Owner(m) = t <=> Owns(t, m)
                    /\ Owner(m) = None <=> ~locked[m]
  BY DEF OwnerSound
<1> HIDE DEF Owns
<1>1. CASE ~locked[m]
  BY <1>1, AsyncMutexAssumption DEF MutualExclusion, Owner
<1>2. CASE locked[m]
  <2>1. PICK t \in Task : Owns(t, m)
    BY <1>2 DEF MutualExclusion
  <2>2. \A u \in Task : Owns(u, m) => u = t
    BY <2>1 DEF MutualExclusion
  <2>3. Owner(m) = t
    BY <2>1, <2>2 DEF Owner
  <2> QED
    BY <1>2, <2>1, <2>2, <2>3, AsyncMutexAssumption
<1> QED
  BY <1>1, <1>2

\* The same after a step.
LEMMA OwnerFactsNext == MutualExclusion' => OwnerSound'
BY OwnerFacts, PTL

\* Equal owners before and after a step.
LEMMA SameOwner ==
  ASSUME MutualExclusion, MutualExclusion', NEW m \in MutexId,
         \A t \in Task : Owns(t, m)' <=> Owns(t, m)
  PROVE  Owner(m)' = Owner(m)
<1> HIDE DEF Owns
<1>1. CASE \E t \in Task : Owns(t, m)
  <2>1. PICK t \in Task : Owns(t, m)
    BY <1>1
  <2> QED
    BY <2>1, OwnerFacts, OwnerFactsNext DEF OwnerSound
<1>2. CASE ~\E t \in Task : Owns(t, m)
  <2>1. ~locked[m] /\ ~locked'[m]
    BY <1>2 DEF MutualExclusion
  <2> QED
    BY <2>1, OwnerFacts, OwnerFactsNext DEF OwnerSound
<1> QED
  BY <1>1, <1>2

\* Mutex::try_lock is Take.
LEMMA TryLockTakes ==
  ASSUME TypeOK, MutualExclusion, MutualExclusion', NEW t \in Task, NEW m \in MutexId, TryLock(t, m)
  PROVE  Mon!Take(t, m)
<1>1. \A u \in Task, k \in MutexId : Owns(u, k)' <=> Owns(u, k) \/ (u = t /\ k = m)
  BY TryLockOwners
<1>2. ~locked[m] /\ UNCHANGED <<queue, cqueue>>
  BY DEF TryLock
<1>3. Owner(m) = None /\ Owner(m)' = t
  BY <1>1, <1>2, OwnerFacts, OwnerFactsNext DEF OwnerSound
<1>4. \A k \in MutexId : k # m => Owner(k)' = Owner(k)
  BY <1>1, SameOwner
<1> QED
  BY <1>2, <1>3, <1>4 DEF Mon!Take

\* Mutex::lock of a locked mutex is Want.
LEMMA LockWaitWants ==
  ASSUME TypeOK, MutualExclusion, MutualExclusion', NEW t \in Task, NEW m \in MutexId, LockWait(t, m)
  PROVE  Mon!Want(t, m)
<1>1. \A k \in MutexId : Owner(k)' = Owner(k)
  BY LockWaitOwners, SameOwner
<1>2. locked[m] /\ UNCHANGED cqueue /\ queue' = [queue EXCEPT ![m] = Append(queue[m], t)]
  BY DEF LockWait
<1>3. Owner(m) # None
  BY <1>2, OwnerFacts DEF OwnerSound
<1>4. queue[m] \in Seq(Task) /\ queue \in [MutexId -> Seq(Task)]
  BY DEF TypeOK
<1>5. Elems(queue'[m]) = Elems(queue[m]) \cup {t} /\ \A k \in MutexId : k # m => queue'[k] = queue[k]
  BY <1>2, <1>4, AppendFacts
<1>6. [k \in MutexId |-> Elems(queue[k])]'
        = [[k \in MutexId |-> Elems(queue[k])] EXCEPT ![m] = @ \cup {t}]
  BY <1>5
<1>7. [k \in MutexId |-> Owner(k)]' = [k \in MutexId |-> Owner(k)]
  BY <1>1
<1> QED
  BY <1>2, <1>3, <1>6, <1>7 DEF Mon!Want

\* Mutex::unlock, also as a part of Condvar::wait, is GiveUp by the owner.
LEMMA UnlockGivesUp ==
  ASSUME TypeOK, InvQueue, MutualExclusion, MutualExclusion', NEW t \in Task, NEW m \in MutexId,
         Unlock(t, m) \/ \E c \in CondvarId : Wait(t, c, m)
  PROVE  Owner(m) = t /\ Mon!GiveUp(m)
<1>1. /\ HandOff(m) /\ m \in holds[t]
  BY DEF Unlock, Wait
<1>2. /\ t \notin Dropped(m)
      /\ \A u \in Task, k \in MutexId :
           Owns(u, k)' <=> (Owns(u, k) /\ ~(u = t /\ k = m)) \/ (u \in Dropped(m) /\ k = m)
  BY UnlockOwners
<1>3. /\ \A k \in MutexId : k # m => queue'[k] = queue[k]
      /\ Elems(queue[m]) = Elems(queue'[m]) \cup Dropped(m)
      /\ \/ Dropped(m) = {} /\ ~locked'[m] /\ queue' = queue /\ queue[m] = <<>>
         \/ \E h \in Task : Dropped(m) = {h} /\ h \notin Elems(queue'[m])
  BY <1>1, HandOffFacts
<1>4. Owner(m) = t
  <2>1. Owns(t, m)
    BY <1>1 DEF Owns
  <2> QED
    BY <2>1, OwnerFacts DEF OwnerSound
<1>5. \A k \in MutexId : k # m => Owner(k)' = Owner(k)
  BY <1>2, SameOwner
<1>6. CASE Dropped(m) = {} /\ ~locked'[m] /\ queue' = queue /\ queue[m] = <<>>
  <2>1. Elems(queue[m]) = {}
    BY <1>6 DEF Elems
  <2>2. Owner(m)' = None
    BY <1>6, OwnerFactsNext DEF OwnerSound
  <2> QED
    BY <1>4, <1>5, <1>6, <2>1, <2>2 DEF Mon!GiveUp
<1>7. ASSUME NEW h \in Task, Dropped(m) = {h}, h \notin Elems(queue'[m])
      PROVE  Mon!GiveUp(m)
  <2>1. Owner(m)' = h
    BY <1>2, <1>7, OwnerFactsNext DEF OwnerSound
  <2>2. h \in Elems(queue[m]) /\ Elems(queue'[m]) = Elems(queue[m]) \ {h}
    BY <1>3, <1>7
  <2>3. [k \in MutexId |-> Elems(queue[k])]'
          = [[k \in MutexId |-> Elems(queue[k])] EXCEPT ![m] = @ \ {h}]
    BY <1>3, <2>2
  <2>4. [k \in MutexId |-> Owner(k)]' = [[k \in MutexId |-> Owner(k)] EXCEPT ![m] = h]
    BY <1>5, <2>1
  <2> QED
    BY <2>2, <2>3, <2>4 DEF Mon!GiveUp
<1> QED
  BY <1>3, <1>4, <1>6, <1>7

\* Condvar::notify and notify_all are Rouse.
LEMMA RousesRouse ==
  ASSUME SenderInv, MutualExclusion, MutualExclusion', NEW c \in CondvarId, NEW waiters, NEW rest,
         Rouses(c, waiters, rest), \A w \in Elems(waiters) : locked[w[1]]
  PROVE  Mon!Rouse(c, Elems(waiters))
<1>1. \A k \in MutexId : Owner(k)' = Owner(k)
  BY RousesOwners, SameOwner
<1>2. /\ \A m \in MutexId :
           Elems(queue'[m])
             = Elems(queue[m]) \cup {u \in Task : locked[m] /\ <<m, u>> \in Elems(waiters)}
      /\ cqueue'[c] = rest /\ \A d \in CondvarId : d # c => cqueue'[d] = cqueue[d]
  BY RousesFacts
<1>3. \A m \in MutexId :
        Elems(queue'[m]) = Elems(queue[m]) \cup {u \in Task : <<m, u>> \in Elems(waiters)}
  BY <1>2
<1>4. Elems(cqueue[c]) = Elems(waiters) \cup Elems(rest) /\ Elems(waiters) \cap Elems(rest) = {}
  BY DEF Rouses
<1>5. Elems(cqueue'[c]) = Elems(cqueue[c]) \ Elems(waiters)
  BY <1>2, <1>4
<1> QED
  BY <1>1, <1>2, <1>3, <1>4, <1>5 DEF Mon!Rouse

\* Initially nobody owns, wants or sleeps.
LEMMA MonitorInit ==
  ASSUME PthreadInit
  PROVE  Mon!Init
<1>1. Elems(<<>>) = {}
  BY DEF Elems
<1>2. \A m \in MutexId : Owner(m) = None
  BY DEF PthreadInit, Init, Owner, Owns
<1> QED
  BY <1>1, <1>2 DEF PthreadInit, Init, Mon!Init

\* Every step is a step of Monitor or changes nothing that Monitor has.
LEMMA MonitorNext ==
  ASSUME NotifyLocked = TRUE, DisciplineInv, DisciplineInv', [PthreadNext]_pthreadVars
  PROVE  [Mon!Next]_(Mon!vars)
<1>1. /\ SenderInv /\ TypeOK /\ InvQueue /\ MutualExclusion /\ MutualExclusion'
  BY DEF DisciplineInv, PthreadInv, SenderInv, OwnerInv
<1>2. ASSUME \A m \in MutexId : Owner(m)' = Owner(m), UNCHANGED <<queue, cqueue>>
      PROVE  UNCHANGED Mon!vars
  <2>1. [k \in MutexId |-> Owner(k)]' = [k \in MutexId |-> Owner(k)]
    BY <1>2
  <2> QED
    BY <1>2, <2>1 DEF Mon!vars
<1>3. CASE UNCHANGED <<locked, queue, cqueue, st, goal, holds>>
  <2>1. \A m \in MutexId : Owner(m)' = Owner(m)
    BY <1>3 DEF Owner, Owns
  <2> QED
    BY <1>2, <1>3, <2>1
<1>4. ASSUME NEW t \in Task, Resume(t)
      PROVE  UNCHANGED Mon!vars
  <2>1. \A m \in MutexId : Owner(m)' = Owner(m)
    BY <1>1, <1>4, ResumeOwners, SameOwner
  <2> QED
    BY <1>2, <1>4, <2>1 DEF Resume
<1>5. ASSUME NEW t \in Task, NEW m \in MutexId,
             TryLock(t, m) \/ LockWait(t, m) \/ Unlock(t, m) \/ \E c \in CondvarId : Wait(t, c, m)
      PROVE  Mon!Next
  <2>1. CASE TryLock(t, m)
    BY <1>1, <2>1, TryLockTakes DEF Mon!Next
  <2>2. CASE LockWait(t, m)
    BY <1>1, <2>2, LockWaitWants DEF Mon!Next
  <2>3. CASE Unlock(t, m)
    <3>1. Owner(m) = t /\ Mon!GiveUp(m) /\ UNCHANGED cqueue
      BY <1>1, <2>3, UnlockGivesUp DEF Unlock
    <3>2. Mon!Release(t, m)
      BY <3>1 DEF Mon!Release
    <3> QED
      BY <3>2 DEF Mon!Next
  <2>4. ASSUME NEW c \in CondvarId, Wait(t, c, m)
        PROVE  Mon!Next
    <3>1. Owner(m) = t /\ Mon!GiveUp(m)
      BY <1>1, <2>4, UnlockGivesUp
    <3>2. /\ cqueue' = [cqueue EXCEPT ![c] = Append(cqueue[c], <<m, t>>)]
          /\ cqueue[c] \in Seq(MutexId \X Task) /\ <<m, t>> \in MutexId \X Task
      BY <1>1, <2>4 DEF Wait, TypeOK
    <3>3. /\ Elems(cqueue'[c]) = Elems(cqueue[c]) \cup {<<m, t>>}
          /\ \A d \in CondvarId : d # c => cqueue'[d] = cqueue[d]
      <4>1. Elems(Append(cqueue[c], <<m, t>>)) = Elems(cqueue[c]) \cup {<<m, t>>}
        BY <3>2, AppendFacts
      <4>2. cqueue'[c] = Append(cqueue[c], <<m, t>>)
        BY <1>1, <3>2 DEF TypeOK
      <4> QED
        BY <1>1, <3>2, <4>1, <4>2 DEF TypeOK
    <3>4. [d \in CondvarId |-> Elems(cqueue[d])]'
            = [[d \in CondvarId |-> Elems(cqueue[d])] EXCEPT ![c] = @ \cup {<<m, t>>}]
      BY <3>3
    <3>5. Mon!Sleep(t, c, m)
      BY <3>1, <3>4 DEF Mon!Sleep
    <3> QED
      BY <3>5 DEF Mon!Next
  <2> QED
    BY <1>5, <2>1, <2>2, <2>3, <2>4
<1>6. ASSUME NEW c \in CondvarId, NEW waiters, NEW rest,
             Rouses(c, waiters, rest), \A w \in Elems(waiters) : locked[w[1]]
      PROVE  Mon!Next
  <2>1. Mon!Rouse(c, Elems(waiters))
    BY <1>1, <1>6, RousesRouse
  <2>2. Elems(waiters) \in SUBSET [d \in CondvarId |-> Elems(cqueue[d])][c]
    BY <1>6 DEF Rouses
  <2> QED
    BY <2>1, <2>2 DEF Mon!Next
<1>7. CASE PthreadNext
  BY <1>3, <1>4, <1>5, <1>6, <1>7, DisciplineSteps
<1>8. CASE UNCHANGED pthreadVars
  BY <1>3, <1>8 DEF pthreadVars, vars
<1> QED
  BY <1>7, <1>8

\* The mutexes and condition variables implement Monitor: a mutex passes from its
\* owner only to a task that waits for it, and who sleeps on a condition variable
\* comes back only notified and owning its mutex; if threads signal with the
\* mutex locked.
THEOREM MonitorImplemented ==
  ASSUME NotifyLocked = TRUE
  PROVE  PthreadSpec => ImplementsMonitor
<1>1. PthreadInit => Mon!Init
  BY MonitorInit
<1>2. DisciplineInv /\ DisciplineInv' /\ [PthreadNext]_pthreadVars => [Mon!Next]_(Mon!vars)
  BY MonitorNext
<1> QED
  BY <1>1, <1>2, Discipline, PTL DEF PthreadSpec, ImplementsMonitor, Mon!Spec

=============================================================================
