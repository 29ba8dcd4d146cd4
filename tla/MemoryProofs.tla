--------------------------- MODULE MemoryProofs ---------------------------
(***************************************************************************)
(* Memory: its type invariant, that the entries of the range map never     *)
(* overlap, and that a load returns what was stored last, for all sets of  *)
(* addresses and lengths and any number of stores.                         *)
(*                                                                         *)
(* LoadsLastStore is not inductive: it speaks of loads between stores, and *)
(* the rounds of RangeMap::erase take entries away that are still in last. *)
(* Agrees says what holds between the rounds: cells and last agree outside *)
(* the range of the store in progress.                                     *)
(***************************************************************************)
EXTENDS Memory, WellFoundedInduction, TLAPS

\* The entry that ends at k covers address a.
At(map, k, a) == k \in DOMAIN map /\ map[k].start <= a /\ a < k

\* The store in progress will overwrite a.
Overwriting(a) == store # NoLog /\ a \in Covers(store)

Agrees ==
  \A a \in Addr : ~Overwriting(a) =>
    /\ \A k \in DOMAIN cells :
         At(cells, k, a) => last[a] = LogByte(cells[k].value, a - cells[k].value.start)
    /\ (\A k \in DOMAIN cells : ~At(cells, k, a)) => last[a] = ZeroByte

\* The store in progress is not empty.
StoreSound == store # NoLog => store.len > 0

IInv == TypeOK /\ StoreSound /\ Disjoint /\ Agrees

\* One round of erase, entry by entry: the other entries stay, and the entry
\* at k is replaced by its parts before start and after end.
Replaced(r, map, start, end, k) ==
  /\ DOMAIN r = (DOMAIN map \ {k})
                  \cup (IF map[k].start < start THEN {start} ELSE {})
                  \cup (IF end < k THEN {k} ELSE {})
  /\ \A l \in DOMAIN map \ {k} : ~(map[k].start < start /\ l = start) => r[l] = map[l]
  /\ map[k].start < start => r[start] = [start |-> map[k].start, value |-> map[k].value]
  /\ end < k => r[k] = [start |-> end, value |-> map[k].value]

\* One round of RangeMap::erase replaces an entry by what of it lies outside the
\* erased range.
LEMMA EraseRoundEntries ==
  ASSUME NEW map, NEW start, NEW end, NEW k, k # start
  PROVE  Replaced(EraseRound(map, start, end, k), map, start, end, k)
<1> DEFINE r == EraseRound(map, start, end, k)
<1> DEFINE m1 == Remove(map, k)
           m2 == IF map[k].start < start THEN Put(m1, start, map[k].start, map[k].value) ELSE m1
<1>1. DOMAIN m1 = DOMAIN map \ {k} /\ \A l \in DOMAIN map \ {k} : m1[l] = map[l]
  BY DEF Remove
<1>2. /\ DOMAIN m2 = (DOMAIN map \ {k}) \cup (IF map[k].start < start THEN {start} ELSE {})
      /\ \A l \in DOMAIN map \ {k} :
           ~(map[k].start < start /\ l = start) => m2[l] = map[l]
      /\ map[k].start < start =>
           m2[start] = [start |-> map[k].start, value |-> map[k].value]
  BY <1>1 DEF Put
<1>3. r = IF end < k THEN Put(m2, k, end, map[k].value) ELSE m2
  BY DEF EraseRound
<1> HIDE DEF m2, r
<1>4. Replaced(r, map, start, end, k)
  BY <1>2, <1>3 DEF Put, Replaced
<1> QED BY <1>4 DEF r

-----------------------------------------------------------------------------
(* The initial state and the steps                                         *)

\* Initially the map is empty and every byte is zero.
LEMMA InitSound == Init => IInv
<1> SUFFICES ASSUME Init PROVE IInv
  OBVIOUS
<1> USE MemoryAssumption
<1>1. DOMAIN cells = {}
  BY DEF Init, EmptyMap
<1>2. TypeOK
  BY <1>1 DEF Init, TypeOK, Logs, NoLog, ZeroByte
<1>3. StoreSound /\ Disjoint
  BY <1>1 DEF Init, StoreSound, Disjoint
<1>4. Agrees
  BY <1>1 DEF Init, Agrees
<1> QED BY <1>2, <1>3, <1>4 DEF IInv

\* align_to never goes down.
LEMMA AlignToAbove ==
  ASSUME NEW ptr \in Nat \ {0}, NEW align \in Nat \ {0}
  PROVE  AlignTo(ptr, align) \in Nat /\ AlignTo(ptr, align) >= ptr
<1>1. (ptr - 1) % align \in 0..(align - 1)
  OBVIOUS
<1> QED BY <1>1 DEF AlignTo

\* align_to yields a multiple of align.
LEMMA AlignToAligned ==
  ASSUME NEW ptr \in Nat \ {0}, NEW align \in Nat \ {0}
  PROVE  AlignTo(ptr, align) % align = 0
<1> DEFINE x == ptr - 1
           q == x \div align
<1>1. x \in Nat /\ q \in Nat /\ x = align * q + (x % align)
  OBVIOUS
<1>2. AlignTo(ptr, align) = align * (q + 1)
  BY <1>1 DEF AlignTo
<1>3. \A n \in Nat : (align * n) % align = 0
  OBVIOUS
<1> QED BY <1>1, <1>2, <1>3

\* Alloc touches neither the cells nor the history of stores.
LEMMA AllocSound ==
  ASSUME IInv, NEW layout \in Layouts, Alloc(layout)
  PROVE  IInv'
<1> USE MemoryAssumption
<1>1. AlignTo(next, layout.align) \in Nat /\ AlignTo(next, layout.align) >= next
  <2>1. next \in Nat \ {0} /\ layout.align \in Nat \ {0}
    BY DEF IInv, TypeOK
  <2> QED BY <2>1, AlignToAbove
<1>2. TypeOK'
  BY <1>1 DEF Alloc, IInv, TypeOK, Blocks
<1>3. StoreSound' /\ Disjoint' /\ Agrees'
  BY DEF Alloc, IInv, StoreSound, Disjoint, Agrees, At, Overwriting, Covers
<1> QED BY <1>2, <1>3 DEF IInv

\* Starting a store leaves the map as it is.
LEMMA StoreSoundStep ==
  ASSUME IInv, NEW ptr \in Addr, NEW len \in Length, Store(ptr, len)
  PROVE  IInv'
<1> USE MemoryAssumption
<1>1. TypeOK'
  BY DEF Store, IInv, TypeOK, Logs, NoLog
<1>2. StoreSound' /\ Disjoint'
  BY DEF Store, IInv, TypeOK, StoreSound, Disjoint, NoLog
<1>3. Agrees'
  BY DEF Store, IInv, Agrees, At, Overwriting
<1> QED BY <1>1, <1>2, <1>3 DEF IInv

\* A round of erase keeps every byte outside the range of the store.
LEMMA EraseSound ==
  ASSUME IInv, Erase
  PROVE  IInv'
<1> USE MemoryAssumption
<1> DEFINE start == store.start
           end == store.start + store.len
<1>1. start \in Nat /\ end \in Nat /\ start < end
  BY DEF IInv, TypeOK, StoreSound, Logs, Erase
<1>2. PICK k \in DOMAIN cells :
        Erases(cells, start, end, k) /\ cells' = EraseRound(cells, start, end, k)
  BY DEF Erase
<1>3. start < k /\ cells[k].start < end /\ k \in Nat /\ cells[k].start \in Nat
        /\ cells[k].start < k
  BY <1>1, <1>2 DEF Erases, IsNextKey, IInv, TypeOK, Disjoint
<1>4. DOMAIN cells \subseteq Nat
  BY DEF IInv, TypeOK
<1> HIDE DEF start, end
<1>5. Replaced(cells', cells, start, end, k)
  <2>1. k # start
    BY <1>1, <1>3
  <2> QED BY <1>2, <2>1, EraseRoundEntries
<1>6. \A l \in DOMAIN cells : cells[k].start < start => l # start
  \* a key below k is at most the start of k's entry, and k is above start
  BY <1>1, <1>3, <1>4 DEF IInv, Disjoint
<1>7. \A l \in DOMAIN cells \ {k} : l \in DOMAIN cells' /\ cells'[l] = cells[l]
  BY <1>5, <1>6 DEF Replaced
<1>8. \A l \in DOMAIN cells' :
        \/ l \in DOMAIN cells \ {k}
        \/ cells[k].start < start /\ l = start
        \/ end < k /\ l = k
  BY <1>5 DEF Replaced
<1>9. UNCHANGED <<store, next, stores, blocks, last>>
  BY DEF Erase
<1>10. TypeOK'
  <2>1. DOMAIN cells' \subseteq Nat
    BY <1>1, <1>3, <1>4, <1>8
  <2>2. ASSUME NEW l \in DOMAIN cells'
        PROVE  /\ cells'[l] \in [start : Nat, value : Logs]
               /\ cells'[l].value.start <= cells'[l].start
               /\ l <= cells'[l].value.start + cells'[l].value.len
    <3>1. /\ cells[k] \in [start : Nat, value : Logs]
          /\ cells[k].value.start <= cells[k].start
          /\ k <= cells[k].value.start + cells[k].value.len
      BY DEF IInv, TypeOK
    <3>2. cells[k].value.start \in Nat /\ cells[k].value.len \in Nat
      BY <3>1 DEF Logs
    <3>3. CASE l \in DOMAIN cells \ {k}
      BY <1>7, <3>3 DEF IInv, TypeOK
    <3>4. CASE cells[k].start < start /\ l = start
      BY <1>1, <1>3, <1>5, <3>1, <3>2, <3>4 DEF Replaced
    <3>5. CASE end < k /\ l = k
      BY <1>1, <1>3, <1>5, <3>1, <3>2, <3>5 DEF Replaced
    <3> QED BY <1>8, <3>3, <3>4, <3>5
  <2> QED BY <1>9, <2>1, <2>2 DEF IInv, TypeOK
<1>11. StoreSound'
  BY <1>9 DEF IInv, StoreSound
<1>12. Disjoint'
  <2>1. ASSUME NEW l \in DOMAIN cells' PROVE cells'[l].start < l
    BY <1>1, <1>3, <1>5, <1>7, <1>8 DEF IInv, Disjoint, Replaced
  <2>2. ASSUME NEW l \in DOMAIN cells', NEW j \in DOMAIN cells', j < l
        PROVE  j <= cells'[l].start
    <3>1. \A x, y \in DOMAIN cells : y < x => y <= cells[x].start
      BY DEF IInv, Disjoint
    <3>2. \A x \in DOMAIN cells : x \in Nat /\ cells[x].start \in Nat
      BY <1>4 DEF IInv, TypeOK
    <3>3. CASE l \in DOMAIN cells \ {k}
      BY <1>1, <1>3, <1>7, <1>8, <2>2, <3>1, <3>2, <3>3
    <3>4. CASE cells[k].start < start /\ l = start
      BY <1>1, <1>3, <1>5, <1>8, <2>2, <3>1, <3>2, <3>4 DEF Replaced
    <3>5. CASE end < k /\ l = k
      BY <1>1, <1>3, <1>5, <1>8, <2>2, <3>1, <3>2, <3>5 DEF Replaced
    <3> QED BY <1>8, <3>3, <3>4, <3>5
  <2> QED BY <2>1, <2>2 DEF Disjoint
<1>13. Agrees'
  <2> SUFFICES ASSUME NEW a \in Addr, ~Overwriting(a)
               PROVE  /\ \A l \in DOMAIN cells' : At(cells', l, a) =>
                           last[a] = LogByte(cells'[l].value, a - cells'[l].value.start)
                      /\ (\A l \in DOMAIN cells' : ~At(cells', l, a)) => last[a] = ZeroByte
    BY <1>9 DEF Agrees, Overwriting, Covers
  <2>1. a \in Nat /\ (a < start \/ end <= a)
    BY <1>1 DEF Overwriting, Covers, Erase, start, end
  <2>2. \A l \in DOMAIN cells : At(cells, l, a) =>
          last[a] = LogByte(cells[l].value, a - cells[l].value.start)
    BY DEF IInv, Agrees
  <2>3. (\A l \in DOMAIN cells : ~At(cells, l, a)) => last[a] = ZeroByte
    BY DEF IInv, Agrees
  <2>4. ASSUME NEW l \in DOMAIN cells', At(cells', l, a)
        PROVE  \E j \in DOMAIN cells : At(cells, j, a) /\ cells'[l].value = cells[j].value
    BY <1>1, <1>3, <1>5, <1>7, <1>8, <2>1, <2>4 DEF At, Replaced
  <2>5. ASSUME NEW j \in DOMAIN cells, At(cells, j, a)
        PROVE  \E l \in DOMAIN cells' : At(cells', l, a)
    <3>1. CASE j # k
      BY <1>7, <2>5, <3>1 DEF At
    <3>2. CASE j = k /\ a < start
      BY <1>1, <1>3, <1>5, <2>1, <2>5, <3>2 DEF At, Replaced
    <3>3. CASE j = k /\ end <= a
      BY <1>1, <1>3, <1>5, <2>1, <2>5, <3>3 DEF At, Replaced
    <3> QED BY <2>1, <3>1, <3>2, <3>3
  <2> QED BY <2>2, <2>3, <2>4, <2>5
<1> QED BY <1>10, <1>11, <1>12, <1>13 DEF IInv

\* The least-number principle, from the well-foundedness of < on Nat.
LEMMA SmallestNat ==
  ASSUME NEW S, S \subseteq Nat, S # {}
  PROVE  \E m \in S : \A l \in S : m <= l
<1>1. PICK m \in S : \A l \in S : <<l, m>> \notin OpToRel(<, Nat)
  BY NatLessThanWellFounded, WFMin
<1>2. \A l \in S : ~(l < m)
  BY <1>1, Zenon DEF OpToRel
<1> QED BY <1>2

\* When erase has ended, no entry reaches into the range of the store.
LEMMA ErasedClear ==
  ASSUME TypeOK, Disjoint, StoreSound, store # NoLog,
         \A k \in DOMAIN cells : ~Erases(cells, store.start, store.start + store.len, k)
  PROVE  \A k \in DOMAIN cells : k <= store.start \/ store.start + store.len <= cells[k].start
<1> DEFINE start == store.start
           end == store.start + store.len
<1>1. start \in Nat /\ end \in Nat /\ start < end
  BY DEF TypeOK, StoreSound, Logs
<1>2. \A k \in DOMAIN cells : k \in Nat /\ cells[k].start \in Nat
  BY DEF TypeOK
<1> HIDE DEF start, end
<1> SUFFICES ASSUME NEW k \in DOMAIN cells, start < k
             PROVE  end <= cells[k].start
  BY <1>1, <1>2 DEF start, end
<1> DEFINE above == {l \in DOMAIN cells : l > start}
<1>3. PICK j \in above : \A l \in above : j <= l
  <2>1. above \subseteq Nat /\ k \in above
    BY <1>1, <1>2
  <2> HIDE DEF above
  <2> QED BY <2>1, SmallestNat
<1>4. IsNextKey(cells, start, j)
  BY <1>1, <1>2, <1>3 DEF IsNextKey
<1>5. end <= cells[j].start
  BY <1>1, <1>2, <1>3, <1>4 DEF Erases, start, end
<1>6. CASE k = j
  BY <1>5, <1>6
<1>7. CASE j < k
  BY <1>1, <1>2, <1>3, <1>5, <1>7 DEF Disjoint
<1> QED BY <1>1, <1>2, <1>3, <1>6, <1>7

\* The insertion fills exactly the range that has been erased.
LEMMA InsertSound ==
  ASSUME IInv, Insert
  PROVE  IInv'
<1> USE MemoryAssumption
<1> DEFINE start == store.start
           end == store.start + store.len
<1>1. start \in Nat /\ end \in Nat /\ start < end /\ store \in Logs
  BY DEF IInv, TypeOK, StoreSound, Logs, Insert
<1>2. \A k \in DOMAIN cells : k <= start \/ end <= cells[k].start
  BY ErasedClear DEF IInv, Insert
<1>3. \A k \in DOMAIN cells : k \in Nat /\ cells[k].start \in Nat /\ cells[k].start < k
  BY DEF IInv, TypeOK, Disjoint
<1>4. cells' = Put(cells, end, start, store)
  BY DEF Insert
<1>5. /\ store' = NoLog
      /\ last' = [a \in Addr |-> IF a \in Covers(store) THEN LogByte(store, a - start)
                                ELSE last[a]]
      /\ UNCHANGED <<next, stores, blocks>>
  BY DEF Insert
<1>6. \A a \in Addr : a \in Covers(store) <=> start <= a /\ a < end
  BY DEF Covers
<1> HIDE DEF start, end
<1>7. /\ DOMAIN cells' = DOMAIN cells \cup {end}
      /\ cells'[end] = [start |-> start, value |-> store]
      /\ \A k \in DOMAIN cells : k # end /\ cells'[k] = cells[k]
  BY <1>1, <1>2, <1>3, <1>4 DEF Put
<1>8. TypeOK'
  <2>1. DOMAIN cells' \subseteq Nat
    BY <1>1, <1>3, <1>7
  <2>2. \A k \in DOMAIN cells' :
          /\ cells'[k] \in [start : Nat, value : Logs]
          /\ cells'[k].value.start <= cells'[k].start
          /\ k <= cells'[k].value.start + cells'[k].value.len
    BY <1>1, <1>7 DEF IInv, TypeOK, start, end
  <2>3. last' \in [Addr -> Nat \X Nat]
    BY <1>1, <1>5, <1>6 DEF IInv, TypeOK, LogByte, Logs
  <2> QED BY <1>5, <2>1, <2>2, <2>3 DEF IInv, TypeOK, NoLog, Logs
<1>9. StoreSound'
  BY <1>5 DEF StoreSound, NoLog
<1>10. Disjoint'
  BY <1>1, <1>2, <1>3, <1>7 DEF IInv, Disjoint
<1>11. Agrees'
  <2> SUFFICES ASSUME NEW a \in Addr
               PROVE  /\ \A k \in DOMAIN cells' : At(cells', k, a) =>
                           last'[a] = LogByte(cells'[k].value, a - cells'[k].value.start)
                      /\ (\A k \in DOMAIN cells' : ~At(cells', k, a)) => last'[a] = ZeroByte
    BY DEF Agrees
  <2>1. a \in Nat
    OBVIOUS
  <2>2. CASE a \in Covers(store)
    <3>1. last'[a] = LogByte(store, a - start) /\ start <= a /\ a < end
      BY <1>5, <1>6, <2>2
    <3>2. At(cells', end, a)
      BY <1>7, <3>1 DEF At
    <3>3. \A k \in DOMAIN cells' : At(cells', k, a) => k = end
      BY <1>1, <1>2, <1>3, <1>7, <2>1, <3>1 DEF At
    <3> QED BY <1>7, <3>1, <3>2, <3>3 DEF start
  <2>3. CASE a \notin Covers(store)
    <3>1. last'[a] = last[a] /\ ~(start <= a /\ a < end) /\ ~Overwriting(a)
      BY <1>5, <1>6, <2>3 DEF Overwriting
    <3>2. ~At(cells', end, a)
      BY <1>7, <3>1 DEF At
    <3>3. \A k \in DOMAIN cells : At(cells', k, a) <=> At(cells, k, a)
      BY <1>7 DEF At
    <3> QED BY <1>7, <3>1, <3>2, <3>3 DEF IInv, Agrees
  <2> QED BY <2>2, <2>3
<1> QED BY <1>8, <1>9, <1>10, <1>11 DEF IInv

-----------------------------------------------------------------------------
(* Loads                                                                   *)

\* Between stores, every load agrees with last.
LEMMA LoadSound == IInv => LoadsLastStore
<1> USE MemoryAssumption
<1> SUFFICES ASSUME IInv, store = NoLog,
                    NEW ptr \in Addr, NEW len \in Length, NEW a \in Addr,
                    ptr <= a, a < ptr + len
             PROVE  LoadByte(ptr, ptr + len, a) = last[a]
  BY DEF LoadsLastStore
<1> DEFINE end == ptr + len
           pieces == {p \in InRange(cells, ptr, end) : p.start <= a /\ a < p.end}
<1>1. ptr \in Nat /\ end \in Nat /\ a \in Nat /\ ptr <= a /\ a < end
  OBVIOUS
<1>2. \A k \in DOMAIN cells : k \in Nat /\ cells[k].start \in Nat /\ cells[k].start < k
  BY DEF IInv, TypeOK, Disjoint
<1>3. /\ \A k \in DOMAIN cells :
           At(cells, k, a) => last[a] = LogByte(cells[k].value, a - cells[k].value.start)
      /\ (\A k \in DOMAIN cells : ~At(cells, k, a)) => last[a] = ZeroByte
  BY DEF IInv, Agrees, Overwriting
<1> HIDE DEF end
<1>4. ASSUME NEW p \in pieces
      PROVE  \E k \in DOMAIN cells : At(cells, k, a) /\ p = Clip(cells, ptr, end, k)
  BY <1>1, <1>2 DEF InRange, Clip, Greater, Lesser, At
<1>5. ASSUME NEW k \in DOMAIN cells, At(cells, k, a)
      PROVE  Clip(cells, ptr, end, k) \in pieces
  <2>1. k > ptr /\ cells[k].start <= a /\ a < k
    BY <1>1, <1>2, <1>5 DEF At
  <2>2. ASSUME NEW j \in DOMAIN cells, ptr < j, j <= k
        PROVE  Clip(cells, ptr, end, j).start < Clip(cells, ptr, end, j).end
    <3>1. cells[j].start < j /\ cells[j].start <= a
      BY <1>1, <1>2, <2>1, <2>2 DEF IInv, Disjoint
    <3> QED BY <1>1, <1>2, <2>2, <3>1 DEF Clip, Greater, Lesser
  <2>3. Clip(cells, ptr, end, k) \in InRange(cells, ptr, end)
    BY <2>1, <2>2 DEF InRange
  <2> QED BY <1>1, <1>2, <2>1, <2>3 DEF Clip, Greater, Lesser
<1>6. CASE pieces = {}
  BY <1>3, <1>5, <1>6 DEF LoadByte, end
<1>7. CASE pieces # {}
  <2> DEFINE p == CHOOSE q \in pieces : TRUE
  <2>1. p \in pieces
    BY <1>7
  <2>2. PICK k \in DOMAIN cells : At(cells, k, a) /\ p = Clip(cells, ptr, end, k)
    BY <1>4, <2>1
  <2>3. LoadByte(ptr, end, a) = PieceByte(p, a)
    BY <1>7 DEF LoadByte
  <2> HIDE DEF p
  <2>4. p.value = cells[k].value /\ p.start \in Nat /\ p.value.start \in Nat
    BY <1>1, <1>2, <2>2 DEF Clip, Greater, IInv, TypeOK, Logs
  <2>5. PieceByte(p, a) = LogByte(cells[k].value, a - cells[k].value.start)
    BY <1>1, <2>4 DEF PieceByte, LogByte
  <2> QED BY <1>3, <2>2, <2>3, <2>5 DEF end
<1> QED BY <1>6, <1>7

-----------------------------------------------------------------------------
(* Theorems                                                                *)

\* The invariant holds in every reachable state.
LEMMA Inductive == Spec => []IInv
<1>1. ASSUME IInv, [Next]_vars PROVE IInv'
  <2>1. CASE UNCHANGED vars
    BY <1>1, <2>1 DEF vars, IInv, TypeOK, StoreSound, Disjoint, Agrees, At, Overwriting, Covers
  <2>2. CASE Next
    BY <1>1, <2>2, AllocSound, StoreSoundStep, EraseSound, InsertSound DEF Next
  <2> QED BY <1>1, <2>1, <2>2
<1> QED BY <1>1, InitSound, PTL DEF Spec

\* memory.rs and rangemap.rs: types, and every entry lies within its log, so
\* the slices of load_impl are always in bounds.
THEOREM TypeCorrect == Spec => []TypeOK
<1>1. IInv => TypeOK
  BY DEF IInv
<1> QED BY <1>1, Inductive, PTL

\* rangemap.rs: the entries never overlap, after every insert and between the
\* rounds of erase.
THEOREM EntriesDisjoint == Spec => []Disjoint
<1>1. IInv => Disjoint
  BY DEF IInv
<1> QED BY <1>1, Inductive, PTL

\* memory.rs: load_impl returns what store_impl stored last, for every sequence
\* of stores of any lengths.
THEOREM LoadsAreLast == Spec => []LoadsLastStore
<1> QED BY LoadSound, Inductive, PTL

\* Every block ends, guard included, at or below next.
BlocksBelow ==
  \A i \in 1..Len(blocks) : blocks[i].start + blocks[i].len + HEAP_GUARD <= next

\* memory.rs, alloc: blocks are aligned and separated by HEAP_GUARD, for every
\* sequence of sizes and alignments.
THEOREM AllocSeparates == Spec => []BlocksApart
<1> DEFINE Inv == BlocksBelow /\ BlocksApart
<1>1. Init => Inv
  BY DEF Init, BlocksBelow, BlocksApart
<1>2. ASSUME TypeOK, Inv, [Next]_vars PROVE Inv'
  <2>1. ASSUME NEW layout \in Layouts, Alloc(layout) PROVE Inv'
    <3> DEFINE len == layout.bytes
               align == layout.align
               result == AlignTo(next, align)
               b == [start |-> result, len |-> len, align |-> align]
    <3>1. next \in Nat \ {0} /\ align \in Nat \ {0} /\ len \in Nat /\ HEAP_GUARD \in Nat
      BY <1>2, MemoryAssumption DEF TypeOK
    <3>2. result \in Nat /\ result >= next /\ result % align = 0
      BY <3>1, AlignToAbove, AlignToAligned
    <3>3. next' = result + len + HEAP_GUARD /\ blocks' = Append(blocks, b)
      BY <2>1 DEF Alloc
    <3> HIDE DEF len, align, result
    <3>4. /\ Len(blocks') = Len(blocks) + 1 /\ Len(blocks) \in Nat
          /\ blocks'[Len(blocks) + 1] = b
          /\ \A i \in 1..Len(blocks) : blocks'[i] = blocks[i]
      BY <1>2, <3>1, <3>2, <3>3 DEF TypeOK
    <3>5. \A i \in 1..Len(blocks) :
            blocks[i].start \in Nat /\ blocks[i].len \in Nat /\ blocks[i].align \in Nat \ {0}
      <4>1. \A i \in 1..Len(blocks) : blocks[i] \in Blocks
        BY <1>2 DEF TypeOK
      <4> QED BY <4>1 DEF Blocks
    <3>6. BlocksBelow'
      BY <1>2, <3>1, <3>2, <3>3, <3>4, <3>5 DEF BlocksBelow
    <3>7. BlocksApart'
      BY <1>2, <3>1, <3>2, <3>3, <3>4, <3>5 DEF BlocksBelow, BlocksApart
    <3> QED BY <3>6, <3>7
  <2>2. CASE UNCHANGED <<next, blocks>>
    BY <1>2, <2>2 DEF BlocksBelow, BlocksApart
  <2> QED BY <1>2, <2>1, <2>2 DEF Next, Store, Erase, Insert, vars
<1>3. Inv => BlocksApart
  OBVIOUS
<1> QED BY <1>1, <1>2, <1>3, TypeCorrect, PTL DEF Spec
=============================================================================
