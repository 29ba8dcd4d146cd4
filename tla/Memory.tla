------------------------------ MODULE Memory ------------------------------
(***************************************************************************)
(* The simulated memory (src/src/memory.rs): a bump allocator and a        *)
(* RangeMap of logs, one log per store.  A store is several steps here,    *)
(* one per round of RangeMap::erase; nothing runs between them in the      *)
(* code (the RefCell is borrowed), and no other action is enabled.         *)
(*                                                                         *)
(* The byte at offset o of the value of store n is modelled by <<n, o>>.   *)
(***************************************************************************)
EXTENDS RangeMap, Sequences

CONSTANTS
  Addr,        \* the simulated addresses that are stored to
  Length,      \* the lengths, in bytes, of stores and loads
  Layouts,     \* the layouts to allocate: their bytes and their byte alignments
  HEAP_GUARD,  \* memory.rs:37
  HeapStart,   \* the initial value of next
  MaxStores,   \* bound on the number of stores
  MaxBlocks    \* bound on the number of allocations

ASSUME MemoryAssumption ==
  /\ Addr \subseteq Nat
  /\ Length \subseteq Nat
  /\ Layouts \subseteq [bytes : Nat, align : Nat \ {0}]
  /\ HEAP_GUARD \in Nat
  /\ HeapStart \in Nat \ {0}
  /\ MaxStores \in Nat /\ MaxBlocks \in Nat

VARIABLES
  cells,   \* MemoryInner.cells
  store,   \* the log being inserted, or NoLog
  next,    \* MemoryInner.next
  stores,  \* the number of stores so far
  blocks,  \* history: the blocks handed out
  last     \* history: per address, the byte last stored there

vars == <<cells, store, next, stores, blocks, last>>

\* LogInner, with its identity (ByAddress) and the length of its value; pred is
\* never read and left out.
Logs == [start : Nat, len : Nat, id : Nat]
NoLog == [start |-> 0, len |-> 0, id |-> 0]

\* The byte at offset o of LogInner.value, and what Value::zero is made of.
LogByte(log, o) == <<log.id, o>>
ZeroByte == <<0, 0>>

Blocks == [start : Nat, len : Nat, align : Nat \ {0}]

\* Every variable has its type, and every entry of the range map lies within
\* its log, so that load_impl indexes the log's value in bounds.
TypeOK ==
  /\ DOMAIN cells \subseteq Nat
  /\ \A k \in DOMAIN cells :
       LET log == cells[k].value
       IN  /\ cells[k] \in [start : Nat, value : Logs]
           /\ log.start <= cells[k].start /\ k <= log.start + log.len
  /\ store \in Logs
  /\ next \in Nat \ {0}
  /\ stores \in Nat
  /\ blocks \in Seq(Blocks)
  /\ last \in [Addr -> Nat \X Nat]

\* Memory::new.
Init ==
  /\ cells = EmptyMap
  /\ store = NoLog
  /\ next = HeapStart
  /\ stores = 0
  /\ blocks = <<>>
  /\ last = [a \in Addr |-> ZeroByte]

-----------------------------------------------------------------------------
(* Memory::alloc                                                           *)

\* Mutant of AlignTo: rounds down.
AlignToBelow(ptr, align) == ptr - (ptr % align)

\* layout.rs, align_to: ((ptr - 1) | (align - 1)) + 1, where ptr is not 0 and
\* align is a power of two, so that the or fills the low bits.
AlignTo(ptr, align) == (ptr - 1) - ((ptr - 1) % align) + align

Alloc(layout) ==
  /\ store = NoLog
  /\ Len(blocks) < MaxBlocks
  /\ LET result == AlignTo(next, layout.align)
     IN  /\ next' = result + layout.bytes + HEAP_GUARD
         /\ blocks' = Append(blocks, [start |-> result, len |-> layout.bytes,
                                      align |-> layout.align])
  /\ UNCHANGED <<cells, store, stores, last>>

-----------------------------------------------------------------------------
(* Memory::store_impl and RangeMap::insert                                 *)

Covers(log) == {a \in Addr : log.start <= a /\ a < log.start + log.len}

\* A log is made; RangeMap::insert of an empty range returns at once.
Store(ptr, len) ==
  /\ store = NoLog
  /\ stores < MaxStores
  /\ stores' = stores + 1
  /\ store' = IF len = 0 THEN NoLog ELSE [start |-> ptr, len |-> len, id |-> stores + 1]
  /\ UNCHANGED <<cells, next, blocks, last>>

\* One round of RangeMap::erase.
Erase ==
  /\ store # NoLog
  /\ \E k \in DOMAIN cells :
       /\ Erases(cells, store.start, store.start + store.len, k)
       /\ cells' = EraseRound(cells, store.start, store.start + store.len, k)
  /\ UNCHANGED <<store, next, stores, blocks, last>>

\* Nothing is left to erase: the log goes into the map.
Insert ==
  /\ store # NoLog
  /\ \A k \in DOMAIN cells : ~Erases(cells, store.start, store.start + store.len, k)
  /\ cells' = Put(cells, store.start + store.len, store.start, store)
  /\ store' = NoLog
  /\ last' = [a \in Addr |-> IF a \in Covers(store) THEN LogByte(store, a - store.start)
                             ELSE last[a]]
  /\ UNCHANGED <<next, stores, blocks>>

Next ==
  \/ \E layout \in Layouts : Alloc(layout)
  \/ \E ptr \in Addr, len \in Length : (ptr..(ptr + len - 1)) \subseteq Addr /\ Store(ptr, len)
  \/ Erase
  \/ Insert

\* The loop of RangeMap::erase is synchronous code: it runs until it ends.
Spec == Init /\ [][Next]_vars /\ WF_vars(Erase) /\ WF_vars(Insert)

-----------------------------------------------------------------------------
(* Memory::load_impl                                                       *)

\* Mutant of PieceByte: the offset is counted from the piece, not from its log.
PieceByteFromPiece(p, a) == LogByte(p.value, a - p.start)

\* copy_from_slice: the byte of piece p at address a, at offset
\* (p.start - log.start) + (a - p.start) of its log.
PieceByte(p, a) == LogByte(p.value, (p.start - p.value.start) + (a - p.start))

\* The byte a load of [ptr, end) has at address a: zero unless a piece of the
\* range map has been copied over it.
LoadByte(ptr, end, a) ==
  LET pieces == {p \in InRange(cells, ptr, end) : p.start <= a /\ a < p.end}
  IN  IF pieces = {} THEN ZeroByte ELSE PieceByte(CHOOSE p \in pieces : TRUE, a)

-----------------------------------------------------------------------------
(* Properties                                                              *)

\* The entries of the range map are never empty and never overlap, not even
\* between two rounds of erase: the remainders RangeMap::erase puts back never
\* replace another entry.
Disjoint ==
  \A k \in DOMAIN cells :
    /\ cells[k].start < k
    /\ \A l \in DOMAIN cells : l < k => l <= cells[k].start

\* A load of any range returns, byte for byte, what was stored there last, or
\* zero, however often later stores have cut up the log that holds it.
LoadsLastStore ==
  store = NoLog =>
    \A ptr \in Addr, len \in Length :
      \A a \in Addr : ptr <= a /\ a < ptr + len => LoadByte(ptr, ptr + len, a) = last[a]

\* Blocks handed out are aligned, and each lies at least HEAP_GUARD above all
\* earlier ones, whatever the sequence of sizes and alignments.
BlocksApart ==
  \A j \in 1..Len(blocks) :
    /\ blocks[j].start % blocks[j].align = 0
    /\ \A i \in 1..(j - 1) : blocks[i].start + blocks[i].len + HEAP_GUARD <= blocks[j].start

\* Every store completes: the loop of RangeMap::erase ends.
StoreCompletes == store # NoLog ~> store = NoLog
=============================================================================
