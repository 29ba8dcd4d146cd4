------------------------------ MODULE FreeList ------------------------------
(***************************************************************************)
(* util/freelist.rs: counted references to cells that are reused.  A heap  *)
(* has cells (each with a count that is one less than its references, and  *)
(* a value) and the stack of free cells.  A freed cell keeps its value,    *)
(* and the references in it, until alloc overwrites it.                    *)
(*                                                                         *)
(* A reference is [cell, v]: cell 0 stands for a cell of a list of its own *)
(* that only holds the constant v (Thunk::constant); such cells are not    *)
(* reused while the compiled program exists, and are not counted here.     *)
(***************************************************************************)
EXTENDS SeqFold, SequencesExt

EmptyHeap == [cells |-> <<>>, free |-> <<>>]

Ref(c) == [cell |-> c, v |-> 0]
ConstantRef(v) == [cell |-> 0, v |-> v]

\* The references in a value of a cell (a thunk's dependencies, its address,
\* what its closure captured).
Holds(value) == value.deps \o value.addr \o value.caps

clone(h, x) == IF x.cell = 0 THEN h ELSE [h EXCEPT !.cells[x.cell].refcount = @ + 1]

\* Mutant: the count is decremented to zero before the cell is freed.
drop_late(h, x) ==
  IF x.cell = 0 THEN h
  ELSE IF h.cells[x.cell].refcount > 1
       THEN [h EXCEPT !.cells[x.cell].refcount = @ - 1]
       ELSE [h EXCEPT !.free = Append(@, x.cell)]

\* Mutant: the last reference to go frees the cell twice.
drop_twice(h, x) ==
  IF x.cell = 0 THEN h
  ELSE IF h.cells[x.cell].refcount > 0
       THEN [h EXCEPT !.cells[x.cell].refcount = @ - 1]
       ELSE [h EXCEPT !.free = @ \o <<x.cell, x.cell>>]

drop(h, x) ==
  IF x.cell = 0 THEN h
  ELSE IF h.cells[x.cell].refcount > 0
       THEN [h EXCEPT !.cells[x.cell].refcount = @ - 1]
       ELSE [h EXCEPT !.free = Append(@, x.cell)]

clone_all(h, xs) == Fold(clone, h, xs)
drop_all(h, xs) == Fold(drop, h, xs)

alloc(h, value) ==
  IF h.free = <<>>
  THEN [heap |-> [h EXCEPT !.cells = Append(@, [refcount |-> 0, value |-> value])],
        cell |-> Len(h.cells) + 1]
  ELSE LET c == Last(h.free)
           popped == [h EXCEPT !.free = Front(@)]
           dropped == drop_all(popped, Holds(h.cells[c].value))
       IN [heap |-> [dropped EXCEPT !.cells[c].value = value], cell |-> c]
=============================================================================
