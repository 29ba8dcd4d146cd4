------------------------------- MODULE Class -------------------------------
(***************************************************************************)
(* layout.rs and compile/class.rs: the layout of a class in bits, and      *)
(* where its elements are.  A class is its LLVM type (TypeMap::get returns *)
(* the same class for the same type), a named struct being the class of    *)
(* its definition.  Only layout and element look inside a class, and a     *)
(* pointer's layout does not look at its pointee, so a class may contain   *)
(* pointers to itself.                                                     *)
(***************************************************************************)
EXTENDS IR

CONSTANTS
  PtrBits,       \* TypeMapInner.ptr_bits
  StructDefs     \* named structs, as add_module finds them

max(a, b) == IF a >= b THEN a ELSE b

\* The smallest power of two that is at least n.
RECURSIVE power_of_two(_, _)
power_of_two(n, p) == IF p >= n THEN p ELSE power_of_two(n, 2 * p)

\* ((ptr - 1) | (align - 1)) + 1 in wrapping arithmetic, align a power of two.
align_to(ptr, align) == ((ptr + align - 1) \div align) * align

from_bytes(bytes, align) == [bits |-> 8 * bytes, align |-> 8 * align]
of_int(bits) == [bits |-> bits, align |-> power_of_two(max(bits, 8), 1)]
of_func == from_bytes(256, 1)
pad_to_align(l) == [l EXCEPT !.bits = align_to(l.bits, l.align)]
bytes_of(l) == (l.bits + 7) \div 8

\* Mutant: the field is put where the fields before it end.
extend_unaligned(l, packing, other) ==
  [layout |-> [bits |-> l.bits + other.bits, align |-> max(l.align, other.align)],
   offset |-> l.bits]

\* Where the next field goes, and the layout with it.
extend(l, packing, other) ==
  LET offset == CASE packing = "none" -> align_to(l.bits, other.align)
                  [] packing = "bit" -> l.bits
                  [] packing = "byte" -> align_to(l.bits, 8)
  IN [layout |-> [bits |-> offset + other.bits,
                  align |-> IF packing = "none" THEN max(l.align, other.align) ELSE 8],
      offset |-> offset]

repeat(l, packing, n) ==
  CASE packing = "none" -> [bits |-> align_to(l.bits, l.align) * n, align |-> l.align]
    [] packing = "bit" -> [bits |-> l.bits * n, align |-> 8]
    [] packing = "byte" -> [bits |-> align_to(l.bits, 8) * n, align |-> 8]

\* Packing::from(is_packed).
PackingOf(packed) == IF packed THEN "byte" ELSE "none"

-----------------------------------------------------------------------------

\* add_module: the class of a named struct is that of its definition.
Defined(T) == IF T.k = "named" THEN StructDefs[T.name] ELSE T

\* The class of an array is built as a VectorClass.
kind(T) == IF Defined(T).k = "array" THEN "vector" ELSE Defined(T).k

RECURSIVE layout(_)

Field(before, e) == [layout |-> e.layout, offsets |-> Append(before.offsets, e.offset)]

\* The loop of get_inner over the fields of a struct.
Extended(T) ==
  LET f[i \in 0..Len(T.fields)] ==
        IF i = 0 THEN [layout |-> of_int(0), offsets |-> <<>>]
        ELSE Field(f[i - 1], extend(f[i - 1].layout, PackingOf(T.packed), layout(T.fields[i])))
  IN f[Len(T.fields)]

get_inner(T) ==
  CASE T.k = "void" -> from_bytes(0, 1)
    [] T.k \in {"int", "fp"} -> of_int(T.bits)
    [] T.k = "ptr" -> of_int(PtrBits)
    [] T.k = "func" -> of_func
    [] T.k \in {"vector", "array"} ->
         repeat(layout(T.elem), IF T.k = "vector" THEN "bit" ELSE "none", T.len)
    [] T.k = "struct" -> pad_to_align(Extended(T).layout)

layout(T) == get_inner(Defined(T))

NoClass == [k |-> "panic"]
NoElement == [class |-> NoClass, offset |-> 0]

\* An element and its offset in bits.  A VectorClass, of vectors and of arrays
\* alike, puts its elements side by side; it does not look at len.
element_of(T, index) ==
  CASE T.k = "ptr" -> [class |-> T.to, offset |-> pad_to_align(layout(T.to)).bits * index]
    [] T.k \in {"vector", "array"} -> [class |-> T.elem, offset |-> layout(T.elem).bits * index]
    [] T.k = "struct" /\ index + 1 \in DOMAIN T.fields ->
         [class |-> T.fields[index + 1], offset |-> Extended(T).offsets[index + 1]]
    [] OTHER -> NoElement

element(T, index) == element_of(Defined(T), index)

Within(outer, e) == [e EXCEPT !.offset = outer.offset + @]

element_rec(T, indices) ==
  LET f[i \in 0..Len(indices)] ==
        IF i = 0 THEN [class |-> T, offset |-> 0]
        ELSE Within(f[i - 1], element(f[i - 1].class, indices[i]))
  IN f[Len(indices)]
=============================================================================
