------------------------------- MODULE Value -------------------------------
(***************************************************************************)
(* value.rs: a value is a number of bits and the bytes that hold them,     *)
(* here bit by bit, lowest first: imp has 8 * ceil(bits / 8) bits, and the *)
(* ones beyond bits are padding.  A failing assertion, an index out of     *)
(* bounds and a todo!() give Panicked instead of a value.                  *)
(***************************************************************************)
EXTENDS Class

Panicked == [bits |-> -1, imp |-> <<>>]

\* The lowest w bits of an integer in two's complement.  (2^30 is the largest
\* power TLC can compute; the bits above are those of the sign.)
Bits(n, w) ==
  [i \in 1..w |-> IF i > 30 THEN IF n < 0 THEN 1 ELSE 0 ELSE (n \div 2^(i - 1)) % 2]

Number(bits) ==
  LET sum[i \in 0..Len(bits)] == IF i = 0 THEN 0
                               ELSE sum[i - 1] + (IF bits[i] = 0 THEN 0 ELSE 2^(i - 1))
  IN sum[Len(bits)]

Zeros(n) == [i \in 1..n |-> 0]
ImpLen(bits) == 8 * ((bits + 7) \div 8)

zero(bits) == [bits |-> bits, imp |-> Zeros(ImpLen(bits))]
from_bits(s) == [bits |-> Len(s), imp |-> s \o Zeros(ImpLen(Len(s)) - Len(s))]
new(bits, n) == from_bits(Bits(n, bits))
\* From<bool>, From<u8>, From<i8> and so on.
from_bool(b) == new(1, IF b THEN 1 ELSE 0)

\* bytes is a sequence of bytes, each a sequence of eight bits; padding is kept.
Join(bytes) ==
  LET f[i \in 0..Len(bytes)] == IF i = 0 THEN <<>> ELSE f[i - 1] \o bytes[i] IN f[Len(bytes)]
from_bytes_of(bytes, bits) == [bits |-> bits, imp |-> Join(bytes)]
as_bytes(v) == [i \in 1..(Len(v.imp) \div 8) |-> SubSeq(v.imp, 8 * i - 7, 8 * i)]

\* All of imp, the padding too.
as_u128(v) == Number(v.imp)

\* The signed view, which the code has for these widths (as_i128 is todo!() for
\* others); computed without 2^bits, which is too large for TLC when bits is 32.
RustWidths == {8, 16, 32, 64, 128}
has_signed(v) == v.bits \in RustWidths
signed(v) ==
  IF v.imp[v.bits] = 0 THEN Number(SubSeq(v.imp, 1, v.bits - 1))
  ELSE -1 - Number([i \in 1..(v.bits - 1) |-> 1 - v.imp[i]])

\* unwrap_int asserts the width.
is_bool(v) == v.bits = 1
unwrap_bool(v) == as_u128(v) # 0

\* self[a..b]
slice(v, a, b) == SubSeq(v.imp, a + 1, b)

\* Byte-aligned pieces are copied by the byte, others by the bit.
extract_bits(v, offset, len) ==
  IF offset % 8 = 0 /\ len % 8 = 0
  THEN IF offset + len > Len(v.imp) THEN Panicked
       ELSE [bits |-> len, imp |-> slice(v, offset, offset + len)]
  ELSE IF offset + len > v.bits THEN Panicked
       ELSE from_bits(slice(v, offset, offset + len))

insert_bits(v, offset, x) ==
  IF offset < 0 \/ offset + x.bits > v.bits THEN Panicked
  ELSE [v EXCEPT !.imp = [i \in DOMAIN @ |->
          IF i > offset /\ i <= offset + x.bits THEN x.imp[i - offset] ELSE @[i]]]

\* With e an element of the value's class.
extract_element(v, e) == extract_bits(v, e.offset, layout(e.class).bits)
insert_element(v, e, x) ==
  IF v = Panicked \/ x = Panicked \/ layout(e.class).bits # x.bits THEN Panicked
  ELSE insert_bits(v, e.offset, x)

extract(v, class, index) == extract_element(v, element(class, index))
\* insert asserts that the value has the size of the element.
insert(v, class, index, x) == insert_element(v, element(class, index), x)

aggregate(class, vs) ==
  LET f[i \in 0..Len(vs)] == IF i = 0 THEN zero(layout(class).bits)
                             ELSE insert_bits(f[i - 1], element(class, i - 1).offset, vs[i])
  IN f[Len(vs)]

\* Mutant: the bytes are taken as they are, padding included.
ucast_bytes(v, l) ==
  [bits |-> l.bits, imp |-> [i \in 1..ImpLen(l.bits) |-> IF i <= Len(v.imp) THEN v.imp[i] ELSE 0]]

ucast(v, l) == from_bits([i \in 1..l.bits |-> IF i <= v.bits THEN v.imp[i] ELSE 0])
=============================================================================
