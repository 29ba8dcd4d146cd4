----------------------------- MODULE RangeMap -----------------------------
(***************************************************************************)
(* RangeMap (src/src/util/rangemap.rs): a map from half-open ranges to     *)
(* values, kept in a BTreeMap from the end of each range to its start and  *)
(* value.  A map is a function from ends to records [start, value].        *)
(***************************************************************************)
EXTENDS Integers

\* RangeMap::new.
EmptyMap == [k \in {} |-> 0]

\* BTreeMap::insert replaces the entry of an equal key; BTreeMap::remove.
Put(map, end, start, value) ==
  [k \in DOMAIN map \cup {end} |->
     IF k = end THEN [start |-> start, value |-> value] ELSE map[k]]

Remove(map, end) == [k \in DOMAIN map \ {end} |-> map[k]]

\* k is the first key of BTreeMap::range((Excluded(start), Unbounded)).
IsNextKey(map, start, k) ==
  /\ k \in DOMAIN map /\ k > start
  /\ \A l \in DOMAIN map : l > start => k <= l

\* Mutant of Erases: the start of the entry is compared with start, not with end.
ErasesCovering(map, start, end, k) == IsNextKey(map, start, k) /\ map[k].start < start

\* The while loop of RangeMap::erase goes on with the entry that ends at k.
Erases(map, start, end, k) == IsNextKey(map, start, k) /\ map[k].start < end

\* Mutant of EraseRound: what is left before start ends at end.
EraseRoundHead(map, start, end, k) ==
  LET e == map[k]
      m1 == Remove(map, k)
      m2 == IF e.start < start THEN Put(m1, end, e.start, e.value) ELSE m1
  IN  IF end < k THEN Put(m2, k, end, e.value) ELSE m2

\* Mutant of EraseRound: what is left after end starts at start.
EraseRoundKeeps(map, start, end, k) ==
  LET e == map[k]
      m1 == Remove(map, k)
      m2 == IF e.start < start THEN Put(m1, start, e.start, e.value) ELSE m1
  IN  IF end < k THEN Put(m2, k, start, e.value) ELSE m2

\* One round of that loop: the entry is removed and what of it lies before
\* start or after end is put back.
EraseRound(map, start, end, k) ==
  LET e == map[k]
      m1 == Remove(map, k)
      m2 == IF e.start < start THEN Put(m1, start, e.start, e.value) ELSE m1
  IN  IF end < k THEN Put(m2, k, end, e.value) ELSE m2

Lesser(a, b) == IF a < b THEN a ELSE b
Greater(a, b) == IF a < b THEN b ELSE a

\* The entry that ends at k, clipped to start..end.
Clip(map, start, end, k) ==
  [start |-> Greater(start, map[k].start), end |-> Lesser(end, k), value |-> map[k].value]

\* RangeMap::range: the entries after start, clipped, as long as (map_while)
\* no clipped entry is empty.
InRange(map, start, end) ==
  {Clip(map, start, end, k) :
     k \in {l \in DOMAIN map :
              /\ l > start
              /\ \A j \in DOMAIN map : start < j /\ j <= l =>
                   Clip(map, start, end, j).start < Clip(map, start, end, j).end}}
=============================================================================
