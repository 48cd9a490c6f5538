------------------------------ MODULE WatchCache -----------------------------
(***************************************************************************)
(* The cache of recent events (pkg/backend/ring.go) as operators on its    *)
(* value: a ring of CacheSize events with the running positions s (oldest) *)
(* and e (next).  An event is its revision.                                *)
(***************************************************************************)
EXTENDS Integers, Sequences

CONSTANT CacheSize       \* Config.WatchCacheSize, the length of the ring

ASSUME CacheAssumption == CacheSize \in Nat \ {0}

Index(i) == i % CacheSize

NewRing == [s |-> 0, e |-> 0, arr |-> [i \in 0 .. (CacheSize - 1) |-> 0]]

\* Mutant of Add: the oldest position is not moved on when it is overwritten.
Add_KeepOldest(r, event) ==
  [s |-> r.s, e |-> r.e + 1, arr |-> [r.arr EXCEPT ![Index(r.e)] = event]]

Add(r, event) ==
  [s |-> IF r.e = r.s + CacheSize THEN r.s + 1 ELSE r.s,
   e |-> r.e + 1,
   arr |-> [r.arr EXCEPT ![Index(r.e)] = event]]

IsEmpty(r) == r.e = 0
Newest(r) == r.arr[Index(r.e - 1)]
Oldest(r) == r.arr[Index(r.s)]

\* sort.Search over the positions from s on: the first event not below
\* revision, or the number of events.
Search(r, revision) ==
  LET n == r.e - r.s
      found(i) == r.arr[Index(r.s + i)] >= revision
  IN CHOOSE i \in 0 .. n : (i < n => found(i)) /\ \A j \in 0 .. (i - 1) : ~found(j)

\* A slice of the underlying array, as Go's arr[from:to].
Slice(r, from, to) == [i \in 1 .. (to - from) |-> r.arr[from + i - 1]]

\* The two copies at the end of FindEvents: one slice, or the end of the array
\* and its beginning.
CachedFrom(r, idx) ==
  LET from == Index(r.s + idx)
      to == Index(r.e)
  IN IF to > from THEN Slice(r, from, to)
     ELSE Slice(r, from, CacheSize) \o Slice(r, 0, to)

\* FindEvents: kind is the flag of FindRet that is set, if any.
FindEvents(r, revision) ==
  IF IsEmpty(r) THEN [kind |-> "empty", events |-> <<>>]
  ELSE IF revision > Newest(r) THEN [kind |-> "high", events |-> <<>>]
  ELSE IF revision < Oldest(r) THEN [kind |-> "low", events |-> <<>>]
  ELSE [kind |-> "found", events |-> CachedFrom(r, Search(r, revision))]
=============================================================================
