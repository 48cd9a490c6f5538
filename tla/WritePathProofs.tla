--------------------------- MODULE WritePathProofs ---------------------------
(***************************************************************************)
(* Index and versions of a key agree, revisions of a key ascend, and       *)
(* compaction stays below every write that is open and changes no read it  *)
(* should not, for any keys, requests, faults and capacity of the ring:    *)
(* the inductive invariant, that each step keeps it, and what follows.     *)
(* Then a second invariant, for rewrites of the retry loop that are        *)
(* effective when they return: a client that lists and watches misses      *)
(* nothing.                                                                *)
(***************************************************************************)
EXTENDS WritePath, TLAPS

-----------------------------------------------------------------------------
(* The slots of watchEventsRingBuffer.                                     *)

\* Quotient and remainder, as the provers know them.
LEMMA DivMod ==
  ASSUME NEW n \in Nat, NEW c \in Nat \ {0}
  PROVE  /\ n \div c \in Int
         /\ n % c \in 0 .. (c - 1)
         /\ n = c * (n \div c) + (n % c)
OBVIOUS

\* Two multiples of c that are less than c apart are equal.
LEMMA NoMultipleBetween ==
  ASSUME NEW c \in Nat \ {0}, NEW p \in Int, NEW q \in Int,
         c * p <= c * q, c * q - c * p < c
  PROVE  p = q
<1>1. c * (q - p) = c * q - c * p
  OBVIOUS
<1>2. CASE q - p >= 1
  <2>1. c * (q - p) >= c
    BY <1>2
  <2> QED BY <1>1, <2>1
<1>3. CASE q - p <= -1
  <2>1. c * (q - p) <= -c
    BY <1>3
  <2> QED BY <1>1, <2>1
<1> QED BY <1>2, <1>3

\* Slot yields a position of watchEventsRingBuffer.
LEMMA SlotInSlots ==
  ASSUME NEW r \in Nat
  PROVE  Slot(r) \in Slots
BY CapacityAssumption DEF Slot, Slots

\* Two revisions less than Capacity apart that share a slot are the same.
LEMMA SlotDetermines ==
  ASSUME NEW a \in Nat, NEW b \in Nat, Slot(a) = Slot(b),
         a <= b, b - a < Capacity
  PROVE  a = b
<1> DEFINE p == a \div Capacity
           q == b \div Capacity
<1>1. p \in Int /\ q \in Int
  BY CapacityAssumption, DivMod
<1>2. a = Capacity * p + (a % Capacity) /\ b = Capacity * q + (b % Capacity)
  BY CapacityAssumption, DivMod
<1>3. a % Capacity = b % Capacity /\ a % Capacity \in Int /\ b % Capacity \in Int
  BY CapacityAssumption, DivMod DEF Slot
<1>4. Capacity * p \in Int /\ Capacity * q \in Int
  BY <1>1, CapacityAssumption
<1> HIDE DEF p, q
<1>5. Capacity * p <= Capacity * q /\ Capacity * q - Capacity * p < Capacity
  BY <1>1, <1>2, <1>3, <1>4, CapacityAssumption
<1>6. p = q
  BY <1>1, <1>5, NoMultipleBetween, CapacityAssumption
<1> QED BY <1>2, <1>3, <1>6, <1>1

\* Two revisions less than Capacity above a common one that share a slot are
\* the same.
LEMMA SlotUnique ==
  ASSUME NEW c \in Nat, NEW a \in Nat, NEW b \in Nat, Slot(a) = Slot(b),
         c < a, a - c < Capacity, c < b, b - c < Capacity
  PROVE  a = b
<1>1. CASE a <= b
  <2>1. b - a < Capacity
    BY CapacityAssumption
  <2> QED BY <1>1, <2>1, SlotDetermines
<1>2. CASE b <= a
  <2>1. a - b < Capacity
    BY CapacityAssumption
  <2> QED BY <1>2, <2>1, SlotDetermines
<1> QED BY <1>1, <1>2

-----------------------------------------------------------------------------
(* The inductive invariant.                                                *)

\* A revision was dealt, and its event is not in the ring or beyond.
Unpublished(r) ==
  /\ r \in committedRevision + 1 .. dealRevision
  /\ \A s \in Slots : ring[s].revision # r
  /\ collector.event.revision # r

\* The requests that were dealt a revision, and those that may still write.
Holders == {w \in Writers : writer[w].step \in {"put", "lookup", "commit", "notify"}}
Open == {w \in Writers : writer[w].step \in {"put", "lookup", "commit"}}
RevOf(w) == writer[w].batch.rev

Rewriting == retrier.step \in {"commit", "dispatch"}

\* A revision that was dealt is with one request, or with the retry loop.
Apart ==
  /\ \A w \in Holders : Unpublished(RevOf(w))
  /\ \A v, w \in Holders : RevOf(v) = RevOf(w) => v = w
  /\ Rewriting => Unpublished(retrier.rev) /\ \A w \in Holders : RevOf(w) # retrier.rev

\* The ring holds what lies less than its capacity above the committed revision.
Ringed ==
  \A s \in Slots : ring[s] # Nil =>
    /\ ring[s].revision \in committedRevision + 1 .. dealRevision
    /\ ring[s].revision < committedRevision + Capacity
    /\ Slot(ring[s].revision) = s
    /\ ring[s].revision # collector.event.revision

\* The collector has the next revision in hand, or nothing.
Collecting ==
  /\ committedRevision <= dealRevision
  /\ IF collector.step = "commit"
     THEN collector.event # Nil /\ collector.event.revision = committedRevision + 1
          /\ committedRevision < dealRevision
     ELSE collector.event = Nil

\* The retry queue ascends up to what has left the ring.
Queued ==
  /\ \A i, j \in DOMAIN retryQueue : i < j => retryQueue[i].revision < retryQueue[j].revision
  /\ \A i \in DOMAIN retryQueue :
       \/ retryQueue[i].revision <= committedRevision
       \/ retryQueue[i].revision = collector.event.revision

\* The retry loop works on the head, which is settled.
Retrying ==
  retrier # Idle =>
    retryQueue # <<>> /\ \A b \in limbo : b.rev # Head(retryQueue).revision

\* The event of a batch in limbo is on its way to the retry queue, or in it.
Tracked(r) ==
  \/ \E w \in Holders : writer[w].step = "notify" /\ writer[w].result = "uncertain" /\ RevOf(w) = r
  \/ \E s \in Slots : ring[s] # Nil /\ ring[s].result = "uncertain" /\ ring[s].revision = r
  \/ retrier.step = "dispatch" /\ retrier.result = "uncertain" /\ retrier.rev = r
  \/ \E i \in DOMAIN retryQueue : retryQueue[i].revision = r

Limbo == panicked \/ \A b \in limbo : Tracked(b.rev)

\* No version has the revision of a batch that may still take effect.
Unused(r) == \A k \in Keys : \A o \in objects[k] : o.rev # r

Effective ==
  /\ \A w \in Open : Unused(RevOf(w)) /\ writer[w].batch.from.rev <= RevOf(w)
  /\ \A b \in limbo : Unused(b.rev) /\ b.from.rev <= b.rev
  /\ \A a, b \in limbo : a.rev = b.rev => a = b
  /\ retrier.step = "commit" => Unused(retrier.rev)

\* The newest version of a key, and what the index says of it.
EntryOf(o) == [rev |-> o.rev, del |-> o.val = Tombstone]
Newest(k, o) == o \in objects[k] /\ \A p \in objects[k] : p = o \/ p.rev < o.rev

Indexed ==
  \A k \in Keys :
    /\ \A o \in objects[k] : o.rev <= dealRevision
    /\ IF objects[k] = {} THEN index[k] = Absent
       ELSE \E o \in objects[k] : Newest(k, o) /\ index[k] = EntryOf(o)

\* Of the versions not above a revision one is the newest.
NewestAt(k, r, o) ==
  /\ o \in objects[k] /\ o.rev <= r
  /\ \A p \in objects[k] : p.rev <= r => p = o \/ p.rev < o.rev

Ordered ==
  \A k \in Keys : \A r \in Nat :
    (\E o \in objects[k] : o.rev <= r) => \E o \in objects[k] : NewestAt(k, r, o)

\* Compaction stays below what is open.
Compacting ==
  /\ compactor # Idle => compactor.rev <= committedRevision
  /\ CompactBelowUncertain

Inv ==
  /\ TypeOK
  /\ Apart /\ Ringed /\ Collecting
  /\ Queued /\ Retrying /\ Limbo
  /\ Effective /\ Indexed /\ Ordered
  /\ Compacting

-----------------------------------------------------------------------------
(* The records of the requests and of the retry loop.                      *)

\* A request that was dealt a revision holds a batch; the others do not.
LEMMA HolderTypes ==
  ASSUME TypeOK
  PROVE  /\ \A w \in Holders : writer[w] \in Requests
         /\ \A w \in Writers : writer[w].step = "read" => writer[w] \in Deletes
         /\ \A w \in Writers : writer[w] \in Requests => w \in Holders
<1>1. \A q \in Requests : q.step \in {"put", "lookup", "commit", "notify"}
  BY Zenon DEF Requests
<1>2. \A q \in Deletes : q.step = "read"
  BY Zenon DEF Deletes
<1>3. Idle.step = "idle"
  BY Zenon DEF Idle
<1>4. \A w \in Writers : writer[w] = Idle \/ writer[w] \in Deletes \/ writer[w] \in Requests
  BY Zenon DEF TypeOK
<1> QED BY Zenon, <1>1, <1>2, <1>3, <1>4 DEF Holders

\* The batch of a request.
LEMMA HolderBatch ==
  ASSUME TypeOK, NEW w \in Holders
  PROVE  /\ writer[w].batch \in Batches
         /\ RevOf(w) \in Revisions
         /\ RevOf(w) \in Nat
         /\ writer[w].batch.from.rev \in Nat
         /\ writer[w].batch.key \in Keys
         /\ writer[w].result \in Results
<1>1. writer[w].batch \in Batches /\ writer[w].result \in Results
  BY Zenon, HolderTypes DEF Requests
<1>2. \A b \in Batches : b.rev \in Revisions /\ b.rev \in Nat /\ b.from.rev \in Nat /\ b.key \in Keys
  BY DEF Batches, Revisions
<1> QED BY Zenon, <1>1, <1>2 DEF RevOf

\* What the retry loop holds at its steps.
LEMMA RetrierTypes ==
  ASSUME TypeOK
  PROVE  /\ retrier.step \in {"idle", "pop", "commit", "dispatch"}
         /\ retrier.step = "idle" <=> retrier = Idle
         /\ retrier.step = "commit" => retrier.rev \in Revisions /\ retrier.val \in Values
         /\ retrier.step = "dispatch" => retrier.rev \in Revisions /\ retrier.result \in Results
         /\ Rewriting => retrier.rev \in Nat
<1>1. \A q \in [step : {"commit"}, rev : Revisions, val : Values] :
        q.step = "commit" /\ q.rev \in Revisions /\ q.val \in Values
  BY Zenon
<1>2. \A q \in [step : {"dispatch"}, rev : Revisions, result : Results] :
        q.step = "dispatch" /\ q.rev \in Revisions /\ q.result \in Results
  BY Zenon
<1>3. Idle.step = "idle" /\ [step |-> "pop"].step = "pop"
  BY Zenon DEF Idle
<1>4. \/ retrier = Idle \/ retrier = [step |-> "pop"]
      \/ retrier \in [step : {"commit"}, rev : Revisions, val : Values]
      \/ retrier \in [step : {"dispatch"}, rev : Revisions, result : Results]
  BY Zenon DEF TypeOK, Retriers
<1>5. Revisions \subseteq Nat
  BY DEF Revisions
<1> QED BY Zenon, <1>1, <1>2, <1>3, <1>4, <1>5 DEF Rewriting

\* Events, in the ring, with the collector and in the retry queue.
LEMMA EventTypes ==
  ASSUME TypeOK
  PROVE  /\ \A e \in Events : e.revision \in Revisions /\ e.revision \in Nat /\ e.revision # 0
                              /\ e.result \in Results /\ e.key \in Keys /\ e.val \in Values /\ e # Nil
         /\ Nil.revision = 0
         /\ \A s \in Slots : ring[s].revision \in Nat /\ (ring[s] # Nil => ring[s] \in Events)
         /\ collector.event.revision \in Nat
         /\ collector.event # Nil => collector.event \in Events
         /\ \A i \in DOMAIN retryQueue : retryQueue[i] \in Events /\ retryQueue[i].revision \in Nat
<1>1. Nil.revision = 0
  BY Zenon DEF Nil
<1>2. \A e \in Events : e.revision \in Revisions /\ e.revision \in Nat /\ e.revision # 0
                        /\ e.result \in Results /\ e.key \in Keys /\ e.val \in Values
  BY DEF Events, Revisions
<1>3. \A s \in Slots : ring[s] \in Events \cup {Nil}
  BY Zenon DEF TypeOK
<1>4. collector.event \in Events \cup {Nil}
  BY Zenon DEF TypeOK
<1>5. \A i \in DOMAIN retryQueue : retryQueue[i] \in Events
  BY DEF TypeOK
<1> QED BY <1>1, <1>2, <1>3, <1>4, <1>5

\* Batches and versions.
LEMMA StoreTypes ==
  ASSUME TypeOK
  PROVE  /\ \A b \in Batches : b.key \in Keys /\ b.rev \in Revisions /\ b.rev \in Nat
                               /\ b.from.rev \in Nat /\ b.val \in Values
         /\ \A k \in Keys : \A o \in objects[k] : o \in Versions /\ o.rev \in Nat /\ o.rev # 0
                                                 /\ o.val \in Values
         /\ limbo \subseteq Batches
<1>1. \A b \in Batches : b.key \in Keys /\ b.rev \in Revisions /\ b.rev \in Nat
                         /\ b.from.rev \in Nat /\ b.val \in Values
  BY DEF Batches, Revisions
<1>2. \A o \in Versions : o.rev \in Nat /\ o.rev # 0 /\ o.val \in Values
  BY DEF Versions, Revisions
<1>3. \A k \in Keys : \A o \in objects[k] : o \in Versions
  BY Zenon DEF TypeOK
<1> QED BY Zenon, <1>1, <1>2, <1>3 DEF TypeOK

-----------------------------------------------------------------------------
(* The store.                                                              *)

\* What the iterator finds among some versions.
TopOf(below) ==
  IF below = {} THEN NoVersion
  ELSE CHOOSE o \in below : \A p \in below : p.rev <= o.rev

LatestOf(S, r) == TopOf({o \in S : o.rev <= r})

\* It finds the newest one not above the revision.
LEMMA LatestOfIs ==
  ASSUME NEW S, S \subseteq Versions, NEW r \in Nat, NEW o \in S, o.rev <= r,
         \A p \in S : p.rev <= r => p = o \/ p.rev < o.rev
  PROVE  LatestOf(S, r) = o
<1> DEFINE below == {p \in S : p.rev <= r}
           top == CHOOSE x \in below : \A p \in below : p.rev <= x.rev
<1>1. \A p \in below : p.rev \in Nat
  BY DEF Versions, Revisions
<1>2. o \in below /\ \A p \in below : p.rev <= o.rev
  BY <1>1
<1>3. top \in below /\ \A p \in below : p.rev <= top.rev
  <2> HIDE DEF below
  <2> QED BY Zenon, <1>2
<1>4. top = o
  BY <1>1, <1>2, <1>3
<1>5. LatestOf(S, r) = top
  <2>1. below # {}
    BY Zenon, <1>2
  <2> QED BY Zenon, <2>1 DEF LatestOf, TopOf
<1> QED BY Zenon, <1>4, <1>5

\* The newest version not above a revision is what the iterator finds.
LEMMA LatestAtIs ==
  ASSUME TypeOK, NEW k \in Keys, NEW r \in Nat, NEW o, NewestAt(k, r, o)
  PROVE  LatestAt(k, r) = o
<1>1. LatestAt(k, r) = LatestOf(objects[k], r) /\ objects[k] \subseteq Versions
  BY Zenon DEF LatestAt, LatestOf, TopOf, TypeOK
<1>2. PICK S : S = objects[k]
  BY Zenon
<1> QED BY Zenon, <1>1, <1>2, LatestOfIs DEF NewestAt

\* It finds nothing when there is no such version.
LEMMA LatestAtNone ==
  ASSUME NEW k, NEW r, \A o \in objects[k] : ~(o.rev <= r)
  PROVE  LatestAt(k, r) = NoVersion
  BY Zenon DEF LatestAt

\* One of the two is the case.
LEMMA LatestAtCases ==
  ASSUME TypeOK, Ordered, NEW k \in Keys, NEW r \in Nat
  PROVE  \/ NewestAt(k, r, LatestAt(k, r))
         \/ LatestAt(k, r) = NoVersion /\ \A o \in objects[k] : ~(o.rev <= r)
<1>1. CASE \E o \in objects[k] : o.rev <= r
  <2>1. PICK o \in objects[k] : NewestAt(k, r, o)
    BY Zenon, <1>1 DEF Ordered
  <2> QED BY Zenon, <2>1, LatestAtIs
<1>2. CASE \A o \in objects[k] : ~(o.rev <= r)
  BY Zenon, <1>2, LatestAtNone
<1> QED BY Zenon, <1>1, <1>2

\* The index agrees with what the iterator finds.
LEMMA IndexedIsLatest ==
  ASSUME TypeOK, Indexed
  PROVE  IndexIsLatest
<1> SUFFICES ASSUME NEW k \in Keys, objects[k] # {}
             PROVE  index[k] = [rev |-> Latest(k).rev, del |-> Latest(k).val = Tombstone]
  BY Zenon DEF Indexed, IndexIsLatest
<1>1. PICK o \in objects[k] : Newest(k, o) /\ index[k] = EntryOf(o)
  BY Zenon DEF Indexed
<1>2. dealRevision \in Nat
  BY WritePathAssumption DEF TypeOK
<1>3. NewestAt(k, dealRevision, o)
  BY Zenon, <1>1 DEF Newest, NewestAt, Indexed
<1>4. Latest(k) = o
  BY Zenon, <1>2, <1>3, LatestAtIs DEF Latest
<1> QED BY Zenon, <1>1, <1>4 DEF EntryOf

\* A batch that takes effect puts a version above those that are there.
LEMMA ApplyAbove ==
  ASSUME TypeOK, Indexed, NEW b \in Batches, Matches(b), Unused(b.rev), b.from.rev <= b.rev
  PROVE  \A p \in objects[b.key] : p.rev < b.rev
<1> SUFFICES ASSUME NEW p \in objects[b.key]
             PROVE  p.rev < b.rev
  BY Zenon
<1>1. PICK o \in objects[b.key] : Newest(b.key, o) /\ index[b.key] = EntryOf(o)
  BY Zenon, StoreTypes DEF Indexed
<1>2. o.rev = b.from.rev
  BY <1>1 DEF Matches, EntryOf
<1>3. o.rev # b.rev /\ o.rev \in Nat /\ p.rev \in Nat /\ b.rev \in Nat
  BY Zenon, StoreTypes DEF Unused
<1> QED BY <1>1, <1>2, <1>3 DEF Newest

\* Its effect on the two rows of the key.
LEMMA ApplyTypes ==
  ASSUME TypeOK, NEW b \in Batches, Apply(b)
  PROVE  /\ index' \in [Keys -> Entries]
         /\ objects' \in [Keys -> SUBSET Versions]
         /\ objects'[b.key] = objects[b.key] \cup {[rev |-> b.rev, val |-> b.val]}
         /\ index'[b.key] = EntryOf([rev |-> b.rev, val |-> b.val])
         /\ \A k \in Keys : k # b.key => objects'[k] = objects[k] /\ index'[k] = index[k]
<1>1. b.key \in Keys /\ b.rev \in Revisions /\ b.val \in Values
  BY Zenon, StoreTypes
<1>2. [rev |-> b.rev, val |-> b.val] \in Versions
  BY Zenon, <1>1 DEF Versions
<1>3. [rev |-> b.rev, del |-> b.val = Tombstone] \in Entries
  BY Zenon, <1>1 DEF Entries
<1> QED BY Zenon, <1>1, <1>2, <1>3 DEF Apply, TypeOK, EntryOf

\* Index and versions agree after it.
LEMMA ApplyStore ==
  ASSUME TypeOK, Indexed, Ordered, NEW b \in Batches, Matches(b), Apply(b), Unused(b.rev),
         b.from.rev <= b.rev, b.rev <= dealRevision, UNCHANGED dealRevision
  PROVE  Indexed' /\ Ordered'
<1> DEFINE v == [rev |-> b.rev, val |-> b.val]
<1>1. b.key \in Keys /\ b.rev \in Nat /\ v.rev = b.rev
  BY Zenon, StoreTypes
<1>2. \A p \in objects[b.key] : p.rev < v.rev /\ p.rev \in Nat
  BY Zenon, <1>1, ApplyAbove, StoreTypes
<1>3. objects'[b.key] = objects[b.key] \cup {v} /\ index'[b.key] = EntryOf(v)
  BY Zenon, ApplyTypes
<1>4. \A k \in Keys : k # b.key => objects'[k] = objects[k] /\ index'[k] = index[k]
  BY Zenon, ApplyTypes
<1> HIDE DEF v
<1>5. Indexed'
  <2> SUFFICES ASSUME NEW k \in Keys
               PROVE  /\ \A o \in objects'[k] : o.rev <= dealRevision
                      /\ IF objects'[k] = {} THEN index'[k] = Absent
                         ELSE \E o \in objects'[k] : Newest(k, o)' /\ index'[k] = EntryOf(o)
    BY Zenon DEF Indexed, EntryOf
  <2>1. CASE k = b.key
    <3>1. Newest(k, v)'
      BY Zenon, <1>2, <1>3, <2>1 DEF Newest
    <3>2. \A o \in objects'[k] : o.rev <= dealRevision
      BY Zenon, <1>1, <1>3, <2>1 DEF Indexed
    <3> QED BY Zenon, <1>3, <2>1, <3>1, <3>2
  <2>2. CASE k # b.key
    BY Zenon, <1>4, <2>2 DEF Indexed, Newest
  <2> QED BY Zenon, <2>1, <2>2
<1>6. Ordered'
  <2> SUFFICES ASSUME NEW k \in Keys, NEW r \in Nat, NEW q \in objects'[k], q.rev <= r
               PROVE  \E o \in objects'[k] : NewestAt(k, r, o)'
    BY Zenon DEF Ordered
  <2>1. CASE k # b.key
    BY Zenon, <1>4, <2>1 DEF Ordered, NewestAt
  <2>2. CASE k = b.key /\ v.rev <= r
    <3>1. NewestAt(k, r, v)'
      BY Zenon, <1>2, <1>3, <2>2 DEF NewestAt
    <3> QED BY Zenon, <1>3, <2>2, <3>1
  <2>3. CASE k = b.key /\ ~(v.rev <= r)
    <3>1. PICK o \in objects[k] : NewestAt(k, r, o)
      BY Zenon, <1>3, <2>3 DEF Ordered
    <3>2. NewestAt(k, r, o)'
      BY Zenon, <1>3, <2>3, <3>1 DEF NewestAt
    <3> QED BY Zenon, <1>3, <2>3, <3>1, <3>2
  <2> QED BY Zenon, <2>1, <2>2, <2>3
<1> QED BY Zenon, <1>5, <1>6

\* What a commit may do.
LEMMA CommitCases ==
  ASSUME NEW b, NEW faults, NEW res, Commit(b, faults, res)
  PROVE  \/ Matches(b) /\ Apply(b) /\ limbo' = limbo /\ res \in {"ok", "uncertain"}
         \/ UNCHANGED storeVars /\ res = "failed"
         \/ UNCHANGED <<index, objects>> /\ limbo' = limbo \cup {b} /\ res = "uncertain"
  BY Zenon DEF Commit

\* A commit keeps the store in order, and puts no version but its own.
LEMMA CommitStore ==
  ASSUME TypeOK, Indexed, Ordered, NEW b \in Batches, Unused(b.rev), b.from.rev <= b.rev,
         b.rev <= dealRevision, UNCHANGED dealRevision,
         NEW faults, NEW res, Commit(b, faults, res)
  PROVE  /\ index' \in [Keys -> Entries]
         /\ objects' \in [Keys -> SUBSET Versions]
         /\ limbo' \subseteq Batches
         /\ Indexed' /\ Ordered'
         /\ \A a \in limbo' :
              a \in limbo \/ (a = b /\ res = "uncertain" /\ Unused(b.rev)')
         /\ \A r \in Nat : Unused(r) /\ r # b.rev => Unused(r)'
<1>1. CASE Matches(b) /\ Apply(b) /\ limbo' = limbo
  <2>1. \A r \in Nat : Unused(r) /\ r # b.rev => Unused(r)'
    <3> SUFFICES ASSUME NEW r \in Nat, Unused(r), r # b.rev,
                        NEW k \in Keys, NEW o \in objects'[k]
                 PROVE  o.rev # r
      BY Zenon DEF Unused
    <3>1. o \in objects[k] \/ o = [rev |-> b.rev, val |-> b.val]
      BY Zenon, <1>1, ApplyTypes
    <3> QED BY <3>1 DEF Unused
  <2>2. Indexed' /\ Ordered'
    BY Zenon, <1>1, ApplyStore
  <2>3. index' \in [Keys -> Entries] /\ objects' \in [Keys -> SUBSET Versions]
    BY Zenon, <1>1, ApplyTypes
  <2>4. limbo' \subseteq Batches /\ \A a \in limbo' : a \in limbo
    BY Zenon, <1>1, StoreTypes
  <2> QED BY Zenon, <2>1, <2>2, <2>3, <2>4
<1>2. CASE /\ UNCHANGED <<index, objects>>
           /\ limbo' = limbo \/ (limbo' = limbo \cup {b} /\ res = "uncertain")
  <2>1. Indexed' /\ Ordered'
    BY Zenon, <1>2 DEF Indexed, Ordered, Newest, NewestAt
  <2>2. \A r : Unused(r) => Unused(r)'
    BY Zenon, <1>2 DEF Unused
  <2> QED BY Zenon, <1>2, <2>1, <2>2, StoreTypes DEF TypeOK
<1>3. \/ Matches(b) /\ Apply(b) /\ limbo' = limbo
      \/ /\ UNCHANGED <<index, objects>>
         /\ limbo' = limbo \/ (limbo' = limbo \cup {b} /\ res = "uncertain")
  BY Zenon, CommitCases DEF storeVars
<1> QED BY Zenon, <1>1, <1>2, <1>3

-----------------------------------------------------------------------------
(* Revisions that are still with a request or with the retry loop.         *)

\* Of two numbers one is not above the other.
LEMMA NumberOrder ==
  ASSUME NEW m \in Nat, NEW n \in Nat
  PROVE  /\ m < n => m <= n /\ m # n /\ ~(n < m) /\ ~(n <= m) /\ n > m
         /\ n > m => m < n
         /\ ~(m > n) => m <= n
         /\ m <= n \/ m > n
OBVIOUS

\* A number of the dealt revisions above the committed one.
LEMMA NumberBetween ==
  ASSUME NEW c \in Nat, NEW d \in Nat, NEW r, r \in c + 1 .. d
  PROVE  r \in Nat /\ r > c /\ r <= d
OBVIOUS

\* The counters of the leader.
LEMMA Counters ==
  ASSUME TypeOK
  PROVE  committedRevision \in Nat /\ dealRevision \in Nat
<1>1. committedRevision \in Nat /\ dealRevision \in StartRevision .. MaxRevision
  BY Zenon DEF TypeOK
<1>2. StartRevision \in Nat /\ MaxRevision \in Nat
  BY Zenon, WritePathAssumption
<1>3. \A m, n \in Nat : \A d \in m .. n : d \in Nat
  OBVIOUS
<1> QED BY Zenon, <1>1, <1>2, <1>3

\* A revision that was not published lies above the committed one.
LEMMA UnpublishedAbove ==
  ASSUME TypeOK, NEW r, Unpublished(r)
  PROVE  /\ r \in Nat /\ r > committedRevision /\ r <= dealRevision
         /\ r # collector.event.revision
<1>1. r \in committedRevision + 1 .. dealRevision /\ collector.event.revision # r
  BY Zenon DEF Unpublished
<1> QED BY Zenon, <1>1, Counters, NumberBetween

\* Requests that keep their revisions stay apart.
LEMMA ApartStays ==
  ASSUME Apart, UNCHANGED <<committedRevision, dealRevision, ring, collector, retrier>>,
         Holders' = Holders, \A v \in Holders : RevOf(v)' = RevOf(v)
  PROVE  Apart'
<1>1. \A v \in Holders' : v \in Holders /\ RevOf(v)' = RevOf(v)
  BY Zenon
<1>2. ASSUME NEW v \in Holders'
      PROVE  Unpublished(RevOf(v))'
  <2>1. RevOf(v)' = RevOf(v) /\ Unpublished(RevOf(v))
    BY Zenon, <1>1, <1>2 DEF Apart
  <2> QED BY <2>1 DEF Unpublished
<1>3. ASSUME NEW v \in Holders', NEW x \in Holders', RevOf(v)' = RevOf(x)'
      PROVE  v = x
  <2>1. v \in Holders /\ x \in Holders /\ RevOf(v) = RevOf(x)
    BY <1>1, <1>3
  <2> QED BY Zenon, <2>1 DEF Apart
<1>4. Rewriting' => Unpublished(retrier.rev)' /\ \A v \in Holders' : RevOf(v)' # retrier'.rev
  BY Zenon, <1>1 DEF Apart, Rewriting, Unpublished
<1> QED BY Zenon, <1>2, <1>3, <1>4 DEF Apart

\* The revision the retry loop is about to write is its own.
LEMMA RewriteApart ==
  ASSUME TypeOK, Apart, Effective, retrier.step = "commit"
  PROVE  /\ retrier.rev \in Nat /\ Unpublished(retrier.rev) /\ Unused(retrier.rev)
         /\ \A v \in Holders : RevOf(v) # retrier.rev
<1>1. Rewriting
  BY Zenon DEF Rewriting
<1> QED BY Zenon, <1>1, RetrierTypes DEF Apart, Effective

\* b writes version n of k again, with the value val, at the revision rev.
RewriteOf(b, k, n, rev, val) ==
  /\ b \in Batches /\ b.key = k /\ b.rev = rev /\ b.val = val
  /\ b.from = [rev |-> n, del |-> val = Tombstone] /\ b.from.rev = n /\ n <= rev

\* The batch with which the retry loop writes a version again.
LEMMA RewriteBatch ==
  ASSUME NEW k \in Keys, NEW n \in Nat, NEW rev \in Revisions, NEW val \in Values, n < rev
  PROVE  RewriteOf(Batch(k, [rev |-> n, del |-> val = Tombstone], rev, val), k, n, rev, val)
<1>1. PICK from : from = [rev |-> n, del |-> val = Tombstone]
  BY Zenon
<1>2. from \in [rev : Nat, del : BOOLEAN] /\ from.rev = n
  BY Zenon, <1>1
<1>3. PICK b : b = [key |-> k, from |-> from, rev |-> rev, val |-> val]
  BY Zenon
<1>4. b.key = k /\ b.from = from /\ b.rev = rev /\ b.val = val
  BY <1>3
<1>5. b \in Batches
  BY <1>2, <1>3 DEF Batches
<1>6. n <= rev
  BY DEF Revisions
<1>7. RewriteOf(b, k, n, rev, val)
  BY Zenon, <1>1, <1>2, <1>4, <1>5, <1>6 DEF RewriteOf
<1> QED BY Zenon, <1>1, <1>3, <1>7 DEF Batch

\* What is in the retry queue has left the ring.
LEMMA QueueApart ==
  ASSUME TypeOK, Queued, Collecting, NEW r \in Nat, Unpublished(r)
  PROVE  \A i \in DOMAIN retryQueue : retryQueue[i].revision < r
<1>1. r > committedRevision /\ r # collector.event.revision /\ committedRevision \in Nat
  BY DEF Unpublished, TypeOK
<1>2. collector.event.revision = 0 \/ collector.event.revision = committedRevision + 1
  BY Zenon, EventTypes DEF Collecting
<1> SUFFICES ASSUME NEW i \in DOMAIN retryQueue
             PROVE  retryQueue[i].revision < r
  BY Zenon
<1>3. retryQueue[i].revision \in Nat /\ retryQueue[i].revision # 0
  BY Zenon, EventTypes
<1>4. \/ retryQueue[i].revision <= committedRevision
      \/ retryQueue[i].revision = collector.event.revision
  BY Zenon DEF Queued
<1> QED BY <1>1, <1>2, <1>3, <1>4

\* A batch in limbo is not the one of a request that may still write.
LEMMA LimboApart ==
  ASSUME Inv, ~panicked, NEW a \in limbo
  PROVE  /\ \A w \in Open : RevOf(w) # a.rev
         /\ retrier.step = "commit" => retrier.rev # a.rev
<1> USE DEF Inv
<1>1. Tracked(a.rev) /\ a.rev \in Nat
  BY Zenon, StoreTypes DEF Limbo
<1>2. Open \subseteq Holders /\ \A w \in Open : writer[w].step # "notify"
  BY Zenon DEF Open, Holders
<1>3. ASSUME NEW w \in Open, RevOf(w) = a.rev
      PROVE  FALSE
  <2>1. Unpublished(a.rev)
    BY Zenon, <1>2, <1>3 DEF Apart
  <2>2. \A i \in DOMAIN retryQueue : retryQueue[i].revision # a.rev
    BY <1>1, <2>1, QueueApart, EventTypes
  <2>3. \A v \in Holders : RevOf(v) = a.rev => writer[v].step # "notify"
    BY Zenon, <1>2, <1>3 DEF Apart
  <2>4. Rewriting => retrier.rev # a.rev
    BY Zenon, <1>2, <1>3 DEF Apart
  <2> QED BY Zenon, <1>1, <2>1, <2>2, <2>3, <2>4 DEF Tracked, Unpublished, Rewriting
<1>4. ASSUME retrier.step = "commit", retrier.rev = a.rev
      PROVE  FALSE
  <2>1. Unpublished(a.rev) /\ \A v \in Holders : RevOf(v) # a.rev
    BY Zenon, <1>4 DEF Apart, Rewriting
  <2>2. \A i \in DOMAIN retryQueue : retryQueue[i].revision # a.rev
    BY <1>1, <2>1, QueueApart, EventTypes
  <2> QED BY Zenon, <1>1, <1>4, <2>1, <2>2 DEF Tracked, Unpublished
<1> QED BY Zenon, <1>3, <1>4

-----------------------------------------------------------------------------
(* The requests.                                                           *)

\* A request begins, or ends at once, with the next revision of the clock.
LEMMA BeginInv ==
  ASSUME Inv, NEW w \in Writers, writer[w].step \in {"idle", "read"}, NEW q, Begin(w, q),
         \/ q = Idle
         \/ /\ q \in Requests
            /\ q.batch.rev = dealRevision + 1
            /\ q.batch.from.rev <= dealRevision + 1
            /\ q.step = "notify" => q.result # "uncertain"
  PROVE  Inv'
<1> USE DEF Inv
<1>1. /\ ~panicked /\ dealRevision < MaxRevision
      /\ dealRevision' = dealRevision + 1
      /\ writer' = [writer EXCEPT ![w] = q]
      /\ UNCHANGED <<committedRevision, ring, collector, panicked, index, objects, limbo,
                     retryQueue, retrier, compactor, view>>
  BY Zenon DEF Begin, TSODeal, storeVars, retryVars
<1>2. dealRevision \in Nat /\ committedRevision \in Nat /\ MaxRevision \in Nat
  BY WritePathAssumption DEF TypeOK
<1>3. w \notin Holders /\ w \notin Open
  BY Zenon DEF Holders, Open
<1>4. writer'[w] = q /\ \A v \in Writers : v # w => writer'[v] = writer[v]
  BY Zenon, <1>1 DEF TypeOK
<1>5. /\ \A v \in Holders' : v # w => v \in Holders /\ RevOf(v)' = RevOf(v)
      /\ \A v \in Open' : v # w => v \in Open
      /\ Holders \subseteq Holders' /\ \A v \in Holders : RevOf(v)' = RevOf(v)
      /\ w \in Holders' => q \in Requests /\ RevOf(w)' = dealRevision + 1
  BY <1>3, <1>4 DEF Holders, Open, RevOf, Idle
<1>6. TypeOK'
  <2>1. writer' \in [Writers -> {Idle} \cup Deletes \cup Requests]
    BY Zenon, <1>1 DEF TypeOK
  <2>2. dealRevision' \in StartRevision .. MaxRevision
    BY <1>1, WritePathAssumption DEF TypeOK
  <2> QED BY Zenon, <1>1, <2>1, <2>2 DEF TypeOK
<1>7. \A r \in Nat : Unpublished(r) => Unpublished(r)'
  BY <1>1, <1>2 DEF Unpublished
<1>8. \A r \in Nat : r = dealRevision + 1 => Unpublished(r)'
  <2>1. \A s \in Slots : ring[s].revision # dealRevision + 1
    BY <1>2, EventTypes DEF Ringed
  <2>2. collector.event.revision # dealRevision + 1 /\ committedRevision <= dealRevision
    BY <1>2, EventTypes DEF Collecting
  <2> QED BY <1>1, <1>2, <2>1, <2>2 DEF Unpublished
<1>9. Apart'
  <2>1. \A v \in Holders' : RevOf(v)' \in Nat /\ Unpublished(RevOf(v))'
    BY <1>2, <1>5, <1>7, <1>8, HolderBatch DEF Apart
  <2>2. \A v \in Holders : RevOf(v) # dealRevision + 1
    BY <1>2, HolderBatch DEF Apart, Unpublished
  <2>3. \A u, v \in Holders' : RevOf(u)' = RevOf(v)' => u = v
    BY <1>5, <2>2 DEF Apart
  <2>4. Rewriting => Unpublished(retrier.rev)' /\ \A v \in Holders' : RevOf(v)' # retrier.rev
    BY <1>1, <1>2, <1>5, <1>7, RetrierTypes DEF Apart, Unpublished
  <2> QED BY Zenon, <1>1, <2>1, <2>3, <2>4 DEF Apart, Rewriting
<1>10. Ringed' /\ Collecting' /\ Queued' /\ Retrying'
  BY <1>1, <1>2, EventTypes DEF Ringed, Collecting, Queued, Retrying
<1>11. Limbo'
  <2>1. \A r : Tracked(r) => Tracked(r)'
    BY <1>1, <1>3, <1>4, <1>5 DEF Tracked, Holders
  <2> QED BY Zenon, <1>1, <2>1 DEF Limbo
<1>12. Effective'
  <2>1. \A r : Unused(r) => Unused(r)'
    BY Zenon, <1>1 DEF Unused
  <2>2. \A v \in Open : Unused(RevOf(v)) /\ writer[v].batch.from.rev <= RevOf(v)
    BY Zenon DEF Effective
  <2>3. \A r \in Nat : r = dealRevision + 1 => Unused(r)'
    BY <1>1, <1>2, StoreTypes DEF Indexed, Unused
  <2>4. \A v \in Open' : Unused(RevOf(v))' /\ writer'[v].batch.from.rev <= RevOf(v)'
    <3> SUFFICES ASSUME NEW v \in Open'
                 PROVE  Unused(RevOf(v))' /\ writer'[v].batch.from.rev <= RevOf(v)'
      BY Zenon
    <3>1. v \in Holders'
      BY Zenon DEF Open, Holders
    <3>2. CASE v = w
      <4>1. RevOf(w)' = dealRevision + 1 /\ writer'[w] = q /\ q # Idle
        BY <1>4, <1>5, <3>1, <3>2 DEF Holders, Idle
      <4> QED BY <1>2, <2>3, <3>2, <4>1
    <3>3. CASE v # w
      <4>1. v \in Open /\ RevOf(v)' = RevOf(v) /\ writer'[v] = writer[v]
        BY Zenon, <1>4, <1>5, <3>1, <3>3 DEF Open
      <4> QED BY Zenon, <2>1, <2>2, <4>1
    <3> QED BY Zenon, <3>2, <3>3
  <2> QED BY Zenon, <1>1, <2>1, <2>4 DEF Effective
<1>13. Indexed' /\ Ordered'
  <2>1. \A k \in Keys : \A o \in objects[k] : o.rev <= dealRevision'
    BY <1>1, <1>2, StoreTypes DEF Indexed
  <2> QED BY Zenon, <1>1, <2>1 DEF Indexed, Ordered, Newest, NewestAt
<1>14. Compacting'
  BY <1>1, <1>2, StoreTypes DEF Compacting, CompactBelowUncertain
<1> QED BY Zenon, <1>6, <1>9, <1>10, <1>11, <1>12, <1>13, <1>14

\* The batches that Create, Update and Delete hold.
LEMMA RequestTypes ==
  ASSUME NEW k \in Keys, NEW from \in [rev : Nat, del : BOOLEAN], NEW rev \in Revisions,
         NEW val \in Values, NEW step \in {"put", "lookup", "commit", "notify"}
  PROVE  LET q == Request(step, Batch(k, from, rev, val)) IN
         /\ q \in Requests
         /\ q.batch.rev = rev /\ q.batch.from = from
         /\ q.step = step /\ q.result = "failed"
<1>1. Batch(k, from, rev, val) \in Batches
  BY Zenon DEF Batch, Batches
<1>2. "failed" \in Results
  BY Zenon DEF Results
<1> QED BY Zenon, <1>1, <1>2 DEF Request, Requests, Batch

\* The next revision of the clock, below the bound.
LEMMA NextRevision ==
  ASSUME TypeOK, dealRevision < MaxRevision
  PROVE  /\ dealRevision \in Nat
         /\ dealRevision + 1 \in Revisions /\ dealRevision + 1 \in Nat
         /\ dealRevision + 1 \in Values /\ Tombstone \in Values
         /\ Absent \in [rev : Nat, del : BOOLEAN] /\ Absent.rev = 0
  BY WritePathAssumption DEF TypeOK, Revisions, Values, Absent

\* Create: a revision is dealt for a key that is to be put.
LEMMA CreateInv == ASSUME Inv, NEW w \in Writers, NEW k \in Keys, Create(w, k)
                   PROVE  Inv'
<1>1. PICK q : q = Request("put", Batch(k, Absent, dealRevision + 1, dealRevision + 1))
  BY Zenon
<1>2. writer[w].step = "idle" /\ Begin(w, q) /\ dealRevision < MaxRevision
  BY Zenon, <1>1 DEF Create, Begin
<1>3. TypeOK
  BY Zenon DEF Inv
<1>4. /\ q \in Requests /\ q.batch.rev = dealRevision + 1 /\ q.batch.from = Absent
      /\ q.step = "put"
  BY <1>1, <1>2, <1>3, NextRevision, RequestTypes
<1>5. q.batch.from.rev <= dealRevision + 1
  BY <1>2, <1>3, <1>4, NextRevision
<1> QED BY Zenon, <1>2, <1>4, <1>5, BeginInv

\* The revisions a client sends are numbers.
LEMMA KnownTypes == ASSUME TypeOK, NEW k \in Keys
                    PROVE  KnownRevisions(k) \subseteq Nat
<1>1. dealRevision \in Nat
  BY WritePathAssumption DEF TypeOK
<1> QED BY <1>1, StoreTypes, WritePathAssumption DEF KnownRevisions

\* Update: a revision is dealt, or the request ends with a drift back.
LEMMA UpdateInv ==
  ASSUME Inv, NEW w \in Writers, NEW k \in Keys, NEW prev \in KnownRevisions(k), Update(w, k, prev)
  PROVE  Inv'
<1>1. PICK q : q = IF DriftBack(prev) THEN Idle
                   ELSE Request("commit", Batch(k, Live(prev), dealRevision + 1, dealRevision + 1))
  BY Zenon
<1>2. writer[w].step = "idle" /\ Begin(w, q) /\ dealRevision < MaxRevision
  BY Zenon, <1>1 DEF Update, Begin
<1>3. TypeOK
  BY Zenon DEF Inv
<1>4. prev \in Nat /\ Live(prev) \in [rev : Nat, del : BOOLEAN] /\ Live(prev).rev = prev
  BY Zenon, <1>3, KnownTypes DEF Live
<1>5. CASE DriftBack(prev)
  BY Zenon, <1>1, <1>2, <1>5, BeginInv
<1>6. CASE ~DriftBack(prev)
  <2>1. /\ q \in Requests /\ q.batch.rev = dealRevision + 1 /\ q.batch.from = Live(prev)
        /\ q.step = "commit"
    BY <1>1, <1>2, <1>3, <1>4, <1>6, NextRevision, RequestTypes
  <2>2. q.batch.from.rev <= dealRevision + 1
    BY <1>2, <1>3, <1>4, <1>6, <2>1, NextRevision DEF DriftBack
  <2> QED BY Zenon, <1>2, <2>1, <2>2, BeginInv
<1> QED BY Zenon, <1>5, <1>6

\* Delete: a revision is dealt for what was read.
LEMMA DeleteDealInv == ASSUME Inv, NEW w \in Writers, DeleteDeal(w)
                       PROVE  Inv'
<1> DEFINE d == writer[w]
           rev == dealRevision + 1
           missing == d.old.val = Tombstone
           refused == missing \/ (d.prev > 0 /\ d.prev # d.old.rev) \/ rev <= d.old.rev
<1>1. PICK q : q = IF ~missing /\ DriftBack(d.prev) THEN Idle
              ELSE IF refused THEN Request("notify", Batch(d.key, Absent, rev, Tombstone))
              ELSE Request("commit", Batch(d.key, Live(d.old.rev), rev, Tombstone))
  BY Zenon
<1>2. d.step = "read" /\ Begin(w, q) /\ dealRevision < MaxRevision
  BY Zenon, <1>1 DEF DeleteDeal, Begin
<1>3. TypeOK
  BY Zenon DEF Inv
<1>4. d.key \in Keys /\ d.prev \in Nat /\ d.old.rev \in Nat
  <2>1. d \in Deletes
    BY Zenon, <1>2, <1>3, HolderTypes
  <2>2. \A o \in Versions \cup {NoVersion} : o.rev \in Nat
    BY DEF Versions, NoVersion, Revisions
  <2> QED BY Zenon, <2>1, <2>2 DEF Deletes
<1>5. Live(d.old.rev) \in [rev : Nat, del : BOOLEAN] /\ Live(d.old.rev).rev = d.old.rev
  BY Zenon, <1>4 DEF Live
<1> HIDE DEF d
<1>6. CASE q = Idle
  BY Zenon, <1>2, <1>6, BeginInv DEF d
<1>7. CASE q = Request("notify", Batch(d.key, Absent, rev, Tombstone))
  <2>1. /\ q \in Requests /\ q.batch.rev = dealRevision + 1 /\ q.batch.from = Absent
        /\ q.result = "failed"
    BY <1>2, <1>3, <1>4, <1>7, NextRevision, RequestTypes
  <2>2. q.batch.from.rev <= dealRevision + 1
    BY <1>2, <1>3, <2>1, NextRevision
  <2> QED BY Zenon, <1>2, <2>1, <2>2, BeginInv DEF d
<1>8. CASE ~refused /\ q = Request("commit", Batch(d.key, Live(d.old.rev), rev, Tombstone))
  <2>1. /\ q \in Requests /\ q.batch.rev = dealRevision + 1 /\ q.batch.from = Live(d.old.rev)
        /\ q.step = "commit"
    BY <1>2, <1>3, <1>4, <1>5, <1>8, NextRevision, RequestTypes
  <2>2. q.batch.from.rev <= dealRevision + 1
    BY <1>2, <1>3, <1>4, <1>5, <1>8, <2>1, NextRevision
  <2> QED BY Zenon, <1>2, <2>1, <2>2, BeginInv DEF d
<1> QED BY Zenon, <1>1, <1>6, <1>7, <1>8

\* A request takes a step that leaves store and ring alone.
LEMMA WriterInv ==
  ASSUME Inv, NEW w \in Writers, NEW q, writer' = [writer EXCEPT ![w] = q],
         UNCHANGED <<ringVars, storeVars, retryVars, compactor, view>>,
         \/ writer[w].step \in {"idle", "read"} /\ q \in Deletes
         \/ /\ w \in Open /\ q \in Requests
            /\ q.batch.rev = RevOf(w)
            /\ q.step # "notify" => q.batch.from.rev <= RevOf(w)
  PROVE  Inv'
<1> USE DEF Inv
<1>1. UNCHANGED <<committedRevision, dealRevision, ring, collector, panicked, index, objects,
                  limbo, retryQueue, retrier, compactor, view>>
  BY Zenon DEF ringVars, storeVars, retryVars
<1>2. writer'[w] = q /\ \A v \in Writers : v # w => writer'[v] = writer[v]
  BY Zenon DEF TypeOK
<1>3. TypeOK'
  <2>1. writer' \in [Writers -> {Idle} \cup Deletes \cup Requests]
    BY Zenon DEF TypeOK
  <2> QED BY Zenon, <1>1, <2>1 DEF TypeOK
<1>4. /\ \A v \in Holders' : v \in Holders /\ RevOf(v)' = RevOf(v)
      /\ \A v \in Open' : v \in Open /\ writer'[v].batch.from.rev <= RevOf(v)
      /\ w \in Holders => w \in Open
  <2>1. \A v \in Writers : v # w => writer'[v] = writer[v] /\ RevOf(v)' = RevOf(v)
    BY Zenon, <1>2 DEF RevOf
  <2>2. CASE writer[w].step \in {"idle", "read"} /\ q \in Deletes
    <3>1. w \notin Holders' /\ w \notin Open' /\ w \notin Holders
      BY Zenon, <1>2, <2>2 DEF Holders, Open, Deletes
    <3> QED BY Zenon, <2>1, <3>1 DEF Holders, Open, Effective
  <2>3. CASE w \in Open /\ q \in Requests /\ q.batch.rev = RevOf(w)
             /\ (q.step # "notify" => q.batch.from.rev <= RevOf(w))
    BY Zenon, <1>2, <2>1, <2>3 DEF Holders, Open, Effective, RevOf
  <2> QED BY Zenon, <2>2, <2>3
<1>5. \A r : Unpublished(r) => Unpublished(r)'
  BY Zenon, <1>1 DEF Unpublished
<1>6. Apart'
  BY <1>1, <1>4, <1>5 DEF Apart, Rewriting
<1>7. Ringed' /\ Collecting' /\ Queued' /\ Retrying'
  BY Zenon, <1>1 DEF Ringed, Collecting, Queued, Retrying
<1>8. Limbo'
  <2>1. \A v \in Holders : writer[v].step = "notify" =>
          v \in Holders' /\ writer'[v] = writer[v] /\ RevOf(v)' = RevOf(v)
    BY Zenon, <1>2, <1>4 DEF Holders, Open, RevOf
  <2>2. \A r : Tracked(r) => Tracked(r)'
    BY Zenon, <1>1, <2>1 DEF Tracked
  <2> QED BY Zenon, <1>1, <2>2 DEF Limbo
<1>9. Effective'
  <2>1. \A r : Unused(r) => Unused(r)'
    BY Zenon, <1>1 DEF Unused
  <2>2. \A v \in Open' : Unused(RevOf(v))' /\ writer'[v].batch.from.rev <= RevOf(v)'
    <3>1. Open' \subseteq Holders'
      BY Zenon DEF Open, Holders
    <3> QED BY Zenon, <1>4, <2>1, <3>1 DEF Effective
  <2> QED BY Zenon, <1>1, <2>1, <2>2 DEF Effective
<1>10. Indexed' /\ Ordered' /\ Compacting'
  BY Zenon, <1>1 DEF Indexed, Ordered, Newest, NewestAt, Compacting,
    CompactBelowUncertain
<1> QED BY Zenon, <1>3, <1>6, <1>7, <1>8, <1>9, <1>10

\* Delete: the latest value is read.
LEMMA DeleteReadInv ==
  ASSUME Inv, NEW w \in Writers, NEW k \in Keys, NEW prev \in KnownRevisions(k) \cup {0},
         DeleteRead(w, k, prev)
  PROVE  Inv'
<1>1. PICK old \in {Latest(k), NoVersion} : writer' = [writer EXCEPT ![w] =
         [step |-> "read", key |-> k, prev |-> prev, old |-> old]]
  BY Zenon DEF DeleteRead
<1>2. TypeOK /\ Ordered /\ prev \in Nat /\ dealRevision \in Nat
  BY KnownTypes, WritePathAssumption DEF Inv, TypeOK
<1>3. Latest(k) \in Versions \cup {NoVersion}
  BY Zenon, <1>2, LatestAtCases, StoreTypes DEF Latest, NewestAt
<1>4. [step |-> "read", key |-> k, prev |-> prev, old |-> old] \in Deletes
  BY Zenon, <1>1, <1>2, <1>3 DEF Deletes
<1>5. /\ writer[w].step \in {"idle", "read"}
      /\ UNCHANGED <<ringVars, storeVars, retryVars, compactor, view>>
  BY Zenon DEF DeleteRead
<1> QED BY Zenon, <1>1, <1>4, <1>5, WriterInv

\* The result of a request, and its batch without the comparison.
LEMMA FinishTypes ==
  ASSUME TypeOK, NEW w \in Open, NEW res \in Results, Finish(w, res)
  PROVE  \E q \in Requests : /\ writer' = [writer EXCEPT ![w] = q]
                             /\ q.step = "notify" /\ q.result = res
                             /\ q.batch.rev = RevOf(w)
                             /\ q.batch.key = writer[w].batch.key
                             /\ q.batch.val = writer[w].batch.val
<1> DEFINE b == [writer[w].batch EXCEPT !.from = Absent]
           q == [writer[w] EXCEPT !.step = "notify", !.result = res, !.batch = b]
<1>1. w \in Writers /\ w \in Holders /\ writer[w] \in Requests
  BY Zenon, HolderTypes DEF Open, Holders
<1>2. writer[w].batch \in Batches
  BY Zenon, <1>1, HolderBatch
<1>3. Absent \in [rev : Nat, del : BOOLEAN]
  BY Zenon DEF Absent
<1>4. /\ b \in Batches /\ b.rev = writer[w].batch.rev
      /\ b.key = writer[w].batch.key /\ b.val = writer[w].batch.val
  BY Zenon, <1>2, <1>3 DEF Batches
<1>5. q \in Requests /\ q.step = "notify" /\ q.result = res /\ q.batch = b
  <2> HIDE DEF b
  <2> QED BY Zenon, <1>1, <1>4 DEF Requests
<1>6. writer' = [writer EXCEPT ![w] = q]
  BY Zenon, <1>1, <1>2 DEF Finish, Requests, Batches, TypeOK
<1> QED BY Zenon, <1>4, <1>5, <1>6 DEF RevOf

\* What a commit leaves of the invariant, whoever made it.
AfterCommit(b, res) ==
  /\ Indexed' /\ Ordered' /\ Compacting'
  /\ index' \in [Keys -> Entries] /\ objects' \in [Keys -> SUBSET Versions]
  /\ limbo' \subseteq Batches
  /\ \A a \in limbo' : Unused(a.rev)' /\ a.from.rev <= a.rev
  /\ \A a, c \in limbo' : a.rev = c.rev => a = c
  /\ \A a \in limbo' : a \in limbo \/ (a = b /\ res = "uncertain")
  /\ retryQueue # <<>> /\ (\A a \in limbo : a.rev # Head(retryQueue).revision) =>
       \A a \in limbo' : a.rev # Head(retryQueue).revision
  /\ \A r \in Nat : Unused(r) /\ r # b.rev => Unused(r)'

\* A batch with a revision that is not published is committed, by a request or
\* by the retry loop.
LEMMA CommitKeeps ==
  ASSUME Inv, ~panicked, NEW b \in Batches, NEW faults, NEW res, Commit(b, faults, res),
         Unpublished(b.rev), Unused(b.rev), b.from.rev <= b.rev,
         \A a \in limbo : a.rev # b.rev,
         UNCHANGED <<ringVars, retryQueue, compactor, view>>
  PROVE  AfterCommit(b, res)
<1> USE DEF Inv
<1>1. UNCHANGED <<committedRevision, dealRevision, ring, collector, panicked>>
  BY Zenon DEF ringVars
<1>2. /\ b.rev \in Nat /\ b.rev > committedRevision /\ b.rev <= dealRevision
      /\ committedRevision \in Nat
  BY StoreTypes DEF Unpublished, TypeOK
<1>3. /\ index' \in [Keys -> Entries]
      /\ objects' \in [Keys -> SUBSET Versions]
      /\ limbo' \subseteq Batches
      /\ Indexed' /\ Ordered'
      /\ \A a \in limbo' : a \in limbo \/ (a = b /\ res = "uncertain" /\ Unused(b.rev)')
      /\ \A r \in Nat : Unused(r) /\ r # b.rev => Unused(r)'
  BY Zenon, <1>1, <1>2, CommitStore
<1>4. \A a \in limbo' : Unused(a.rev)' /\ a.from.rev <= a.rev
  BY Zenon, <1>3, StoreTypes DEF Effective
<1>5. \A a, c \in limbo' : a.rev = c.rev => a = c
  BY Zenon, <1>3 DEF Effective
<1>6. Compacting'
  <2>1. compactor.step = "scan" => compactor # Idle /\ compactor.rev \in Nat
    BY DEF TypeOK, Idle
  <2>2. compactor.step = "scan" => \A a \in limbo' : compactor.rev < a.rev
    BY <1>2, <1>3, <2>1 DEF Compacting, CompactBelowUncertain
  <2> QED BY Zenon, <1>1, <2>2 DEF Compacting, CompactBelowUncertain
<1>7. retryQueue # <<>> => Head(retryQueue).revision # b.rev
  <2>1. retryQueue # <<>> => 1 \in DOMAIN retryQueue /\ Head(retryQueue) = retryQueue[1]
    BY DEF TypeOK
  <2> QED BY <1>2, <2>1, QueueApart, EventTypes
<1> QED BY Zenon, <1>3, <1>4, <1>5, <1>6, <1>7 DEF AfterCommit

\* A request commits its batch for the last time.
LEMMA FinishInv ==
  ASSUME Inv, ~panicked, NEW w \in Open, NEW faults, NEW res \in Results,
         Commit(writer[w].batch, faults, res), Finish(w, res),
         UNCHANGED <<ringVars, retryVars, compactor, view>>
  PROVE  Inv'
<1> USE DEF Inv
<1>1. UNCHANGED <<committedRevision, dealRevision, ring, collector, panicked, retryQueue,
                  retrier, compactor, view>>
  BY Zenon DEF ringVars, retryVars
<1>2. PICK b \in Batches : b = writer[w].batch
  BY Zenon, HolderBatch DEF Open, Holders
<1>3. w \in Writers /\ w \in Holders /\ b.rev = RevOf(w) /\ b.rev \in Nat
  BY Zenon, <1>2, HolderBatch DEF Open, Holders, RevOf
<1>4. Commit(b, faults, res)
  BY Zenon, <1>2 DEF Commit, Matches, Apply
<1>5. Unpublished(b.rev) /\ Unused(b.rev) /\ b.from.rev <= b.rev /\ \A a \in limbo : a.rev # b.rev
  BY Zenon, <1>2, <1>3, LimboApart DEF Apart, Effective
<1>6. PICK q \in Requests : /\ writer' = [writer EXCEPT ![w] = q]
                            /\ q.step = "notify" /\ q.result = res
                            /\ q.batch.rev = RevOf(w)
  BY Zenon, FinishTypes
<1>7. AfterCommit(b, res)
  BY Zenon, <1>1, <1>4, <1>5, CommitKeeps DEF ringVars
<1>8. writer'[w] = q /\ \A v \in Writers : v # w => writer'[v] = writer[v]
  BY Zenon, <1>3, <1>6 DEF TypeOK
<1>9. TypeOK'
  <2>1. writer' \in [Writers -> {Idle} \cup Deletes \cup Requests]
    BY Zenon, <1>6 DEF TypeOK
  <2> QED BY Zenon, <1>1, <1>7, <2>1 DEF TypeOK, AfterCommit
<1>10. /\ Holders' = Holders /\ \A v \in Holders : RevOf(v)' = RevOf(v)
       /\ \A v \in Open' : v # w /\ v \in Open /\ writer'[v] = writer[v]
  BY Zenon, <1>3, <1>6, <1>8 DEF Holders, Open, RevOf
<1>11. \A r : Unpublished(r) => Unpublished(r)'
  BY Zenon, <1>1 DEF Unpublished
<1>12. Apart'
  BY Zenon, <1>1, <1>10, ApartStays
<1>13. Ringed' /\ Collecting' /\ Queued' /\ Retrying'
  BY Zenon, <1>1, <1>7 DEF Ringed, Collecting, Queued, Retrying, AfterCommit
<1>14. Limbo'
  <2>1. \A v \in Holders : writer[v].step = "notify" => v # w /\ writer'[v] = writer[v]
    BY Zenon, <1>8 DEF Holders, Open
  <2>2. \A r : Tracked(r) => Tracked(r)'
    BY Zenon, <1>1, <1>10, <2>1 DEF Tracked
  <2>3. res = "uncertain" => \A r : r = b.rev => Tracked(r)'
    BY Zenon, <1>3, <1>6, <1>8, <1>10 DEF Tracked
  <2> QED BY Zenon, <1>1, <1>7, <2>2, <2>3 DEF Limbo, AfterCommit
<1>15. Effective'
  <2>1. \A v \in Open' : Unused(RevOf(v))' /\ writer'[v].batch.from.rev <= RevOf(v)'
    <3> SUFFICES ASSUME NEW v \in Open'
                 PROVE  Unused(RevOf(v))' /\ writer'[v].batch.from.rev <= RevOf(v)'
      BY Zenon
    <3>1. v \in Open /\ v \in Holders /\ v # w /\ RevOf(v)' = RevOf(v) /\ writer'[v] = writer[v]
      BY Zenon, <1>10 DEF Open, Holders
    <3>2. RevOf(v) \in Nat /\ RevOf(v) # b.rev
      BY Zenon, <1>3, <3>1, HolderBatch DEF Apart
    <3> QED BY Zenon, <1>7, <3>1, <3>2 DEF Effective, AfterCommit
  <2>2. retrier.step = "commit" => Unused(retrier.rev)'
    BY Zenon, <1>1, <1>3, <1>7, RetrierTypes DEF Effective, Apart, Rewriting,
      AfterCommit
  <2> QED BY Zenon, <1>1, <1>7, <2>1, <2>2 DEF Effective, AfterCommit
<1> QED BY Zenon, <1>7, <1>9, <1>12, <1>13, <1>14, <1>15 DEF AfterCommit

\* The last commit of a request.
LEMMA CommitWriteInv == ASSUME Inv, NEW w \in Writers, CommitWrite(w)
                        PROVE  Inv'
<1>1. w \in Open
  BY Zenon DEF CommitWrite, Open
<1>2. PICK res \in Results : Commit(writer[w].batch, WriteFaults, res) /\ Finish(w, res)
  BY Zenon DEF CommitWrite
<1> QED BY Zenon, <1>1, <1>2, FinishInv DEF CommitWrite

\* The first commit of a Create.
LEMMA PutIfNotExistInv == ASSUME Inv, NEW w \in Writers, PutIfNotExist(w)
                          PROVE  Inv'
<1>1. w \in Open /\ TypeOK /\ ~panicked
  BY Zenon DEF PutIfNotExist, Open, Inv
<1>2. PICK res \in Results :
        /\ Commit(writer[w].batch, WriteFaults, res)
        /\ \/ Finish(w, res)
           \/ res = "failed" /\ writer' = [writer EXCEPT ![w].step = "lookup"]
  BY Zenon DEF PutIfNotExist
<1>3. CASE Finish(w, res)
  BY Zenon, <1>1, <1>2, <1>3, FinishInv DEF PutIfNotExist
<1>4. CASE res = "failed" /\ writer' = [writer EXCEPT ![w].step = "lookup"]
  <2>1. PICK q : q = [writer[w] EXCEPT !.step = "lookup"]
    BY Zenon
  <2>2. writer' = [writer EXCEPT ![w] = q]
    BY Zenon, <1>4, <2>1 DEF Inv, TypeOK
  <2>3. UNCHANGED storeVars
    BY Zenon, <1>2, <1>4 DEF Commit
  <2>4. writer[w] \in Requests
    BY Zenon, <1>1, HolderTypes DEF Open, Holders
  <2>5. q \in Requests /\ q.batch = writer[w].batch
    BY Zenon, <2>1, <2>4 DEF Requests
  <2>6. q.batch.rev = RevOf(w) /\ q.batch.from.rev <= RevOf(w)
    BY Zenon, <1>1, <2>5 DEF RevOf, Inv, Effective
  <2> QED BY Zenon, <1>1, <2>2, <2>3, <2>5, <2>6, WriterInv DEF PutIfNotExist
<1> QED BY Zenon, <1>2, <1>3, <1>4

\* What a Create does after a conflict.
LEMMA LookupInv == ASSUME Inv, NEW w \in Writers, Lookup(w)
                   PROVE  Inv'
<1> DEFINE b == writer[w].batch
           old == index[b.key]
<1>1. w \in Open /\ TypeOK /\ writer[w] \in Requests /\ b \in Batches
  BY Zenon, HolderTypes, HolderBatch DEF Lookup, Open, Holders, Inv
<1>2. UNCHANGED <<ringVars, storeVars, retryVars, compactor, view>>
  BY Zenon DEF Lookup
<1>3. CASE Finish(w, "failed")
  <2>1. PICK q \in Requests : /\ writer' = [writer EXCEPT ![w] = q]
                              /\ q.step = "notify" /\ q.result = "failed"
                              /\ q.batch.rev = RevOf(w)
    BY Zenon, <1>1, <1>3, FinishTypes DEF Results
  <2> QED BY Zenon, <1>1, <1>2, <2>1, WriterInv
<1>4. CASE /\ old = Absent \/ (old.del /\ old.rev < b.rev)
           /\ writer' = [writer EXCEPT ![w].step = "commit", ![w].batch.from = old]
  <2>1. b.key \in Keys /\ b.rev \in Nat
    BY Zenon, <1>1, StoreTypes
  <2>2. old \in [rev : Nat, del : BOOLEAN] /\ old.rev <= b.rev
    <3>1. old \in Entries
      BY Zenon, <1>1, <2>1 DEF TypeOK
    <3>2. CASE old = Absent
      BY <2>1, <3>2 DEF Absent
    <3>3. CASE old # Absent
      <4>1. old \in [rev : Nat, del : BOOLEAN] /\ old.rev < b.rev /\ old.rev \in Nat
        BY <1>4, <3>1, <3>3 DEF Entries, Revisions
      <4> QED BY <2>1, <4>1
    <3> QED BY Zenon, <3>2, <3>3
  <2>3. PICK c : c = [b EXCEPT !.from = old]
    BY Zenon
  <2>4. PICK q : q = [writer[w] EXCEPT !.step = "commit", !.batch = c]
    BY Zenon
  <2>5. c \in Batches /\ c.from = old /\ c.rev = b.rev
    <3> HIDE DEF old, b
    <3> QED BY Zenon, <1>1, <2>2, <2>3 DEF Batches
  <2>6. q \in Requests /\ q.batch = c
    <3> QED BY Zenon, <1>1, <2>4, <2>5 DEF Requests
  <2>7. writer' = [writer EXCEPT ![w] = q]
    BY Zenon, <1>1, <1>4, <2>3, <2>4 DEF TypeOK, Requests
  <2> QED BY Zenon, <1>1, <1>2, <2>2, <2>5, <2>6, <2>7, WriterInv DEF RevOf
<1> QED BY Zenon, <1>3, <1>4 DEF Lookup

-----------------------------------------------------------------------------
(* The ring.                                                               *)

\* An event with a revision that is not published finds its slot empty, or
\* the process panics.
LEMMA HandInRing ==
  ASSUME Inv, ~panicked, NEW k \in Keys, NEW rev \in Revisions, NEW val \in Values,
         NEW res \in Results, Unpublished(rev), HandIn(k, rev, val, res),
         UNCHANGED <<committedRevision, dealRevision, collector>>
  PROVE  /\ ring' \in [Slots -> Events \cup {Nil}] /\ panicked' \in BOOLEAN
         /\ Ringed'
         /\ \A r \in Nat : Unpublished(r) /\ r # rev => Unpublished(r)'
         /\ \/ panicked'
            \/ /\ \A s \in Slots : ring[s] # Nil => ring'[s] = ring[s]
               /\ \E s \in Slots : /\ ring'[s] # Nil
                                   /\ ring'[s].result = res /\ ring'[s].revision = rev
<1> USE DEF Inv
<1>1. CASE BufferFull(rev)
  <2>1. panicked' = TRUE /\ ring' = ring
    BY Zenon, <1>1 DEF HandIn
  <2> QED BY Zenon, <2>1 DEF TypeOK, Ringed, Unpublished
<1>2. CASE ~BufferFull(rev)
  <2>1. PICK e : e = [revision |-> rev, result |-> res, key |-> k, val |-> val]
    BY Zenon
  <2>2. e \in Events /\ e.revision = rev /\ e.result = res /\ rev \in Nat
    BY <2>1 DEF Events, Revisions
  <2>3. ring' = [ring EXCEPT ![Slot(rev)] = e] /\ panicked' = panicked
    BY Zenon, <1>2, <2>1, <2>2 DEF HandIn, StoreEvent
  <2>4. Slot(rev) \in Slots
    BY Zenon, <2>2, SlotInSlots
  <2>5. ring'[Slot(rev)] = e /\ \A s \in Slots : s # Slot(rev) => ring'[s] = ring[s]
    BY Zenon, <2>3, <2>4 DEF TypeOK
  <2>6. /\ committedRevision \in Nat /\ rev > committedRevision /\ rev <= dealRevision
        /\ rev - committedRevision < Capacity /\ Capacity \in Nat /\ dealRevision \in Nat
    BY <1>2, <2>2, CapacityAssumption, WritePathAssumption DEF BufferFull, Unpublished,
      TypeOK
  <2>7. ring[Slot(rev)] = Nil
    <3> SUFFICES ASSUME ring[Slot(rev)] # Nil
                 PROVE  FALSE
      BY Zenon
    <3>1. PICK a \in Nat : a = ring[Slot(rev)].revision
      BY Zenon, <2>4, EventTypes
    <3>2. a > committedRevision /\ a < committedRevision + Capacity /\ Slot(a) = Slot(rev)
      BY <2>4, <2>6, <3>1 DEF Ringed
    <3>3. a = rev
      BY <2>2, <2>6, <3>2, SlotUnique
    <3> QED BY Zenon, <2>4, <3>1, <3>3 DEF Unpublished
  <2>8. ring' \in [Slots -> Events \cup {Nil}]
    BY Zenon, <2>2, <2>3 DEF TypeOK
  <2>9. Ringed'
    <3> SUFFICES ASSUME NEW s \in Slots, ring'[s] # Nil
                 PROVE  /\ ring'[s].revision \in committedRevision + 1 .. dealRevision
                        /\ ring'[s].revision < committedRevision + Capacity
                        /\ Slot(ring'[s].revision) = s
                        /\ ring'[s].revision # collector.event.revision
      BY Zenon DEF Ringed, Slot
    <3>1. CASE s = Slot(rev)
      BY <2>2, <2>5, <2>6, <3>1 DEF Unpublished
    <3>2. CASE s # Slot(rev)
      BY Zenon, <2>5, <3>2 DEF Ringed
    <3> QED BY Zenon, <3>1, <3>2
  <2>10. \A r \in Nat : Unpublished(r) /\ r # rev => Unpublished(r)'
    BY Zenon, <2>2, <2>5 DEF Unpublished
  <2>11. e # Nil
    BY Zenon, <2>2, EventTypes
  <2>12. panicked' \in BOOLEAN
    BY Zenon, <2>3 DEF TypeOK
  <2>13. \A s \in Slots : ring[s] # Nil => ring'[s] = ring[s]
    BY Zenon, <2>5, <2>7
  <2> QED BY Zenon, <2>2, <2>4, <2>5, <2>8, <2>9, <2>10, <2>11, <2>12, <2>13
<1> QED BY Zenon, <1>1, <1>2

\* A request hands in its result.
LEMMA NotifyInv == ASSUME Inv, NEW w \in Writers, Notify(w)
                   PROVE  Inv'
<1> USE DEF Inv
<1>1. /\ ~panicked /\ writer[w].step = "notify"
      /\ writer' = [writer EXCEPT ![w] = Idle]
      /\ UNCHANGED <<committedRevision, dealRevision, collector, index, objects, limbo,
                     retryQueue, retrier, compactor, view>>
  BY Zenon DEF Notify, storeVars, retryVars
<1>2. w \in Holders
  BY Zenon, <1>1 DEF Holders
<1>3. PICK b \in Batches : b = writer[w].batch
  BY Zenon, <1>2, HolderBatch
<1>4. /\ b.key \in Keys /\ b.rev \in Revisions /\ b.val \in Values /\ b.rev \in Nat
      /\ writer[w].result \in Results /\ RevOf(w) = b.rev
  BY Zenon, <1>2, <1>3, HolderBatch, StoreTypes DEF RevOf
<1>5. PICK res \in Results : res = writer[w].result
  BY Zenon, <1>4
<1>6. Unpublished(b.rev)
  BY Zenon, <1>2, <1>4 DEF Apart
<1>7. HandIn(b.key, b.rev, b.val, res)
  BY Zenon, <1>3, <1>5 DEF Notify, HandIn, BufferFull, StoreEvent
<1>8. /\ ring' \in [Slots -> Events \cup {Nil}] /\ panicked' \in BOOLEAN
      /\ Ringed'
      /\ \A r \in Nat : Unpublished(r) /\ r # b.rev => Unpublished(r)'
      /\ \/ panicked'
         \/ /\ \A s \in Slots : ring[s] # Nil => ring'[s] = ring[s]
            /\ \E s \in Slots : /\ ring'[s] # Nil
                                /\ ring'[s].result = res /\ ring'[s].revision = b.rev
  BY <1>1, <1>4, <1>6, <1>7, HandInRing
<1>9. writer'[w] = Idle /\ \A v \in Writers : v # w => writer'[v] = writer[v]
  BY Zenon, <1>1 DEF TypeOK
<1>10. /\ \A v \in Holders' : v \in Holders /\ v # w /\ RevOf(v)' = RevOf(v)
       /\ \A v \in Holders : v # w => v \in Holders' /\ RevOf(v)' = RevOf(v)
       /\ \A v \in Open' : v \in Open /\ v # w /\ writer'[v] = writer[v]
  BY <1>9 DEF Holders, Open, RevOf, Idle
<1>11. TypeOK'
  <2>1. writer' \in [Writers -> {Idle} \cup Deletes \cup Requests]
    BY Zenon, <1>1 DEF TypeOK
  <2> QED BY Zenon, <1>1, <1>8, <2>1 DEF TypeOK
<1>12. Apart'
  <2>1. \A v \in Holders' : RevOf(v)' \in Nat /\ RevOf(v)' # b.rev
    BY <1>2, <1>4, <1>10, HolderBatch DEF Apart
  <2>2. Rewriting => Unpublished(retrier.rev)'
    BY Zenon, <1>1, <1>2, <1>4, <1>8, RetrierTypes DEF Apart
  <2> QED BY <1>1, <1>8, <1>10, <2>1, <2>2 DEF Apart, Rewriting
<1>13. Collecting' /\ Queued' /\ Retrying'
  BY Zenon, <1>1 DEF Collecting, Queued, Retrying
<1>14. Limbo'
  <2> SUFFICES ASSUME ~panicked', NEW a \in limbo
               PROVE  Tracked(a.rev)'
    BY Zenon, <1>1 DEF Limbo
  <2>1. Tracked(a.rev)
    BY Zenon, <1>1 DEF Limbo
  <2>2. CASE \E v \in Holders : writer[v].step = "notify" /\ writer[v].result = "uncertain" /\ RevOf(v) = a.rev
    <3>1. PICK v \in Holders : writer[v].step = "notify" /\ writer[v].result = "uncertain" /\ RevOf(v) = a.rev
      BY Zenon, <2>2
    <3>2. CASE v = w
      BY Zenon, <1>1, <1>4, <1>5, <1>8, <3>1, <3>2 DEF Tracked
    <3>3. CASE v # w
      BY <1>1, <1>9, <1>10, <3>1, <3>3 DEF Tracked, Holders
    <3> QED BY Zenon, <3>2, <3>3
  <2>3. CASE ~\E v \in Holders : writer[v].step = "notify" /\ writer[v].result = "uncertain" /\ RevOf(v) = a.rev
    BY Zenon, <1>1, <1>8, <2>1, <2>3 DEF Tracked
  <2> QED BY Zenon, <2>2, <2>3
<1>15. Effective'
  <2>1. \A r : Unused(r) => Unused(r)'
    BY Zenon, <1>1 DEF Unused
  <2>2. Open' \subseteq Holders'
    BY Zenon DEF Open, Holders
  <2> QED BY Zenon, <1>1, <1>10, <2>1, <2>2 DEF Effective
<1>16. Indexed' /\ Ordered' /\ Compacting'
  BY Zenon, <1>1 DEF Indexed, Ordered, Newest, NewestAt, Compacting,
    CompactBelowUncertain
<1> QED BY Zenon, <1>8, <1>11, <1>12, <1>13, <1>14, <1>15, <1>16

\* The retry loop hands in the result of its rewrite.
LEMMA RetryDispatchInv == ASSUME Inv, RetryDispatch
                          PROVE  Inv'
<1> USE DEF Inv
<1>1. /\ ~panicked /\ retrier.step = "dispatch" /\ retrier' = [step |-> "pop"]
      /\ UNCHANGED <<committedRevision, dealRevision, collector, index, objects, limbo,
                     writer, retryQueue, compactor, view>>
  BY Zenon DEF RetryDispatch, storeVars
<1>2. PICK rev \in Revisions : rev = retrier.rev
  BY Zenon, <1>1, RetrierTypes
<1>3. PICK res \in Results : res = retrier.result
  BY Zenon, <1>1, RetrierTypes
<1>4. retryQueue # <<>> /\ \A b \in limbo : b.rev # Head(retryQueue).revision
  BY <1>1 DEF Retrying, Idle
<1>5. PICK u \in Events : u = Head(retryQueue)
  BY <1>4 DEF TypeOK
<1>6. u.key \in Keys /\ u.val \in Values /\ rev \in Nat
  BY EventTypes DEF Revisions
<1>7. Unpublished(rev) /\ \A v \in Holders : RevOf(v) # rev
  BY Zenon, <1>1, <1>2 DEF Apart, Rewriting
<1>8. HandIn(u.key, rev, u.val, res)
  BY Zenon, <1>2, <1>3, <1>5 DEF RetryDispatch, HandIn, BufferFull, StoreEvent
<1>9. /\ ring' \in [Slots -> Events \cup {Nil}] /\ panicked' \in BOOLEAN
      /\ Ringed'
      /\ \A r \in Nat : Unpublished(r) /\ r # rev => Unpublished(r)'
      /\ \/ panicked'
         \/ /\ \A s \in Slots : ring[s] # Nil => ring'[s] = ring[s]
            /\ \E s \in Slots : /\ ring'[s] # Nil
                                /\ ring'[s].result = res /\ ring'[s].revision = rev
  BY <1>1, <1>6, <1>7, <1>8, HandInRing
<1>10. Holders' = Holders /\ Open' = Open /\ \A v \in Writers : RevOf(v)' = RevOf(v)
  BY Zenon, <1>1 DEF Holders, Open, RevOf
<1>11. TypeOK'
  <2>1. retrier' \in Retriers
    BY Zenon, <1>1 DEF Retriers
  <2> QED BY Zenon, <1>1, <1>9, <2>1 DEF TypeOK
<1>12. Apart'
  <2>1. ~Rewriting'
    BY Zenon, <1>1 DEF Rewriting
  <2>2. \A v \in Holders : RevOf(v) \in Nat /\ RevOf(v)' = RevOf(v)
    BY Zenon, <1>10, HolderBatch DEF Holders
  <2> QED BY <1>7, <1>9, <1>10, <2>1, <2>2 DEF Apart
<1>13. Collecting' /\ Queued' /\ Retrying'
  BY Zenon, <1>1, <1>4 DEF Collecting, Queued, Retrying
<1>14. Limbo'
  <2> SUFFICES ASSUME ~panicked', NEW a \in limbo
               PROVE  Tracked(a.rev)'
    BY Zenon, <1>1 DEF Limbo
  <2>1. Tracked(a.rev)
    BY Zenon, <1>1 DEF Limbo
  <2>2. CASE retrier.result = "uncertain" /\ retrier.rev = a.rev
    BY Zenon, <1>1, <1>2, <1>3, <1>9, <2>2 DEF Tracked
  <2>3. CASE ~(retrier.result = "uncertain" /\ retrier.rev = a.rev)
    <3>1. \A v \in Holders : v \in Holders' /\ RevOf(v)' = RevOf(v) /\ writer'[v] = writer[v]
      BY Zenon, <1>1, <1>10 DEF Holders
    <3> QED BY Zenon, <1>1, <1>9, <2>1, <2>3, <3>1 DEF Tracked
  <2> QED BY Zenon, <2>2, <2>3
<1>15. Effective'
  <2>1. \A r : Unused(r) => Unused(r)'
    BY Zenon, <1>1 DEF Unused
  <2>2. \A v \in Open : RevOf(v)' = RevOf(v)
    BY Zenon, <1>10 DEF Open
  <2> QED BY Zenon, <1>1, <1>10, <2>1, <2>2 DEF Effective
<1>16. Indexed' /\ Ordered' /\ Compacting'
  BY Zenon, <1>1 DEF Indexed, Ordered, Newest, NewestAt, Compacting,
    CompactBelowUncertain
<1> QED BY Zenon, <1>9, <1>11, <1>12, <1>13, <1>14, <1>15, <1>16

\* The collector takes the next event out of the ring.
LEMMA TakeInv == ASSUME Inv, Take
                 PROVE  Inv'
<1> USE DEF Inv
<1>1. /\ ~panicked /\ collector.step = "load" /\ collector.event = Nil
      /\ committedRevision \in Nat /\ dealRevision \in Nat /\ Capacity \in Nat
  BY CapacityAssumption, WritePathAssumption DEF Take, Collecting, TypeOK
<1>2. UNCHANGED <<committedRevision, dealRevision, panicked, index, objects, limbo, writer,
                  retrier, compactor, view>>
  BY Zenon DEF Take, storeVars
<1>3. PICK s \in Slots : s = Slot(committedRevision + 1)
  BY <1>1, SlotInSlots
<1>4. PICK e \in Events : e = ring[s] /\ ring[s] # Nil
  BY Zenon, <1>3, EventTypes DEF Take
<1>5. e.revision = committedRevision + 1 /\ committedRevision < dealRevision
  <2>1. e.revision \in Nat /\ e.revision > committedRevision /\ Slot(e.revision) = s
        /\ e.revision < committedRevision + Capacity /\ e.revision <= dealRevision
    BY <1>1, <1>4, EventTypes DEF Ringed
  <2>2. e.revision = committedRevision + 1
    BY <1>1, <1>3, <2>1, SlotUnique
  <2> QED BY <1>1, <2>1, <2>2
<1>6. /\ ring' = [ring EXCEPT ![s] = Nil]
      /\ collector' = [step |-> "commit", event |-> e]
      /\ retryQueue' = IF e.result = "uncertain" THEN Append(retryQueue, e) ELSE retryQueue
  BY Zenon, <1>3, <1>4, <1>5 DEF Take
<1>7. ring'[s] = Nil /\ \A t \in Slots : t # s => ring'[t] = ring[t]
  BY Zenon, <1>6 DEF TypeOK
<1>8. collector'.step = "commit" /\ collector'.event = e /\ e # Nil
  BY Zenon, <1>4, <1>6
<1>9. TypeOK'
  <2>1. ring' \in [Slots -> Events \cup {Nil}]
    BY Zenon, <1>6 DEF TypeOK
  <2>2. collector' \in [step : {"load", "commit"}, event : Events \cup {Nil}]
    BY Zenon, <1>6
  <2>3. retryQueue' \in Seq(Events)
    BY <1>6 DEF TypeOK
  <2> QED BY Zenon, <1>2, <2>1, <2>2, <2>3 DEF TypeOK
<1>10. \A r \in Nat : Unpublished(r) => Unpublished(r)'
  <2>1. \A r : Unpublished(r) => r # e.revision
    BY Zenon, <1>4 DEF Unpublished
  <2>2. \A r \in Nat : Unpublished(r) => r # 0
    BY <1>1 DEF Unpublished
  <2> QED BY Zenon, <1>2, <1>7, <1>8, <2>1, <2>2, EventTypes DEF Unpublished
<1>11. /\ Holders' = Holders /\ Open' = Open
       /\ \A v \in Holders : RevOf(v)' = RevOf(v) /\ RevOf(v) \in Nat /\ writer'[v] = writer[v]
  BY Zenon, <1>2, HolderBatch DEF Holders, Open, RevOf
<1>12. Apart'
  BY <1>2, <1>10, <1>11, RetrierTypes DEF Apart, Rewriting
<1>13. Ringed'
  <2> SUFFICES ASSUME NEW t \in Slots, ring'[t] # Nil
               PROVE  /\ ring'[t].revision \in committedRevision + 1 .. dealRevision
                      /\ ring'[t].revision < committedRevision + Capacity
                      /\ Slot(ring'[t].revision) = t
                      /\ ring'[t].revision # e.revision
    BY Zenon, <1>2, <1>8 DEF Ringed, Slot
  <2>1. t # s /\ ring'[t] = ring[t] /\ ring[t] # Nil
    BY Zenon, <1>7
  <2>2. Slot(ring[t].revision) = t /\ Slot(ring[s].revision) = s
    BY Zenon, <1>4, <2>1 DEF Ringed
  <2> QED BY Zenon, <1>4, <2>1, <2>2 DEF Ringed
<1>14. Collecting'
  BY Zenon, <1>1, <1>2, <1>5, <1>8 DEF Collecting
<1> DEFINE n == Len(retryQueue)
<1>15. /\ n \in Nat /\ DOMAIN retryQueue = 1 .. n
       /\ \A i \in DOMAIN retryQueue : i \in DOMAIN retryQueue' /\ retryQueue'[i] = retryQueue[i]
       /\ \A i \in DOMAIN retryQueue' : \/ i \in DOMAIN retryQueue
                                        \/ i = n + 1 /\ retryQueue'[i] = e
       /\ e.result = "uncertain" => n + 1 \in DOMAIN retryQueue' /\ retryQueue'[n + 1] = e
       /\ retryQueue # <<>> => retryQueue' # <<>> /\ Head(retryQueue') = Head(retryQueue)
  BY <1>6 DEF TypeOK
<1>16. \A i \in DOMAIN retryQueue : /\ retryQueue[i].revision <= committedRevision
                                    /\ retryQueue[i].revision < e.revision
  BY <1>1, <1>5, EventTypes DEF Queued
<1> HIDE DEF n
<1>17. Queued'
  <2>1. \A i, j \in DOMAIN retryQueue' : i < j => retryQueue'[i].revision < retryQueue'[j].revision
    <3> SUFFICES ASSUME NEW i \in DOMAIN retryQueue', NEW j \in DOMAIN retryQueue', i < j
                 PROVE  retryQueue'[i].revision < retryQueue'[j].revision
      BY Zenon
    <3>1. i \in DOMAIN retryQueue
      BY <1>15
    <3> QED BY Zenon, <1>15, <1>16, <3>1 DEF Queued
  <2>2. \A i \in DOMAIN retryQueue' : \/ retryQueue'[i].revision <= committedRevision
                                      \/ retryQueue'[i].revision = e.revision
    BY Zenon, <1>15, <1>16
  <2> QED BY Zenon, <1>2, <1>8, <2>1, <2>2 DEF Queued
<1>18. Retrying'
  BY Zenon, <1>2, <1>15 DEF Retrying
<1>19. Limbo'
  <2> SUFFICES ASSUME NEW a \in limbo
               PROVE  Tracked(a.rev)'
    BY Zenon, <1>2 DEF Limbo
  <2>1. Tracked(a.rev)
    BY Zenon, <1>1 DEF Limbo
  <2>2. CASE \E t \in Slots : ring[t] # Nil /\ ring[t].result = "uncertain" /\ ring[t].revision = a.rev
    <3>1. PICK t \in Slots : ring[t] # Nil /\ ring[t].result = "uncertain" /\ ring[t].revision = a.rev
      BY Zenon, <2>2
    <3>2. CASE t = s
      BY Zenon, <1>2, <1>4, <1>15, <3>1, <3>2 DEF Tracked
    <3>3. CASE t # s
      BY Zenon, <1>2, <1>7, <3>1, <3>3 DEF Tracked
    <3> QED BY Zenon, <3>2, <3>3
  <2>3. CASE ~\E t \in Slots : ring[t] # Nil /\ ring[t].result = "uncertain" /\ ring[t].revision = a.rev
    BY Zenon, <1>2, <1>11, <1>15, <2>1, <2>3 DEF Tracked
  <2> QED BY Zenon, <2>2, <2>3
<1>20. Effective'
  <2>1. \A r : Unused(r) => Unused(r)'
    BY Zenon, <1>2 DEF Unused
  <2>2. Open \subseteq Holders
    BY Zenon DEF Open, Holders
  <2> QED BY Zenon, <1>2, <1>11, <2>1, <2>2 DEF Effective
<1>21. Indexed' /\ Ordered'
  BY Zenon, <1>2 DEF Indexed, Ordered, Newest, NewestAt
<1>22. Compacting'
  <2>1. compactor.step = "scan" => compactor # Idle /\ compactor.rev \in Nat
    BY DEF TypeOK, Idle
  <2>2. compactor.step = "scan" => \A i \in DOMAIN retryQueue' : compactor.rev < retryQueue'[i].revision
    BY <1>1, <1>5, <1>15, <2>1 DEF Compacting, CompactBelowUncertain
  <2> QED BY Zenon, <1>2, <2>2 DEF Compacting, CompactBelowUncertain
<1> QED BY Zenon, <1>9, <1>12, <1>13, <1>14, <1>17, <1>18, <1>19, <1>20, <1>21, <1>22

\* The collector makes the revision at hand known.
LEMMA PublishInv == ASSUME Inv, Publish
                    PROVE  Inv'
<1> USE DEF Inv
<1>1. PICK e \in Events : e = collector.event
  BY Zenon, EventTypes DEF Publish, Collecting
<1>2. /\ ~panicked /\ collector.step = "commit" /\ committedRevision' = e.revision
      /\ dealRevision' = IF dealRevision < e.revision THEN e.revision ELSE dealRevision
      /\ collector' = [step |-> "load", event |-> Nil]
      /\ view' = IF e.result = "ok" THEN [view EXCEPT ![e.key] = e.val] ELSE view
  BY Zenon, <1>1 DEF Publish, TSOCommit
<1>3. UNCHANGED <<ring, panicked, index, objects, limbo, writer, retryQueue, retrier, compactor>>
  BY Zenon DEF Publish, storeVars, retryVars
<1>4. /\ committedRevision \in Nat /\ dealRevision \in Nat /\ Capacity \in Nat
      /\ e.revision = committedRevision + 1 /\ committedRevision < dealRevision
  BY <1>1, <1>2, CapacityAssumption, WritePathAssumption DEF TypeOK, Collecting
<1>5. committedRevision' = committedRevision + 1 /\ dealRevision' = dealRevision
  BY <1>2, <1>4
<1>6. collector'.step = "load" /\ collector'.event = Nil /\ Nil.revision = 0
  BY Zenon, <1>2, EventTypes
<1>7. TypeOK'
  <2>1. view' \in [Keys -> Values]
    BY Zenon, <1>2, EventTypes DEF TypeOK
  <2>2. collector' \in [step : {"load", "commit"}, event : Events \cup {Nil}]
    BY Zenon, <1>2
  <2> QED BY <1>3, <1>4, <1>5, <2>1, <2>2 DEF TypeOK
<1>8. \A r \in Nat : Unpublished(r) => Unpublished(r)'
  BY <1>1, <1>3, <1>4, <1>5, <1>6 DEF Unpublished
<1>9. /\ Holders' = Holders /\ Open' = Open
      /\ \A v \in Holders : RevOf(v)' = RevOf(v) /\ RevOf(v) \in Nat /\ writer'[v] = writer[v]
  BY Zenon, <1>3, HolderBatch DEF Holders, Open, RevOf
<1>10. Apart'
  BY <1>3, <1>8, <1>9, RetrierTypes DEF Apart, Rewriting
<1>11. Ringed'
  <2> SUFFICES ASSUME NEW s \in Slots, ring[s] # Nil
               PROVE  /\ ring[s].revision \in committedRevision + 2 .. dealRevision
                      /\ ring[s].revision < committedRevision + 1 + Capacity
                      /\ Slot(ring[s].revision) = s
                      /\ ring[s].revision # 0
    BY <1>3, <1>4, <1>5, <1>6 DEF Ringed, Slot
  <2> QED BY <1>1, <1>4, EventTypes DEF Ringed
<1>12. Collecting' /\ Retrying'
  BY <1>3, <1>4, <1>5, <1>6 DEF Collecting, Retrying
<1>13. Queued'
  BY <1>1, <1>3, <1>4, <1>5, EventTypes DEF Queued
<1>14. Limbo'
  <2>1. \A r : Tracked(r) => Tracked(r)'
    BY Zenon, <1>3, <1>9 DEF Tracked
  <2> QED BY Zenon, <1>3, <2>1 DEF Limbo
<1>15. Effective'
  <2>1. \A r : Unused(r) => Unused(r)'
    BY Zenon, <1>3 DEF Unused
  <2>2. Open \subseteq Holders
    BY Zenon DEF Open, Holders
  <2> QED BY Zenon, <1>3, <1>9, <2>1, <2>2 DEF Effective
<1>16. Indexed' /\ Ordered'
  BY Zenon, <1>3, <1>5 DEF Indexed, Ordered, Newest, NewestAt
<1>17. Compacting'
  <2>1. compactor # Idle => compactor.rev \in Nat
    BY Zenon DEF TypeOK
  <2> QED BY <1>3, <1>4, <1>5, <2>1 DEF Compacting, CompactBelowUncertain
<1> QED BY Zenon, <1>7, <1>10, <1>11, <1>12, <1>13, <1>14, <1>15, <1>16, <1>17
-----------------------------------------------------------------------------
(* The engine and the retry loop.                                          *)

\* A batch in limbo takes effect, or never will.
LEMMA SettleInv == ASSUME Inv, NEW b \in limbo, Settle(b)
                   PROVE  Inv'
<1> USE DEF Inv
<1>1. ~panicked /\ limbo' = limbo \ {b} /\ b \in Batches
  BY Zenon DEF Settle, TypeOK
<1>2. UNCHANGED <<committedRevision, dealRevision, ring, collector, panicked, writer,
                  retryQueue, retrier, compactor, view>>
  BY Zenon DEF Settle, ringVars, retryVars
<1>3. Unused(b.rev) /\ b.from.rev <= b.rev /\ b.rev \in Nat
  BY Zenon, <1>1, StoreTypes DEF Effective
<1>4. b.rev <= dealRevision
  <2>1. Tracked(b.rev) /\ committedRevision \in Nat /\ dealRevision \in Nat
    BY <1>1, WritePathAssumption DEF Limbo, TypeOK
  <2>2. \A w \in Holders : RevOf(w) <= dealRevision
    BY <2>1, HolderBatch DEF Apart, Unpublished
  <2>3. \A s \in Slots : ring[s] # Nil => ring[s].revision <= dealRevision
    BY <2>1 DEF Ringed
  <2>4. Rewriting => retrier.rev <= dealRevision
    BY <2>1 DEF Apart, Unpublished
  <2>5. \A i \in DOMAIN retryQueue : retryQueue[i].revision <= dealRevision
    BY <2>1, EventTypes DEF Queued, Collecting
  <2> QED BY Zenon, <2>1, <2>2, <2>3, <2>4, <2>5 DEF Tracked, Rewriting
<1>5. /\ index' \in [Keys -> Entries] /\ objects' \in [Keys -> SUBSET Versions]
      /\ Indexed' /\ Ordered'
      /\ \A r \in Nat : Unused(r) /\ r # b.rev => Unused(r)'
  <2>1. CASE Matches(b) /\ Apply(b)
    <3>1. \A r \in Nat : Unused(r) /\ r # b.rev => Unused(r)'
      <4> SUFFICES ASSUME NEW r \in Nat, Unused(r), r # b.rev,
                          NEW k \in Keys, NEW o \in objects'[k]
                   PROVE  o.rev # r
        BY Zenon DEF Unused
      <4>1. o \in objects[k] \/ o = [rev |-> b.rev, val |-> b.val]
        BY Zenon, <1>1, <2>1, ApplyTypes
      <4> QED BY <4>1 DEF Unused
    <3> QED BY Zenon, <1>1, <1>2, <1>3, <1>4, <2>1, <3>1, ApplyTypes, ApplyStore
  <2>2. CASE UNCHANGED <<index, objects>>
    BY Zenon, <1>2, <2>2 DEF TypeOK, Indexed, Ordered, Newest, NewestAt, Unused
  <2> QED BY Zenon, <2>1, <2>2 DEF Settle
<1>6. TypeOK'
  BY Zenon, <1>1, <1>2, <1>5 DEF TypeOK
<1>7. /\ Holders' = Holders /\ Open' = Open /\ Open \subseteq Holders
      /\ \A v \in Holders : RevOf(v)' = RevOf(v) /\ RevOf(v) \in Nat /\ writer'[v] = writer[v]
  BY Zenon, <1>2, HolderBatch DEF Holders, Open, RevOf
<1>8. \A r : Unpublished(r) => Unpublished(r)'
  BY Zenon, <1>2 DEF Unpublished
<1>9. Apart'
  BY <1>2, <1>7, <1>8 DEF Apart, Rewriting
<1>10. Ringed' /\ Collecting' /\ Queued' /\ Retrying'
  BY Zenon, <1>1, <1>2 DEF Ringed, Collecting, Queued, Retrying
<1>11. Limbo'
  <2>1. \A r : Tracked(r) => Tracked(r)'
    BY Zenon, <1>2, <1>7 DEF Tracked
  <2> QED BY Zenon, <1>1, <1>2, <2>1 DEF Limbo
<1>12. Effective'
  <2>1. \A v \in Open : RevOf(v) # b.rev
    BY Zenon, <1>1, LimboApart
  <2>2. retrier.step = "commit" => Unused(retrier.rev)'
    BY Zenon, <1>1, <1>2, <1>5, LimboApart, RetrierTypes DEF Effective, Rewriting
  <2>3. \A a \in limbo' : a \in limbo /\ a.rev # b.rev /\ a.rev \in Nat
    BY Zenon, <1>1, StoreTypes DEF Effective
  <2> QED BY Zenon, <1>2, <1>5, <1>7, <2>1, <2>2, <2>3 DEF Effective
<1>13. Compacting'
  BY Zenon, <1>1, <1>2 DEF Compacting, CompactBelowUncertain
<1> QED BY Zenon, <1>5, <1>6, <1>9, <1>10, <1>11, <1>12, <1>13

\* The head leaves the retry queue.
LEMMA PopInv ==
  ASSUME Inv, retryQueue # <<>>, \A b \in limbo : b.rev # Head(retryQueue).revision,
         retryQueue' = Tail(retryQueue), retrier' = Idle, retrier.step \in {"idle", "pop"},
         UNCHANGED <<ringVars, storeVars, writer, compactor, view>>
  PROVE  Inv'
<1> USE DEF Inv
<1>1. UNCHANGED <<committedRevision, dealRevision, ring, collector, panicked, index, objects,
                  limbo, writer, compactor, view>>
  BY Zenon DEF ringVars, storeVars
<1>2. /\ retryQueue' \in Seq(Events)
      /\ Head(retryQueue) = retryQueue[1]
      /\ \A i \in DOMAIN retryQueue' : i \in Nat /\ i + 1 \in DOMAIN retryQueue
                                       /\ retryQueue'[i] = retryQueue[i + 1]
      /\ \A i \in DOMAIN retryQueue : i # 1 => i - 1 \in DOMAIN retryQueue'
                                               /\ retryQueue'[i - 1] = retryQueue[i]
  <2>1. PICK q \in Seq(Events) : q = retryQueue
    BY Zenon DEF TypeOK
  <2>2. q # <<>> /\ retryQueue' = Tail(q)
    BY Zenon, <2>1
  <2> HIDE DEF Inv
  <2>3. /\ Tail(q) \in Seq(Events) /\ Head(q) = q[1]
        /\ \A i \in DOMAIN Tail(q) : i \in Nat /\ i + 1 \in DOMAIN q /\ Tail(q)[i] = q[i + 1]
        /\ \A i \in DOMAIN q : i # 1 => i - 1 \in DOMAIN Tail(q) /\ Tail(q)[i - 1] = q[i]
    BY <2>2
  <2> QED BY Zenon, <2>1, <2>2, <2>3
<1>3. Idle.step = "idle" /\ Idle \in Retriers
  BY Zenon DEF Idle, Retriers
<1>4. TypeOK'
  BY Zenon, <1>1, <1>2, <1>3 DEF TypeOK
<1>5. /\ Holders' = Holders /\ Open' = Open /\ Open \subseteq Holders
      /\ \A v \in Holders : RevOf(v)' = RevOf(v) /\ writer'[v] = writer[v]
  BY Zenon, <1>1 DEF Holders, Open, RevOf
<1>6. \A r : Unpublished(r) => Unpublished(r)'
  BY Zenon, <1>1 DEF Unpublished
<1>7. Apart' /\ Ringed' /\ Collecting' /\ Retrying'
  <2>1. ~Rewriting'
    <3>1. retrier'.step = "idle"
      BY Zenon, <1>3
    <3> QED BY Zenon, <3>1 DEF Rewriting
  <2>2. \A v \in Holders : Unpublished(RevOf(v))'
    <3>1. SUFFICES ASSUME NEW v \in Holders
                   PROVE  Unpublished(RevOf(v))'
      BY Zenon
    <3>2. PICK r : r = RevOf(v)
      BY Zenon
    <3>3. Unpublished(r)' /\ RevOf(v)' = r
      BY Zenon, <1>5, <1>6, <3>2 DEF Apart
    <3> QED BY <3>3 DEF Unpublished
  <2>3. Apart'
    <3>1. \A v, w \in Holders : RevOf(v)' = RevOf(w)' => v = w
      <4>1. SUFFICES ASSUME NEW v \in Holders, NEW w \in Holders, RevOf(v)' = RevOf(w)'
                     PROVE  v = w
        BY Zenon
      <4>2. RevOf(v) = RevOf(w)
        BY Zenon, <1>5, <4>1
      <4> QED BY Zenon, <4>2 DEF Apart
    <3> QED BY <1>5, <2>1, <2>2, <3>1 DEF Apart
  <2>4. Ringed' /\ Collecting'
    BY Zenon, <1>1 DEF Ringed, Collecting
  <2>5. Retrying'
    BY Zenon DEF Retrying
  <2> QED BY Zenon, <2>3, <2>4, <2>5
<1>8. Queued'
  <2>1. \A i, j \in DOMAIN retryQueue' : i < j => retryQueue'[i].revision < retryQueue'[j].revision
    BY <1>2 DEF Queued
  <2>2. \A i \in DOMAIN retryQueue' : \/ retryQueue'[i].revision <= committedRevision
                                      \/ retryQueue'[i].revision = collector.event.revision
    BY <1>2 DEF Queued
  <2> QED BY Zenon, <1>1, <2>1, <2>2 DEF Queued
<1>9. Limbo'
  <2>1. \A a \in limbo : Tracked(a.rev) => Tracked(a.rev)'
    <3> SUFFICES ASSUME NEW a \in limbo, Tracked(a.rev)
                 PROVE  Tracked(a.rev)'
      BY Zenon
    <3>1. CASE \E i \in DOMAIN retryQueue : retryQueue[i].revision = a.rev
      <4>1. PICK i \in DOMAIN retryQueue : retryQueue[i].revision = a.rev
        BY Zenon, <3>1
      <4>2. i # 1
        <5>1. Head(retryQueue) = retryQueue[1]
          BY Zenon, <1>2
        <5>2. retryQueue[1].revision # a.rev
          BY Zenon, <5>1
        <5> QED BY Zenon, <4>1, <5>2
      <4>3. \E j \in DOMAIN retryQueue' : retryQueue'[j].revision = a.rev
        BY <1>2, <4>1, <4>2
      <4> QED BY Zenon, <1>1, <4>3 DEF Tracked
    <3>2. CASE ~\E i \in DOMAIN retryQueue : retryQueue[i].revision = a.rev
      BY Zenon, <1>1, <1>5, <3>2 DEF Tracked
    <3> QED BY Zenon, <3>1, <3>2
  <2> QED BY Zenon, <1>1, <2>1 DEF Limbo
<1>10. Effective'
  <2>1. \A r : Unused(r) => Unused(r)'
    BY Zenon, <1>1 DEF Unused
  <2> QED BY Zenon, <1>1, <1>3, <1>5, <2>1 DEF Effective
<1>11. Indexed' /\ Ordered'
  BY Zenon, <1>1 DEF Indexed, Ordered, Newest, NewestAt
<1>12. Compacting'
  BY Zenon, <1>1, <1>2 DEF Compacting, CompactBelowUncertain
<1> QED BY Zenon, <1>4, <1>7, <1>8, <1>9, <1>10, <1>11, <1>12

\* The retry loop is done with the head.
LEMMA RetryPopInv == ASSUME Inv, RetryPop
                     PROVE  Inv'
<1>1. retryQueue # <<>> /\ \A b \in limbo : b.rev # Head(retryQueue).revision
  BY DEF RetryPop, Inv, Retrying, Idle
<1> QED BY Zenon, <1>1, PopInv DEF RetryPop

\* The retry loop reads the head: it is popped, or a revision is dealt.
LEMMA RetryReadInv == ASSUME Inv, RetryRead
                      PROVE  Inv'
<1> USE DEF Inv
<1> DEFINE u == Head(retryQueue)
           cur == Latest(u.key)
<1>1. /\ ~panicked /\ retrier.step = "idle" /\ retrier = Idle /\ retryQueue # <<>>
      /\ \A b \in limbo : b.rev # u.revision
  BY Zenon, RetrierTypes DEF RetryRead
<1>2. UNCHANGED <<committedRevision, ring, collector, panicked, index, objects, limbo, writer,
                  compactor, view>>
  BY Zenon DEF RetryRead, storeVars
<1>3. CASE cur.rev # u.revision
  <2>1. retryQueue' = Tail(retryQueue) /\ UNCHANGED <<dealRevision, retrier>>
    BY Zenon, <1>3 DEF RetryRead
  <2> QED BY Zenon, <1>1, <1>2, <2>1, PopInv DEF ringVars, storeVars
<1>4. CASE cur.rev = u.revision
  <2>1. /\ dealRevision < MaxRevision /\ dealRevision' = dealRevision + 1
        /\ retrier' = [step |-> "commit", rev |-> dealRevision + 1, val |-> cur.val]
        /\ UNCHANGED retryQueue
    BY Zenon, <1>4 DEF RetryRead, TSODeal
  <2>2. dealRevision \in Nat /\ committedRevision \in Nat /\ dealRevision + 1 \in Revisions
    BY Zenon, <2>1, NextRevision DEF TypeOK
  <2>3. cur.val \in Values
    <3>1. u.key \in Keys
      BY <1>1, EventTypes DEF TypeOK
    <3>2. NoVersion.val \in Values
      BY Zenon DEF NoVersion, Values
    <3> QED BY Zenon, <2>2, <3>1, <3>2, LatestAtCases, StoreTypes DEF Latest, NewestAt
  <2> HIDE DEF cur, u
  <2>4. retrier'.step = "commit" /\ retrier'.rev = dealRevision + 1
    BY Zenon, <2>1
  <2>5. TypeOK'
    <3>1. retrier' \in Retriers
      BY Zenon, <2>1, <2>2, <2>3 DEF Retriers
    <3>2. dealRevision' \in StartRevision .. MaxRevision
      BY <2>1, WritePathAssumption DEF TypeOK
    <3> QED BY Zenon, <1>2, <2>1, <3>1, <3>2 DEF TypeOK
  <2>6. /\ Holders' = Holders /\ Open' = Open /\ Open \subseteq Holders
        /\ \A v \in Holders : RevOf(v)' = RevOf(v) /\ RevOf(v) \in Nat /\ writer'[v] = writer[v]
    BY Zenon, <1>2, HolderBatch DEF Holders, Open, RevOf
  <2>7. \A r \in Nat : Unpublished(r) => Unpublished(r)' /\ r <= dealRevision
    BY <1>2, <2>1, <2>2 DEF Unpublished
  <2>8. \A r \in Nat : r = dealRevision + 1 => Unpublished(r)'
    <3>1. \A s \in Slots : ring[s].revision # dealRevision + 1
      BY <2>2, EventTypes DEF Ringed
    <3>2. collector.event.revision # dealRevision + 1 /\ committedRevision <= dealRevision
      BY <2>2, EventTypes DEF Collecting
    <3> QED BY <1>2, <2>1, <2>2, <3>1, <3>2 DEF Unpublished
  <2>9. Apart'
    <3>1. Unpublished(retrier.rev)'
      BY <2>2, <2>4, <2>8
    <3>2. \A v \in Holders : RevOf(v) # dealRevision + 1
      BY <2>2, <2>6, <2>7 DEF Apart
    <3> QED BY <2>4, <2>6, <2>7, <3>1, <3>2 DEF Apart
  <2>10. Ringed' /\ Collecting' /\ Queued' /\ Retrying'
    <3>1. \A n \in Nat : /\ n \in committedRevision + 1 .. dealRevision
                              => n \in committedRevision + 1 .. dealRevision'
                         /\ n <= dealRevision => n <= dealRevision'
                         /\ n < dealRevision => n < dealRevision'
      BY <2>1, <2>2
    <3>2. Ringed'
      BY Zenon, <1>2, <3>1, EventTypes DEF Ringed
    <3>3. Collecting'
      BY Zenon, <1>2, <2>2, <3>1 DEF Collecting
    <3>4. Queued' /\ Retrying'
      BY Zenon, <1>1, <1>2, <2>1 DEF Queued, Retrying, u
    <3> QED BY Zenon, <3>2, <3>3, <3>4
  <2>11. Limbo'
    <3>1. \A r : Tracked(r) => Tracked(r)'
      BY Zenon, <1>1, <1>2, <2>1, <2>6 DEF Tracked
    <3> QED BY Zenon, <1>2, <3>1 DEF Limbo
  <2>12. Effective'
    <3>1. \A r : Unused(r) => Unused(r)'
      BY Zenon, <1>2 DEF Unused
    <3>2. \A r \in Nat : r = dealRevision + 1 => Unused(r)'
      <4>1. \A k \in Keys : \A o \in objects[k] : o.rev \in Nat /\ o.rev <= dealRevision
        BY Zenon, StoreTypes DEF Indexed
      <4>2. \A k \in Keys : \A o \in objects[k] : o.rev # dealRevision + 1
        BY <2>2, <4>1
      <4> QED BY Zenon, <1>2, <4>2 DEF Unused
    <3>3. \A v \in Open' : Unused(RevOf(v))' /\ writer'[v].batch.from.rev <= RevOf(v)'
      BY Zenon, <2>6, <3>1 DEF Effective
    <3>4. \A b \in limbo' : Unused(b.rev)' /\ b.from.rev <= b.rev
      BY Zenon, <1>2, <3>1 DEF Effective
    <3>5. \A a, b \in limbo' : a.rev = b.rev => a = b
      BY Zenon, <1>2 DEF Effective
    <3>6. dealRevision + 1 \in Nat
      BY <2>2
    <3>7. Unused(retrier.rev)'
      BY Zenon, <2>4, <3>2, <3>6 DEF Unused
    <3> QED BY Zenon, <3>3, <3>4, <3>5, <3>7 DEF Effective
  <2>13. Indexed' /\ Ordered' /\ Compacting'
    <3>1. \A k \in Keys : \A o \in objects[k] : o.rev \in Nat /\ o.rev <= dealRevision
      BY Zenon, StoreTypes DEF Indexed
    <3>2. \A k \in Keys : \A o \in objects[k] : o.rev <= dealRevision'
      BY <2>1, <2>2, <3>1
    <3>3. \A k, o : Newest(k, o) => Newest(k, o)'
      BY Zenon, <1>2 DEF Newest
    <3>4. Indexed'
      BY Zenon, <1>2, <3>2, <3>3 DEF Indexed
    <3>5. Ordered'
      BY Zenon, <1>2 DEF Ordered, NewestAt
    <3>6. Compacting'
      BY Zenon, <1>2, <2>1 DEF Compacting, CompactBelowUncertain
    <3> QED BY Zenon, <3>4, <3>5, <3>6
  <2> QED BY Zenon, <2>5, <2>9, <2>10, <2>11, <2>12, <2>13
<1> QED BY Zenon, <1>3, <1>4

\* The retry loop commits its rewrite.
LEMMA RetryCommitInv == ASSUME Inv, RetryCommit
                        PROVE  Inv'
<1> USE DEF Inv
<1>1. ~panicked /\ retrier.step = "commit"
  BY Zenon DEF RetryCommit
<1>2. UNCHANGED <<committedRevision, dealRevision, ring, collector, panicked, writer,
                  retryQueue, compactor, view>>
  BY Zenon DEF RetryCommit, ringVars
<1>3. PICK rev \in Revisions : rev = retrier.rev
  BY Zenon, <1>1, RetrierTypes
<1>4. PICK val \in Values : val = retrier.val
  BY Zenon, <1>1, RetrierTypes
<1>5. retryQueue # <<>> /\ \A a \in limbo : a.rev # Head(retryQueue).revision
  BY <1>1 DEF Retrying, Idle
<1>6. PICK u \in Events : u = Head(retryQueue)
  BY <1>5 DEF TypeOK
<1>7. Unpublished(rev) /\ Unused(rev) /\ rev \in Nat /\ \A v \in Holders : RevOf(v) # rev
  BY Zenon, <1>1, <1>3, RewriteApart
<1>8. u.revision < rev /\ u.revision \in Nat /\ u.key \in Keys
  <2>1. 1 \in DOMAIN retryQueue /\ u = retryQueue[1]
    BY <1>5, <1>6 DEF TypeOK
  <2> QED BY Zenon, <1>7, <2>1, QueueApart, EventTypes
<1>9. PICK b : b = Batch(u.key, [rev |-> u.revision, del |-> val = Tombstone], rev, val)
  BY Zenon
<1>10. b \in Batches /\ b.rev = rev /\ b.from.rev <= b.rev
  <2>1. PICK n \in Nat : n = u.revision
    BY Zenon, <1>8
  <2>2. n < rev /\ u.key \in Keys
    BY Zenon, <1>8, <2>1
  <2>3. b = Batch(u.key, [rev |-> n, del |-> val = Tombstone], rev, val)
    BY Zenon, <1>9, <2>1
  <2>4. RewriteOf(Batch(u.key, [rev |-> n, del |-> val = Tombstone], rev, val),
              u.key, n, rev, val)
    BY Zenon, <1>3, <1>4, <2>1, <2>2, RewriteBatch
  <2>5. RewriteOf(b, u.key, n, rev, val)
    BY Zenon, <2>3, <2>4
  <2>6. b.from.rev <= b.rev
    BY Zenon, <2>5 DEF RewriteOf
  <2> QED BY Zenon, <2>5, <2>6 DEF RewriteOf
<1>11. PICK res \in Results : /\ Commit(b, RewriteFaults, res)
                              /\ retrier' = [step |-> "dispatch", rev |-> rev, result |-> res]
  BY Zenon, <1>3, <1>4, <1>6, <1>9 DEF RetryCommit, Commit, Matches, Apply
<1>12. AfterCommit(b, res)
  <2>1. \A a \in limbo : a.rev # b.rev
    BY Zenon, <1>1, <1>3, <1>10, LimboApart
  <2> QED BY Zenon, <1>1, <1>2, <1>7, <1>10, <1>11, <2>1, CommitKeeps DEF ringVars
<1>13. retrier'.step = "dispatch" /\ retrier'.rev = rev /\ retrier'.result = res
  BY Zenon, <1>11
<1>14. TypeOK'
  <2>1. retrier' \in Retriers
    BY Zenon, <1>11 DEF Retriers
  <2> QED BY Zenon, <1>2, <1>12, <2>1 DEF TypeOK, AfterCommit
<1>15. /\ Holders' = Holders /\ Open' = Open /\ Open \subseteq Holders
       /\ \A v \in Holders : RevOf(v)' = RevOf(v) /\ RevOf(v) \in Nat /\ writer'[v] = writer[v]
  BY Zenon, <1>2, HolderBatch DEF Holders, Open, RevOf
<1>16. \A r : Unpublished(r) => Unpublished(r)'
  BY Zenon, <1>2 DEF Unpublished
<1>17. Apart'
  <2>1. \A v \in Holders' : v \in Holders /\ RevOf(v)' = RevOf(v)
    BY Zenon, <1>15
  <2>2. ASSUME NEW v \in Holders'
        PROVE  Unpublished(RevOf(v))' /\ RevOf(v)' # retrier'.rev
    <3>1. RevOf(v)' = RevOf(v) /\ Unpublished(RevOf(v)) /\ RevOf(v) # rev
      BY Zenon, <1>7, <2>1, <2>2 DEF Apart
    <3> QED BY <1>2, <1>13, <3>1 DEF Unpublished
  <2>3. ASSUME NEW v \in Holders', NEW x \in Holders', RevOf(v)' = RevOf(x)'
        PROVE  v = x
    <3>1. v \in Holders /\ x \in Holders /\ RevOf(v) = RevOf(x)
      BY <2>1, <2>3
    <3> QED BY Zenon, <3>1 DEF Apart
  <2>4. Unpublished(retrier.rev)'
    BY <1>2, <1>7, <1>13 DEF Unpublished
  <2> QED BY Zenon, <2>2, <2>3, <2>4 DEF Apart
<1>18. Ringed' /\ Collecting' /\ Queued' /\ Retrying'
  BY Zenon, <1>2, <1>5, <1>12 DEF Ringed, Collecting, Queued, Retrying, AfterCommit
<1>19. Limbo'
  <2>1. \A r : Tracked(r) => Tracked(r)'
    BY Zenon, <1>1, <1>2, <1>15 DEF Tracked
  <2>2. res = "uncertain" => \A r : r = rev => Tracked(r)'
    BY Zenon, <1>13 DEF Tracked
  <2> QED BY Zenon, <1>2, <1>10, <1>12, <2>1, <2>2 DEF Limbo, AfterCommit
<1>20. Effective'
  <2>1. \A v \in Open : Unused(RevOf(v))'
    BY Zenon, <1>7, <1>10, <1>12, <1>15 DEF Effective, AfterCommit
  <2> QED BY Zenon, <1>12, <1>13, <1>15, <2>1 DEF Effective, AfterCommit
<1> QED BY Zenon, <1>12, <1>14, <1>17, <1>18, <1>19, <1>20 DEF AfterCommit

-----------------------------------------------------------------------------
(* Compaction, and the client.                                             *)

\* The smaller of two numbers.
LEMMA MinOfTwo ==
  ASSUME NEW a \in Int, NEW b \in Int
  PROVE  Min({a, b}) \in {a, b} /\ Min({a, b}) <= a /\ Min({a, b}) <= b
<1>1. \E x \in {a, b} : \A y \in {a, b} : x <= y
  OBVIOUS
<1>2. /\ Min({a, b}) \in {a, b}
      /\ \A y \in {a, b} : Min({a, b}) <= y
  BY Zenon, <1>1 DEF Min
<1> QED BY Zenon, <1>2

\* A step of the compactor or the client that leaves the rest alone.
LEMMA AsideInv ==
  ASSUME Inv, UNCHANGED <<ringVars, storeVars, writer, retryVars>>,
         view' \in [Keys -> Values],
         compactor' \in {Idle} \cup [step : {"bound", "scan"}, rev : Nat], Compacting'
  PROVE  Inv'
<1> USE DEF Inv
<1>1. UNCHANGED <<committedRevision, dealRevision, ring, collector, panicked, index, objects,
                  limbo, writer, retryQueue, retrier>>
  BY Zenon DEF ringVars, storeVars, retryVars
<1>2. TypeOK'
  BY Zenon, <1>1 DEF TypeOK
<1>3. /\ Holders' = Holders /\ Open' = Open /\ Open \subseteq Holders
      /\ \A v \in Holders : RevOf(v)' = RevOf(v) /\ writer'[v] = writer[v]
  BY Zenon, <1>1 DEF Holders, Open, RevOf
<1>4. \A r : (Unpublished(r) => Unpublished(r)') /\ (Unused(r) => Unused(r)')
  BY Zenon, <1>1 DEF Unpublished, Unused
<1>5. Apart' /\ Ringed' /\ Collecting' /\ Queued' /\ Retrying'
  <2>1. Apart'
    BY Zenon, <1>1, <1>3, ApartStays
  <2>2. Ringed' /\ Collecting' /\ Queued' /\ Retrying'
    BY Zenon, <1>1 DEF Ringed, Collecting, Queued, Retrying
  <2> QED BY Zenon, <2>1, <2>2
<1>6. Limbo'
  <2>1. \A r : Tracked(r) => Tracked(r)'
    BY Zenon, <1>1, <1>3 DEF Tracked
  <2> QED BY Zenon, <1>1, <2>1 DEF Limbo
<1>7. Effective' /\ Indexed' /\ Ordered'
  BY Zenon, <1>1, <1>3, <1>4 DEF Effective, Indexed, Ordered, Newest, NewestAt
<1> QED BY Zenon, <1>2, <1>5, <1>6, <1>7

\* Compact lowers its revision to the committed one.
LEMMA CompactReadInv == ASSUME Inv, NEW r \in CompactRequests, CompactRead(r)
                        PROVE  Inv'
<1>1. r \in Nat /\ committedRevision \in Nat /\ TypeOK
  BY Zenon, WritePathAssumption DEF Inv, TypeOK
<1>2. PICK m : m = Min({r, committedRevision})
  BY Zenon
<1>3. m \in Nat /\ m <= committedRevision
  <2>1. PICK c \in Nat : c = committedRevision
    BY Zenon, <1>1
  <2>2. r \in Int /\ c \in Int
    BY <1>1
  <2> QED BY Zenon, <1>1, <1>2, <2>1, <2>2, MinOfTwo
<1>4. compactor' = [step |-> "bound", rev |-> m]
  BY Zenon, <1>2 DEF CompactRead
<1>5. compactor'.step = "bound" /\ compactor'.rev = m
  BY Zenon, <1>4
<1>6. UNCHANGED <<ringVars, storeVars, writer, retryVars, view>> /\ UNCHANGED committedRevision
  BY Zenon DEF CompactRead, ringVars
<1>7. Compacting'
  BY Zenon, <1>3, <1>5, <1>6 DEF Compacting, CompactBelowUncertain
<1>8. compactor' \in [step : {"bound", "scan"}, rev : Nat] /\ view' \in [Keys -> Values]
  BY Zenon, <1>1, <1>3, <1>4, <1>6 DEF TypeOK
<1> QED BY Zenon, <1>6, <1>7, <1>8, AsideInv

\* Compact lowers its revision below the head of the retry queue.
LEMMA CompactBoundInv == ASSUME Inv, CompactBound
                         PROVE  Inv'
<1> USE DEF Inv
<1>1. ~panicked /\ compactor.step = "bound" /\ compactor # Idle
  <2>1. ~panicked /\ compactor.step = "bound"
    BY Zenon DEF CompactBound
  <2>2. Idle.step # "bound"
    BY Zenon DEF Idle
  <2> QED BY Zenon, <2>1, <2>2
<1>2. /\ compactor.rev \in Nat /\ compactor.rev <= committedRevision
      /\ committedRevision \in Nat /\ dealRevision \in Nat
  BY <1>1, WritePathAssumption DEF TypeOK, Compacting
<1>3. UNCHANGED <<committedRevision, retryQueue, limbo, view>>
      /\ UNCHANGED <<ringVars, storeVars, writer, retryVars, view>>
  BY Zenon DEF CompactBound, ringVars, storeVars, retryVars
<1>4. retryQueue # <<>> => /\ Head(retryQueue).revision - 1 \in Nat
                           /\ \A i \in DOMAIN retryQueue :
                                Head(retryQueue).revision <= retryQueue[i].revision
  <2> SUFFICES ASSUME retryQueue # <<>>
               PROVE  /\ Head(retryQueue).revision - 1 \in Nat
                      /\ \A i \in DOMAIN retryQueue :
                           Head(retryQueue).revision <= retryQueue[i].revision
    BY Zenon
  <2>1. /\ 1 \in DOMAIN retryQueue /\ Head(retryQueue) = retryQueue[1]
        /\ \A i \in DOMAIN retryQueue : i = 1 \/ 1 < i
    BY DEF TypeOK
  <2>2. \A i \in DOMAIN retryQueue : retryQueue[i].revision \in Nat /\ retryQueue[i].revision # 0
    BY Zenon, EventTypes
  <2> QED BY <2>1, <2>2 DEF Queued
<1>5. PICK m : /\ m \in Nat /\ m <= committedRevision
               /\ retryQueue # <<>> => m < Head(retryQueue).revision
               /\ compactor' = [step |-> "scan", rev |-> m]
  <2>1. CASE retryQueue = <<>>
    BY Zenon, <1>2, <2>1 DEF CompactBound
  <2>2. CASE retryQueue # <<>>
    <3>1. PICK h \in Nat : h = Head(retryQueue).revision - 1
      BY Zenon, <1>4, <2>2
    <3>2. PICK m : m = Min({h, compactor.rev})
      BY Zenon
    <3>3. m \in Nat /\ m <= h /\ m <= compactor.rev
      <4>1. PICK c \in Nat : c = compactor.rev
        BY Zenon, <1>2
      <4>2. h \in Int /\ c \in Int
        OBVIOUS
      <4> QED BY Zenon, <3>2, <4>1, <4>2, MinOfTwo
    <3>4. Head(retryQueue).revision \in Nat
      <4>1. Head(retryQueue) \in Events
        BY <2>2 DEF TypeOK
      <4> QED BY Zenon, <4>1, EventTypes
    <3>5. m < Head(retryQueue).revision
      BY <3>1, <3>3, <3>4
    <3>6. compactor' = [step |-> "scan", rev |-> m]
      BY Zenon, <2>2, <3>1, <3>2 DEF CompactBound
    <3> QED BY <1>2, <3>3, <3>5, <3>6
  <2> QED BY Zenon, <2>1, <2>2
<1>6. \A i \in DOMAIN retryQueue : m < retryQueue[i].revision
  <2> SUFFICES ASSUME NEW i \in DOMAIN retryQueue
               PROVE  m < retryQueue[i].revision
    BY Zenon
  <2>1. retryQueue # <<>> /\ Head(retryQueue) \in Events
    BY DEF TypeOK
  <2>2. Head(retryQueue).revision \in Nat /\ retryQueue[i].revision \in Nat
    BY Zenon, <2>1, EventTypes
  <2> QED BY <1>4, <1>5, <2>1, <2>2
<1>7. \A b \in limbo : m < b.rev
  <2> SUFFICES ASSUME NEW b \in limbo
               PROVE  m < b.rev
    BY Zenon
  <2>1. Tracked(b.rev) /\ b.rev \in Nat
    BY Zenon, <1>1, StoreTypes DEF Limbo
  <2>2. \A w \in Holders : RevOf(w) > committedRevision
    BY <1>2, HolderBatch DEF Apart, Unpublished
  <2>3. \A s \in Slots : ring[s] # Nil => ring[s].revision > committedRevision
    BY <1>2 DEF Ringed
  <2>4. Rewriting => retrier.rev > committedRevision
    BY <1>2 DEF Apart, Unpublished
  <2>5. b.rev > committedRevision \/ \E i \in DOMAIN retryQueue : retryQueue[i].revision = b.rev
    BY Zenon, <2>1, <2>2, <2>3, <2>4 DEF Tracked, Rewriting
  <2> QED BY <1>2, <1>5, <1>6, <2>1, <2>5
<1>8. compactor'.step = "scan" /\ compactor'.rev = m
  BY Zenon, <1>5
<1>9. Compacting'
  BY Zenon, <1>3, <1>5, <1>6, <1>7, <1>8 DEF Compacting, CompactBelowUncertain
<1>10. compactor' \in [step : {"bound", "scan"}, rev : Nat] /\ view' \in [Keys -> Values]
  BY Zenon, <1>3, <1>5 DEF TypeOK
<1> QED BY Zenon, <1>3, <1>9, <1>10, AsideInv

\* A list changes what the client knows.
LEMMA ListInv == ASSUME Inv, List
                 PROVE  Inv'
<1>1. TypeOK /\ Ordered /\ committedRevision \in Nat
  BY Zenon DEF Inv, TypeOK
<1>2. \A k \in Keys : LatestAt(k, committedRevision).val \in Values
  <2>1. NoVersion.val \in Values
    BY Zenon DEF NoVersion, Values
  <2> QED BY Zenon, <1>1, <2>1, LatestAtCases, StoreTypes DEF NewestAt
<1>3. view' \in [Keys -> Values]
  BY Zenon, <1>2 DEF List, ViewAt
<1>4. UNCHANGED <<ringVars, storeVars, writer, retryVars, compactor>>
  BY Zenon DEF List
<1>5. Compacting'
  BY Zenon, <1>4 DEF Inv, Compacting, CompactBelowUncertain, ringVars, storeVars,
    retryVars
<1> QED BY Zenon, <1>1, <1>3, <1>4, <1>5, AsideInv DEF TypeOK

\* What compaction keeps of a key.
LEMMA KeptIs ==
  ASSUME Inv, CompactScan, NEW k \in Keys
  PROVE  /\ objects'[k] = {o \in objects[k] : \/ o.rev > compactor.rev
                                             \/ (o = LatestAt(k, compactor.rev) /\ o.val # Tombstone)}
         /\ index'[k] = IF index[k].del /\ index[k].rev <= compactor.rev THEN Absent ELSE index[k]
         /\ compactor.rev \in Nat
<1>1. compactor.rev \in Nat
  BY DEF CompactScan, Inv, TypeOK, Idle
<1> QED BY Zenon, <1>1 DEF CompactScan, Kept

\* Index and versions agree after a compaction.
LEMMA ScanIndexed == ASSUME Inv, CompactScan
                     PROVE  Indexed'
<1> USE DEF Inv
<1> SUFFICES ASSUME NEW k \in Keys
             PROVE  /\ \A o \in objects'[k] : o.rev <= dealRevision'
                    /\ IF objects'[k] = {} THEN index'[k] = Absent
                       ELSE \E o \in objects'[k] : Newest(k, o)' /\ index'[k] = EntryOf(o)
  BY Zenon DEF Indexed, EntryOf
<1>1. PICK r \in Nat : r = compactor.rev
  BY Zenon, KeptIs
<1>2. /\ objects'[k] = {o \in objects[k] : \/ o.rev > r
                                          \/ (o = LatestAt(k, r) /\ o.val # Tombstone)}
      /\ index'[k] = IF index[k].del /\ index[k].rev <= r THEN Absent ELSE index[k]
  BY Zenon, <1>1, KeptIs
<1>3. \A o \in objects'[k] : o.rev <= dealRevision'
  BY Zenon, <1>2 DEF Indexed, CompactScan, ringVars
<1>4. CASE objects[k] = {}
  BY Zenon, <1>2, <1>3, <1>4 DEF Indexed, Absent
<1>5. CASE objects[k] # {}
  <2>1. PICK o \in objects[k] : Newest(k, o) /\ index[k] = EntryOf(o)
    BY Zenon, <1>5 DEF Indexed
  <2>2. index[k].rev = o.rev /\ (index[k].del <=> o.val = Tombstone)
    <3>1. index[k].rev = o.rev
      BY <2>1 DEF EntryOf
    <3>2. index[k].del = (o.val = Tombstone)
      BY <2>1 DEF EntryOf
    <3> QED BY Zenon, <3>1, <3>2
  <2>3. o.rev \in Nat /\ \A p \in objects[k] : p.rev \in Nat
    BY Zenon, StoreTypes
  <2>4. Newest(k, o)' <=> o \in objects'[k]
    BY Zenon, <1>2, <2>1 DEF Newest
  <2>5. CASE o.rev > r
    <3>1. ~(o.rev <= r) /\ o \in objects'[k]
      BY <1>2, <2>3, <2>5
    <3>2. index'[k] = index[k]
      BY Zenon, <1>2, <2>2, <3>1
    <3> QED BY Zenon, <1>3, <2>1, <2>4, <3>1, <3>2
  <2>6. CASE o.rev <= r
    <3>1. LatestAt(k, r) = o
      BY Zenon, <2>1, <2>6, LatestAtIs DEF Newest, NewestAt
    <3>2. \A p \in objects[k] : p.rev <= r
      BY <2>1, <2>3, <2>6 DEF Newest
    <3>3. CASE o.val = Tombstone
      BY <1>2, <1>3, <2>2, <2>3, <2>6, <3>1, <3>2, <3>3
    <3>4. CASE o.val # Tombstone
      BY Zenon, <1>2, <1>3, <2>1, <2>2, <2>4, <3>1, <3>4
    <3> QED BY Zenon, <3>3, <3>4
  <2>7. o.rev > r \/ o.rev <= r
    BY Zenon, <2>3, NumberOrder
  <2> QED BY Zenon, <2>5, <2>6, <2>7
<1> QED BY Zenon, <1>4, <1>5

\* Of what is left, one version is the newest at each revision.
LEMMA ScanOrdered == ASSUME Inv, CompactScan
                     PROVE  Ordered'
<1> USE DEF Inv
<1> SUFFICES ASSUME NEW k \in Keys, NEW t \in Nat, NEW q \in objects'[k], q.rev <= t
             PROVE  \E o \in objects'[k] : NewestAt(k, t, o)'
  BY Zenon DEF Ordered
<1>1. PICK r \in Nat : r = compactor.rev
  BY Zenon, KeptIs
<1>2. objects'[k] = {o \in objects[k] : \/ o.rev > r
                                       \/ (o = LatestAt(k, r) /\ o.val # Tombstone)}
  BY Zenon, <1>1, KeptIs
<1>3. PICK o \in objects[k] : NewestAt(k, t, o)
  BY Zenon, <1>2 DEF Ordered
<1>4. \A p \in objects[k] : p.rev \in Nat
  BY Zenon, StoreTypes
<1>5. CASE o.rev > r
  <2>1. o \in objects'[k]
    BY Zenon, <1>2, <1>5
  <2>2. NewestAt(k, t, o)'
    BY Zenon, <1>2, <1>3, <2>1 DEF NewestAt
  <2> QED BY Zenon, <2>1, <2>2
<1>6. CASE ~(o.rev > r)
  <2>1. \A p \in objects'[k] : p.rev <= t => p = LatestAt(k, r)
    BY <1>2, <1>3, <1>4, <1>6 DEF NewestAt
  <2>2. NewestAt(k, t, q)'
    BY Zenon, <2>1 DEF NewestAt
  <2> QED BY Zenon, <2>2
<1> QED BY Zenon, <1>5, <1>6

\* The scan of a compaction.
LEMMA CompactScanInv == ASSUME Inv, CompactScan
                        PROVE  Inv'
<1> USE DEF Inv
<1>1. /\ ~panicked /\ compactor' = Idle
      /\ UNCHANGED <<committedRevision, dealRevision, ring, collector, panicked, limbo, writer,
                     retryQueue, retrier, view>>
  BY Zenon DEF CompactScan, ringVars, retryVars
<1>2. \A k \in Keys : objects'[k] \subseteq objects[k]
  BY Zenon, KeptIs
<1>3. TypeOK'
  <2>1. objects' \in [Keys -> SUBSET Versions]
    BY Zenon, <1>2 DEF CompactScan, TypeOK
  <2>2. index' \in [Keys -> Entries]
    <3>1. \A k \in Keys : index'[k] \in Entries
      BY Zenon, KeptIs DEF TypeOK, Entries
    <3> QED BY Zenon, <3>1 DEF CompactScan
  <2> QED BY Zenon, <1>1, <2>1, <2>2 DEF TypeOK
<1>4. /\ Holders' = Holders /\ Open' = Open /\ Open \subseteq Holders
      /\ \A v \in Holders : RevOf(v)' = RevOf(v) /\ writer'[v] = writer[v]
  BY Zenon, <1>1 DEF Holders, Open, RevOf
<1>5. \A r : (Unpublished(r) => Unpublished(r)') /\ (Unused(r) => Unused(r)')
  BY Zenon, <1>1, <1>2 DEF Unpublished, Unused
<1>6. Apart' /\ Ringed' /\ Collecting' /\ Queued' /\ Retrying'
  <2>1. Apart'
    BY Zenon, <1>1, <1>4, ApartStays
  <2>2. Ringed' /\ Collecting' /\ Queued' /\ Retrying'
    BY Zenon, <1>1 DEF Ringed, Collecting, Queued, Retrying
  <2> QED BY Zenon, <2>1, <2>2
<1>7. Limbo'
  <2>1. \A r : Tracked(r) => Tracked(r)'
    BY Zenon, <1>1, <1>4 DEF Tracked
  <2> QED BY Zenon, <1>1, <2>1 DEF Limbo
<1>8. Effective'
  BY Zenon, <1>1, <1>4, <1>5 DEF Effective
<1>9. Compacting'
  BY Zenon, <1>1 DEF Compacting, CompactBelowUncertain, Idle
<1> QED BY Zenon, <1>3, <1>6, <1>7, <1>8, <1>9, ScanIndexed, ScanOrdered

-----------------------------------------------------------------------------
(* The invariant holds.                                                    *)

\* The queue that is empty.
LEMMA NoEvents == << >> \in Seq(Events) /\ DOMAIN << >> = {}
OBVIOUS

\* A leader that starts.
LEMMA InitInv == ASSUME Init
                 PROVE  Inv
<1>1. PICK there \in SUBSET Keys, alive \in SUBSET Keys :
        LET val(k) == IF k \in alive THEN StartRevision ELSE Tombstone IN
        /\ index = [k \in Keys |->
             IF k \in there THEN [rev |-> StartRevision, del |-> k \notin alive] ELSE Absent]
        /\ objects = [k \in Keys |->
             IF k \in there THEN {[rev |-> StartRevision, val |-> val(k)]} ELSE {}]
        /\ view = [k \in Keys |-> val(k)]
  BY Zenon DEF Init
<1> DEFINE val(k) == IF k \in alive THEN StartRevision ELSE Tombstone
           o(k) == [rev |-> StartRevision, val |-> val(k)]
<1>2. /\ committedRevision = StartRevision /\ dealRevision = StartRevision
      /\ ring = [s \in Slots |-> Nil] /\ collector = [step |-> "load", event |-> Nil]
      /\ panicked = FALSE /\ limbo = {} /\ writer = [w \in Writers |-> Idle]
      /\ retryQueue = <<>> /\ retrier = Idle /\ compactor = Idle
  BY Zenon DEF Init, RingInit
<1>3. /\ StartRevision \in Nat /\ StartRevision # 0 /\ MaxRevision \in Nat
      /\ StartRevision <= MaxRevision /\ StartRevision \in Revisions
  BY WritePathAssumption DEF Revisions
<1>4. \A k \in Keys : val(k) \in Values /\ o(k) \in Versions /\ o(k).rev = StartRevision
  BY Zenon, <1>3 DEF Values, Versions
<1>5. \A k \in Keys : /\ k \in there => /\ objects[k] = {o(k)}
                                        /\ index[k] = [rev |-> StartRevision, del |-> k \notin alive]
                      /\ k \notin there => objects[k] = {} /\ index[k] = Absent
  BY Zenon, <1>1
<1>6. \A k \in there : index[k] = EntryOf(o(k))
  <2> SUFFICES ASSUME NEW k \in there
               PROVE  index[k] = EntryOf(o(k))
    BY Zenon
  <2>1. (k \notin alive) = (val(k) = Tombstone)
    BY Zenon, <1>3 DEF Tombstone
  <2>2. index[k] = [rev |-> StartRevision, del |-> k \notin alive]
    BY Zenon, <1>5
  <2>3. o(k).rev = StartRevision /\ o(k).val = val(k)
    BY Zenon
  <2> HIDE DEF val, o
  <2> QED BY Zenon, <2>1, <2>2, <2>3 DEF EntryOf
<1>7. TypeOK
  <2>1. index \in [Keys -> Entries]
    BY Zenon, <1>1, <1>3 DEF Entries
  <2>2. objects \in [Keys -> SUBSET Versions]
    <3>1. objects = [k \in Keys |-> IF k \in there THEN {o(k)} ELSE {}]
      BY Zenon, <1>1
    <3> HIDE DEF o
    <3> QED BY Zenon, <1>4, <3>1
  <2>3. view \in [Keys -> Values]
    BY Zenon, <1>1, <1>4
  <2>4. retrier \in Retriers /\ retryQueue \in Seq(Events)
    <3>1. retrier \in Retriers
      BY Zenon, <1>2 DEF Retriers
    <3>2. << >> \in Seq(Events)
      BY Zenon, NoEvents
    <3> QED BY Zenon, <1>2, <3>1, <3>2
  <2>5. writer \in [Writers -> {Idle} \cup Deletes \cup Requests]
    BY Zenon, <1>2
  <2>6. collector \in [step : {"load", "commit"}, event : Events \cup {Nil}]
    BY Zenon, <1>2
  <2>7. ring \in [Slots -> Events \cup {Nil}]
    BY Zenon, <1>2
  <2>8. /\ committedRevision \in Nat /\ dealRevision \in StartRevision .. MaxRevision
        /\ panicked \in BOOLEAN /\ limbo \subseteq Batches
        /\ compactor \in {Idle} \cup [step : {"bound", "scan"}, rev : Nat]
    <3>1. committedRevision \in Nat /\ dealRevision \in StartRevision .. MaxRevision
      BY <1>2, <1>3
    <3>2. panicked \in BOOLEAN
      BY Zenon, <1>2
    <3>3. limbo \subseteq Batches /\ compactor = Idle
      BY Zenon, <1>2
    <3> QED BY Zenon, <3>1, <3>2, <3>3
  <2> QED BY Zenon, <2>1, <2>2, <2>3, <2>4, <2>5, <2>6, <2>7, <2>8 DEF TypeOK
<1>8. Holders = {} /\ Open = {} /\ ~Rewriting /\ retrier.step # "commit"
  BY Zenon, <1>2 DEF Holders, Open, Rewriting, Idle
<1>9. Apart /\ Ringed /\ Queued /\ Retrying /\ Limbo /\ Effective
  <2>1. Apart
    BY Zenon, <1>8 DEF Apart
  <2>2. Ringed
    BY Zenon, <1>2 DEF Ringed
  <2>3. DOMAIN retryQueue = {}
    BY Zenon, <1>2, NoEvents
  <2>4. Queued /\ Retrying
    BY Zenon, <1>2, <2>3 DEF Queued, Retrying
  <2>5. Limbo /\ Effective
    BY Zenon, <1>2, <1>8 DEF Limbo, Effective
  <2> QED BY Zenon, <2>1, <2>2, <2>4, <2>5
<1>10. Collecting /\ Compacting
  <2>1. collector.step # "commit" /\ collector.event = Nil
    BY Zenon, <1>2
  <2>2. committedRevision <= dealRevision
    BY <1>2, <1>3
  <2>3. compactor = Idle /\ compactor.step # "scan"
    BY Zenon, <1>2 DEF Idle
  <2> QED BY Zenon, <2>1, <2>2, <2>3 DEF Collecting, Compacting, CompactBelowUncertain
<1> HIDE DEF o
<1>11. Indexed
  <2> SUFFICES ASSUME NEW k \in Keys
               PROVE  /\ \A p \in objects[k] : p.rev <= dealRevision
                      /\ IF objects[k] = {} THEN index[k] = Absent
                         ELSE \E p \in objects[k] : Newest(k, p) /\ index[k] = EntryOf(p)
    BY Zenon DEF Indexed
  <2>1. CASE k \notin there
    BY Zenon, <1>5, <2>1
  <2>2. CASE k \in there
    <3>1. objects[k] = {o(k)} /\ o(k).rev = StartRevision /\ index[k] = EntryOf(o(k))
      BY Zenon, <1>4, <1>5, <1>6, <2>2
    <3>2. Newest(k, o(k))
      BY Zenon, <3>1 DEF Newest
    <3> QED BY <1>2, <1>3, <3>1, <3>2
  <2> QED BY Zenon, <2>1, <2>2
<1>12. Ordered
  BY Zenon, <1>5 DEF Ordered, NewestAt
<1> QED BY Zenon, <1>7, <1>9, <1>10, <1>11, <1>12 DEF Inv

\* Every step keeps it.
LEMMA NextInv == ASSUME Inv, [Next]_vars
                 PROVE  Inv'
<1>1. ASSUME NEW w \in Writers, NEW k \in Keys, Create(w, k)
      PROVE  Inv'
  BY Zenon, <1>1, CreateInv
<1>2. ASSUME NEW w \in Writers, NEW k \in Keys, NEW prev \in KnownRevisions(k), Update(w, k, prev)
      PROVE  Inv'
  BY Zenon, <1>2, UpdateInv
<1>3. ASSUME NEW w \in Writers, NEW k \in Keys, NEW prev \in KnownRevisions(k) \cup {0},
             DeleteRead(w, k, prev)
      PROVE  Inv'
  BY Zenon, <1>3, DeleteReadInv
<1>4. ASSUME NEW w \in Writers,
             DeleteDeal(w) \/ PutIfNotExist(w) \/ Lookup(w) \/ CommitWrite(w) \/ Notify(w)
      PROVE  Inv'
  BY Zenon, <1>4, DeleteDealInv, PutIfNotExistInv, LookupInv, CommitWriteInv, NotifyInv
<1>5. ASSUME NEW b \in limbo, Settle(b)
      PROVE  Inv'
  BY Zenon, <1>5, SettleInv
<1>6. CASE Take \/ Publish
  BY Zenon, <1>6, TakeInv, PublishInv
<1>7. CASE RetryRead \/ RetryCommit \/ RetryDispatch \/ RetryPop
  BY Zenon, <1>7, RetryReadInv, RetryCommitInv, RetryDispatchInv, RetryPopInv
<1>8. ASSUME NEW r \in CompactRequests, CompactRead(r)
      PROVE  Inv'
  BY Zenon, <1>8, CompactReadInv
<1>9. CASE CompactBound \/ CompactScan \/ List
  BY Zenon, <1>9, CompactBoundInv, CompactScanInv, ListInv
<1>10. CASE UNCHANGED vars
  <2>1. UNCHANGED <<ringVars, storeVars, writer, retryVars>> /\ UNCHANGED <<compactor, view>>
    BY Zenon, <1>10 DEF vars
  <2>2. Compacting'
    BY Zenon, <2>1 DEF Inv, Compacting, CompactBelowUncertain, ringVars, storeVars,
      retryVars
  <2> QED BY Zenon, <2>1, <2>2, AsideInv DEF Inv, TypeOK
<1> QED BY Zenon, <1>1, <1>2, <1>3, <1>4, <1>5, <1>6, <1>7, <1>8, <1>9, <1>10 DEF Next

\* Inv holds in every run of the write path: of the requests of txn.go, the
\* collector, the retry loop and Compact in any interleaving.
THEOREM Invariant == Spec => []Inv
<1>1. Init => Inv
  BY Zenon, InitInv
<1>2. Inv /\ [Next]_vars => Inv'
  BY Zenon, NextInv
<1> QED BY <1>1, <1>2, PTL DEF Spec

-----------------------------------------------------------------------------
(* What follows.                                                           *)

\* The variables have their types: no step of a request, of the collector, of
\* the retry loop or of Compact leaves a record of another form.
THEOREM TypeCorrect == Spec => []TypeOK
<1>1. Inv => TypeOK
  BY Zenon DEF Inv
<1> QED BY <1>1, Invariant, PTL

\* The index entry that Create, Update and Delete compare with names the newest
\* version of the key, whatever fails, surfaces late or is compacted.
THEOREM IndexAgrees == Spec => []IndexIsLatest
<1>1. Inv => IndexIsLatest
  BY Zenon, IndexedIsLatest DEF Inv
<1> QED BY <1>1, Invariant, PTL

\* The revision Compact scans with is below each write whose outcome is open.
THEOREM CompactStaysBelow == Spec => []CompactBelowUncertain
<1>1. Inv => CompactBelowUncertain
  BY Zenon DEF Inv, Compacting
<1> QED BY <1>1, Invariant, PTL

\* What a step may do to the versions.
LEMMA StoreStep ==
  ASSUME Inv, [Next]_vars
  PROVE  \/ objects' = objects
         \/ \E b \in Batches : /\ Matches(b) /\ Apply(b) /\ Unused(b.rev) /\ b.from.rev <= b.rev
                               /\ b \in limbo \/ b.rev > committedRevision
         \/ CompactScan
<1> USE DEF Inv
<1> DEFINE Put == \E b \in Batches : /\ Matches(b) /\ Apply(b) /\ Unused(b.rev) /\ b.from.rev <= b.rev
                                     /\ b \in limbo \/ b.rev > committedRevision
<1>1. ASSUME NEW w \in Open, NEW res, Commit(writer[w].batch, WriteFaults, res)
      PROVE  objects' = objects \/ Put
  <2>1. PICK b \in Batches : b = writer[w].batch
    BY Zenon, HolderBatch DEF Open, Holders
  <2>2. Commit(b, WriteFaults, res)
    BY Zenon, <1>1, <2>1 DEF Commit, Matches, Apply
  <2>3. Unpublished(b.rev) /\ Unused(b.rev) /\ b.from.rev <= b.rev
    BY Zenon, <2>1 DEF Open, Holders, Apart, Effective, RevOf
  <2>4. b.rev > committedRevision
    BY Zenon, <2>3, UnpublishedAbove
  <2>5. objects' = objects \/ (Matches(b) /\ Apply(b))
    BY Zenon, <2>2, CommitCases DEF storeVars
  <2> QED BY Zenon, <2>3, <2>4, <2>5
<1>2. ASSUME RetryCommit
      PROVE  objects' = objects \/ Put
  <2>1. ~panicked /\ retrier.step = "commit"
    BY Zenon, <1>2 DEF RetryCommit
  <2>2. PICK rev \in Revisions, val \in Values : rev = retrier.rev /\ val = retrier.val
    BY Zenon, <2>1, RetrierTypes
  <2>3. retryQueue # <<>>
    BY <2>1 DEF Retrying, Idle
  <2>4. PICK u \in Events : u = Head(retryQueue) /\ u = retryQueue[1] /\ 1 \in DOMAIN retryQueue
    BY <2>3 DEF TypeOK
  <2>5. Unpublished(rev) /\ Unused(rev) /\ rev \in Nat
    BY Zenon, <2>1, <2>2, RewriteApart
  <2>6. u.revision < rev /\ u.revision \in Nat /\ u.key \in Keys
    BY Zenon, <2>4, <2>5, QueueApart, EventTypes
  <2>7. PICK b : b = Batch(u.key, [rev |-> u.revision, del |-> val = Tombstone], rev, val)
    BY Zenon
  <2>8. b \in Batches /\ b.rev = rev /\ b.from.rev <= b.rev
    <3>1. PICK n \in Nat : n = u.revision
      BY Zenon, <2>6
    <3>2. n < rev /\ u.key \in Keys
      BY Zenon, <2>6, <3>1
    <3>3. b = Batch(u.key, [rev |-> n, del |-> val = Tombstone], rev, val)
      BY Zenon, <2>7, <3>1
    <3>4. RewriteOf(Batch(u.key, [rev |-> n, del |-> val = Tombstone], rev, val),
                u.key, n, rev, val)
      BY Zenon, <2>2, <3>1, <3>2, RewriteBatch
    <3>5. RewriteOf(b, u.key, n, rev, val)
      BY Zenon, <3>3, <3>4
    <3>6. b.from.rev <= b.rev
      BY Zenon, <3>5 DEF RewriteOf
    <3> QED BY Zenon, <3>5, <3>6 DEF RewriteOf
  <2>9. PICK res \in Results : Commit(b, RewriteFaults, res)
    BY Zenon, <1>2, <2>2, <2>4, <2>7 DEF RetryCommit, Commit, Matches, Apply
  <2>10. objects' = objects \/ (Matches(b) /\ Apply(b))
    BY Zenon, <2>9, CommitCases DEF storeVars
  <2>11. b.rev > committedRevision
    BY Zenon, <2>5, <2>8, UnpublishedAbove
  <2> QED BY Zenon, <2>5, <2>8, <2>10, <2>11
<1>3. ASSUME NEW b \in limbo, Settle(b)
      PROVE  objects' = objects \/ Put
  <2>1. b \in Batches /\ Unused(b.rev) /\ b.from.rev <= b.rev
    BY Zenon DEF TypeOK, Effective
  <2> QED BY Zenon, <1>3, <2>1 DEF Settle
<1>4. ASSUME NEW w \in Writers, PutIfNotExist(w) \/ CommitWrite(w)
      PROVE  objects' = objects \/ Put
  <2>1. w \in Open
    BY Zenon, <1>4 DEF Open, PutIfNotExist, CommitWrite
  <2>2. PICK res \in Results : Commit(writer[w].batch, WriteFaults, res)
    BY Zenon, <1>4 DEF PutIfNotExist, CommitWrite
  <2> QED BY Zenon, <1>1, <2>1, <2>2
<1> HIDE DEF Put
<1>5. ASSUME Take \/ Publish \/ RetryRead \/ RetryDispatch \/ RetryPop \/ CompactBound \/ List
             \/ UNCHANGED vars
      PROVE  objects' = objects
  BY Zenon, <1>5 DEF Take, Publish, RetryRead, RetryDispatch, RetryPop, CompactBound,
    List, vars, storeVars
<1>6. ASSUME NEW w \in Writers, DeleteDeal(w) \/ Lookup(w) \/ Notify(w)
      PROVE  objects' = objects
  BY Zenon, <1>6 DEF DeleteDeal, Lookup, Notify, Begin, storeVars
<1>7. ASSUME NEW w, NEW k, NEW prev, Create(w, k) \/ Update(w, k, prev) \/ DeleteRead(w, k, prev)
      PROVE  objects' = objects
  BY Zenon, <1>7 DEF Create, Update, DeleteRead, Begin, storeVars
<1>8. ASSUME NEW r, CompactRead(r)
      PROVE  objects' = objects
  BY Zenon, <1>8 DEF CompactRead, storeVars
<1>9. objects' = objects \/ Put \/ CompactScan
  BY Zenon, <1>2, <1>3, <1>4, <1>5, <1>6, <1>7, <1>8 DEF Next
<1> QED BY Zenon, <1>9 DEF Put

\* The revision of a key never goes back: a version is put above those that
\* are there and above the revision of a compaction that is about to scan.
THEOREM RevisionsOfAKeyAscend == Spec => VersionsAscend
<1> DEFINE Ascends == \A k \in Keys : \A o \in objects'[k] \ objects[k] :
                        /\ \A p \in objects[k] : p.rev < o.rev
                        /\ compactor.step = "scan" => compactor.rev < o.rev
<1>1. Inv /\ [Next]_vars => Ascends
  <2> SUFFICES ASSUME Inv, [Next]_vars, NEW k \in Keys, NEW o \in objects'[k] \ objects[k]
               PROVE  /\ \A p \in objects[k] : p.rev < o.rev
                      /\ compactor.step = "scan" => compactor.rev < o.rev
    BY Zenon
  <2>1. TypeOK /\ Indexed /\ Compacting
    BY Zenon DEF Inv
  <2>2. ~CompactScan
    BY Zenon, KeptIs
  <2>3. PICK b \in Batches : /\ Matches(b) /\ Apply(b) /\ Unused(b.rev) /\ b.from.rev <= b.rev
                             /\ b \in limbo \/ b.rev > committedRevision
    BY Zenon, <2>2, StoreStep
  <2>4. k = b.key /\ o = [rev |-> b.rev, val |-> b.val]
    BY Zenon, <2>1, <2>3, ApplyTypes
  <2>5. \A p \in objects[k] : p.rev < o.rev
    BY Zenon, <2>1, <2>3, <2>4, ApplyAbove
  <2>6. compactor.step = "scan" => compactor.rev < o.rev
    <3>1. compactor.step = "scan" => /\ compactor.rev \in Nat /\ compactor.rev <= committedRevision
                                     /\ \A a \in limbo : compactor.rev < a.rev
      BY <2>1 DEF TypeOK, Idle, Compacting, CompactBelowUncertain
    <3>2. o.rev = b.rev /\ b.rev \in Nat /\ committedRevision \in Nat
      BY Zenon, <2>1, <2>4, StoreTypes DEF TypeOK
    <3> QED BY <2>3, <3>1, <3>2
  <2> QED BY Zenon, <2>5, <2>6
<1>2. [Ascends]_vars => [\A k \in Keys : \A o \in objects'[k] \ objects[k] :
                           /\ \A p \in objects[k] : p.rev < o.rev
                           /\ compactor.step = "scan" => compactor.rev < o.rev]_vars
  BY Zenon
<1> HIDE DEF Ascends
<1> QED BY <1>1, <1>2, Invariant, PTL DEF Spec, VersionsAscend

\* Reading the same versions below a revision has the same result.
LEMMA SameBelow ==
  ASSUME NEW S, NEW T, NEW r, \A o : o \in S /\ o.rev <= r <=> o \in T /\ o.rev <= r
  PROVE  LatestOf(S, r) = LatestOf(T, r)
<1>1. {o \in S : o.rev <= r} = {o \in T : o.rev <= r}
  BY Zenon
<1> QED BY Zenon, <1>1 DEF LatestOf

\* A compaction at or below a revision leaves what is read there.
LEMMA ScanRepeatable ==
  ASSUME Inv, CompactScan, NEW k \in Keys, NEW r \in Nat, compactor.rev <= r
  PROVE  LatestOf(objects'[k], r).val = LatestOf(objects[k], r).val
<1> USE DEF Inv
<1>1. PICK c \in Nat : c = compactor.rev
  BY Zenon, KeptIs
<1>2. PICK S, T : S = objects[k] /\ T = objects'[k] /\ S \subseteq Versions
  BY Zenon DEF TypeOK
<1>3. T = {o \in S : o.rev > c \/ (o = LatestAt(k, c) /\ o.val # Tombstone)} /\ T \subseteq Versions
  BY Zenon, <1>1, <1>2, KeptIs
<1>4. \A o \in Versions : o.rev \in Nat
  BY DEF Versions, Revisions
<1>5. CASE \A o \in S : ~(o.rev <= r)
  <2>1. \A o : o \in S /\ o.rev <= r <=> o \in T /\ o.rev <= r
    BY Zenon, <1>3, <1>5
  <2> QED BY Zenon, <1>2, <2>1, SameBelow
<1>6. CASE \E o \in S : o.rev <= r
  <2>1. PICK o \in S : NewestAt(k, r, o)
    BY Zenon, <1>2, <1>6 DEF Ordered
  <2>2. o.rev <= r /\ \A p \in S : p.rev <= r => p = o \/ p.rev < o.rev
    BY Zenon, <1>2, <2>1 DEF NewestAt
  <2>3. LatestOf(S, r) = o
    BY Zenon, <1>2, <2>2, LatestOfIs
  <2>4. CASE o \in T
    <3>1. LatestOf(T, r) = o
      BY Zenon, <1>3, <2>2, <2>4, LatestOfIs
    <3> QED BY Zenon, <1>2, <2>3, <3>1
  <2>5. CASE o \notin T
    <3>1. o.rev <= c /\ o.rev \in Nat
      BY <1>2, <1>3, <1>4, <2>5
    <3>2. NewestAt(k, c, o)
      BY <1>1, <1>2, <1>4, <2>2, <3>1 DEF NewestAt
    <3>3. LatestAt(k, c) = o
      BY Zenon, <3>2, LatestAtIs
    <3>4. o.val = Tombstone
      BY Zenon, <1>3, <2>5, <3>3
    <3>5. \A p \in T : ~(p.rev <= r)
      <4> SUFFICES ASSUME NEW p \in T, p.rev <= r
                   PROVE  FALSE
        BY Zenon
      <4>1. p \in S /\ p # o /\ p.rev < o.rev /\ p.rev \in Nat
        BY Zenon, <1>3, <1>4, <2>2, <2>5
      <4>2. ~(p.rev > c)
        BY <3>1, <4>1
      <4> QED BY Zenon, <1>3, <3>3, <4>1, <4>2
    <3>6. LatestOf(T, r) = NoVersion
      <4>1. {p \in T : p.rev <= r} = {}
        BY Zenon, <3>5
      <4> QED BY Zenon, <4>1 DEF LatestOf, TopOf
    <3> QED BY <1>2, <2>3, <3>4, <3>6 DEF NoVersion
  <2> QED BY Zenon, <2>4, <2>5
<1> QED BY Zenon, <1>5, <1>6

\* A read (Get, List) at a committed revision is repeatable, but for an
\* uncertain write at or below it and a compaction above it.
THEOREM ReadsAreRepeatable == Spec => ReadsRepeatable
<1> DEFINE Repeats == \A k \in Keys, r \in StartRevision .. committedRevision :
                        \/ \E b \in limbo : b.key = k /\ b.rev <= r
                        \/ compactor.step = "scan" /\ compactor'.step # "scan" /\ compactor.rev > r
                        \/ LatestAt(k, r)'.val = LatestAt(k, r).val
<1>1. Inv /\ [Next]_vars => Repeats
  <2> SUFFICES ASSUME Inv, [Next]_vars,
                      NEW k \in Keys, NEW r \in StartRevision .. committedRevision,
                      ~\E b \in limbo : b.key = k /\ b.rev <= r,
                      ~(compactor.step = "scan" /\ compactor'.step # "scan" /\ compactor.rev > r)
               PROVE  LatestAt(k, r)'.val = LatestAt(k, r).val
    BY Zenon
  <2>1. TypeOK /\ committedRevision \in Nat /\ r \in Nat /\ r <= committedRevision
    BY WritePathAssumption DEF Inv, TypeOK
  <2>2. LatestAt(k, r) = LatestOf(objects[k], r) /\ LatestAt(k, r)' = LatestOf(objects'[k], r)
    BY Zenon DEF LatestAt, LatestOf, TopOf
  <2>3. CASE objects' = objects
    BY Zenon, <2>2, <2>3
  <2>4. ASSUME NEW b \in Batches, Apply(b), b \in limbo \/ b.rev > committedRevision
        PROVE  LatestAt(k, r)'.val = LatestAt(k, r).val
    <3>1. PICK S, T : S = objects[k] /\ T = objects'[k]
      BY Zenon
    <3>2. CASE b.key # k
      BY Zenon, <2>1, <2>2, <2>4, <3>2, ApplyTypes
    <3>3. CASE b.key = k
      <4>1. ~(b.rev <= r)
        BY <2>1, <2>4, <3>3, StoreTypes
      <4>2. T = S \cup {[rev |-> b.rev, val |-> b.val]}
        BY Zenon, <2>1, <2>4, <3>1, <3>3, ApplyTypes
      <4>3. \A o : o \in S /\ o.rev <= r <=> o \in T /\ o.rev <= r
        BY <4>1, <4>2
      <4> QED BY Zenon, <2>2, <3>1, <4>3, SameBelow
    <3> QED BY Zenon, <3>2, <3>3
  <2>5. CASE CompactScan
    <3>1. compactor.step = "scan" /\ compactor'.step # "scan"
      BY Zenon, <2>5 DEF CompactScan, Idle
    <3>2. compactor.rev \in Nat
      BY Zenon, <2>5, KeptIs
    <3>3. compactor.rev <= r
      BY <2>1, <3>1, <3>2
    <3> QED BY Zenon, <2>1, <2>2, <2>5, <3>3, ScanRepeatable
  <2> QED BY Zenon, <2>3, <2>4, <2>5, StoreStep
<1>2. [Repeats]_vars => [\A k \in Keys, r \in StartRevision .. committedRevision :
                           \/ \E b \in limbo : b.key = k /\ b.rev <= r
                           \/ compactor.step = "scan" /\ compactor'.step # "scan" /\ compactor.rev > r
                           \/ LatestAt(k, r)'.val = LatestAt(k, r).val]_vars
  BY Zenon
<1> HIDE DEF Repeats
<1> QED BY <1>1, <1>2, Invariant, PTL DEF Spec, ReadsRepeatable

-----------------------------------------------------------------------------
(* What the watchers are told.  The rewrite of the retry loop has its       *)
(* effect when its commit returns, or fails because the key has moved on.   *)

\* The event that notify makes of a batch and its result.
EventOf(b, res) == [revision |-> b.rev, result |-> res, key |-> b.key, val |-> b.val]

\* An event that is to be handed in, or in the ring, or with the collector.
OnTheWay(e) ==
  \/ \E w \in Writers : writer[w].step = "notify" /\ e = EventOf(writer[w].batch, writer[w].result)
  \/ \E s \in Slots : ring[s] # Nil /\ e = ring[s]
  \/ collector.step = "commit" /\ e = collector.event
  \/ /\ retrier.step = "dispatch"
     /\ e = [revision |-> retrier.rev, result |-> retrier.result,
             key |-> Head(retryQueue).key, val |-> Head(retryQueue).val]

\* An event, or one of a revision, is in the retry queue.
InQueue(e) == \E i \in DOMAIN retryQueue : retryQueue[i] = e
Retried(r) == \E i \in DOMAIN retryQueue : retryQueue[i].revision = r

\* What an event says of its revision: a version with it is the one of the
\* event, and so is a batch that may still put it.
Agrees(e) ==
  /\ \A k \in Keys : \A o \in objects[k] :
       o.rev = e.revision => k = e.key /\ o.val = e.val /\ e.result # "failed"
  /\ \A b \in limbo :
       b.rev = e.revision => b.key = e.key /\ b.val = e.val /\ e.result = "uncertain"

\* No event is wrong, and one of a successful write has its version.
Told ==
  /\ \A e \in Events : OnTheWay(e) \/ InQueue(e) => Agrees(e)
  /\ \A e \in Events : OnTheWay(e) /\ e.result = "ok" =>
       \E o \in objects[e.key] : o.rev = e.revision

\* The uncertain event the collector has in hand is queued, or the retry loop
\* has seen to it already.
Resolved ==
  collector.step = "commit" /\ collector.event.result = "uncertain" =>
    \/ Retried(collector.event.revision)
    \/ \A o \in objects[collector.event.key] :
         Newest(collector.event.key, o) => o.rev # collector.event.revision

\* The retry loop writes the value of the head again, which is there; after
\* its commit a newer version is.
Rewritten ==
  /\ retrier.step = "commit" =>
       /\ retrier.val = Head(retryQueue).val
       /\ \E o \in objects[Head(retryQueue).key] : o.rev = Head(retryQueue).revision
  /\ retrier.step \in {"dispatch", "pop"} =>
       \E o \in objects[Head(retryQueue).key] : o.rev > Head(retryQueue).revision

\* The client knows the newest version of a key once it is committed, unless
\* that version is the one of an event still in the retry queue.
InSync ==
  \A k \in Keys :
    /\ objects[k] = {} => view[k] = Tombstone
    /\ \A o \in objects[k] :
         Newest(k, o) /\ o.rev <= committedRevision /\ ~Retried(o.rev) => view[k] = o.val

Sync == Told /\ Resolved /\ Rewritten /\ InSync

\* The newest version of a key is what the iterator finds.
LEMMA NewestIsLatest ==
  ASSUME TypeOK, Indexed, NEW k \in Keys
  PROVE  /\ objects[k] = {} => Latest(k) = NoVersion
         /\ \A o \in objects[k] : Newest(k, o) => Latest(k) = o
         /\ objects[k] # {} => \E o \in objects[k] : Newest(k, o) /\ index[k] = EntryOf(o)
<1>1. dealRevision \in Nat
  BY WritePathAssumption DEF TypeOK
<1>2. ASSUME NEW o \in objects[k], Newest(k, o)
      PROVE  Latest(k) = o
  <2>1. NewestAt(k, dealRevision, o)
    BY Zenon, <1>2 DEF Newest, NewestAt, Indexed
  <2> QED BY Zenon, <1>1, <2>1, LatestAtIs DEF Latest
<1>3. objects[k] = {} => Latest(k) = NoVersion
  BY Zenon, LatestAtNone DEF Latest
<1> QED BY Zenon, <1>2, <1>3 DEF Indexed

\* An event is of another revision than a batch that was not committed.
LEMMA CarriedApart ==
  ASSUME Inv, NEW e \in Events, OnTheWay(e) \/ InQueue(e)
  PROVE  /\ \A w \in Open : RevOf(w) # e.revision
         /\ retrier.step = "commit" => retrier.rev # e.revision
         /\ e.revision <= dealRevision
         /\ OnTheWay(e) => e.revision > committedRevision
<1> USE DEF Inv
<1>1. e.revision \in Nat /\ committedRevision \in Nat /\ dealRevision \in Nat
  BY Zenon, EventTypes, Counters
<1>2. Open \subseteq Holders /\ \A w \in Open : writer[w].step # "notify"
  BY Zenon DEF Open, Holders
<1> DEFINE Apart1 == /\ \A w \in Open : RevOf(w) # e.revision
                     /\ retrier.step = "commit" => retrier.rev # e.revision
           Within == e.revision > committedRevision /\ e.revision <= dealRevision
<1>3. ASSUME NEW v \in Writers, writer[v].step = "notify",
             e = EventOf(writer[v].batch, writer[v].result)
      PROVE  Apart1 /\ Within
  <2>1. v \in Holders /\ e.revision = RevOf(v)
    BY Zenon, <1>3 DEF Holders, RevOf, EventOf
  <2>2. Unpublished(e.revision)
    BY Zenon, <2>1 DEF Apart
  <2>3. Within
    BY Zenon, <2>2, UnpublishedAbove
  <2>4. Apart1
    BY Zenon, <1>2, <1>3, <2>1 DEF Apart, Rewriting
  <2> QED BY Zenon, <2>3, <2>4
<1>4. ASSUME NEW s \in Slots, ring[s] # Nil, e = ring[s]
      PROVE  Apart1 /\ Within
  <2>1. e.revision \in committedRevision + 1 .. dealRevision
    BY Zenon, <1>4 DEF Ringed
  <2>2. Within
    BY Zenon, <1>1, <2>1, NumberBetween
  <2>3. Apart1
    BY Zenon, <1>2, <1>4 DEF Apart, Rewriting, Unpublished
  <2> QED BY Zenon, <2>2, <2>3
<1>5. ASSUME collector.step = "commit", e = collector.event
      PROVE  Apart1 /\ Within
  <2>1. e.revision = committedRevision + 1 /\ committedRevision < dealRevision
    BY Zenon, <1>5 DEF Collecting
  <2>2. Within
    BY <1>1, <2>1
  <2>3. Apart1
    BY Zenon, <1>2, <1>5 DEF Apart, Rewriting, Unpublished
  <2> QED BY Zenon, <2>2, <2>3
<1>6. ASSUME retrier.step = "dispatch", e.revision = retrier.rev
      PROVE  Apart1 /\ Within
  <2>1. Unpublished(e.revision)
    BY Zenon, <1>6 DEF Apart, Rewriting
  <2>2. Within
    BY <1>1, <2>1 DEF Unpublished
  <2>3. Apart1
    BY Zenon, <1>2, <1>6 DEF Apart, Rewriting
  <2> QED BY Zenon, <2>2, <2>3
<1>7. ASSUME InQueue(e)
      PROVE  Apart1 /\ e.revision <= dealRevision
  <2>1. PICK i \in DOMAIN retryQueue : retryQueue[i] = e
    BY Zenon, <1>7 DEF InQueue
  <2>2. \A r \in Nat : Unpublished(r) => e.revision < r
    BY Zenon, <2>1, QueueApart
  <2>3. \A w \in Open : RevOf(w) \in Nat /\ Unpublished(RevOf(w))
    BY Zenon, <1>2, HolderBatch DEF Apart
  <2>4. retrier.step = "commit" => retrier.rev \in Nat /\ Unpublished(retrier.rev)
    BY Zenon, RetrierTypes DEF Apart, Rewriting
  <2>5. Apart1
    <3>1. \A r \in Nat : Unpublished(r) => r # e.revision
      BY <1>1, <2>2
    <3> QED BY Zenon, <2>3, <2>4, <3>1
  <2>6. e.revision <= committedRevision \/ e.revision = collector.event.revision
    BY Zenon, <2>1 DEF Queued
  <2>7. collector.event.revision = 0 \/ collector.event.revision <= dealRevision
    BY <1>1, EventTypes DEF Collecting
  <2>8. e.revision <= dealRevision
    BY <1>1, <2>6, <2>7 DEF Collecting
  <2> QED BY Zenon, <2>5, <2>8
<1>8. OnTheWay(e) => Apart1 /\ Within
  <2>1. e = [revision |-> retrier.rev, result |-> retrier.result,
             key |-> Head(retryQueue).key, val |-> Head(retryQueue).val]
        => e.revision = retrier.rev
    OBVIOUS
  <2> HIDE DEF Apart1, Within
  <2> QED BY Zenon, <1>3, <1>4, <1>5, <1>6, <2>1 DEF OnTheWay
<1> QED BY Zenon, <1>7, <1>8

\* A batch in limbo was not told of yet, or its event is in the retry queue.
LEMMA LimboWhere ==
  ASSUME Inv, ~panicked, NEW b \in limbo
  PROVE  /\ b.rev <= dealRevision
         /\ b.rev > committedRevision \/ Retried(b.rev)
         /\ collector.step = "commit" => b.rev # collector.event.revision \/ Retried(b.rev)
<1> USE DEF Inv
<1>1. PICK r \in Nat : r = b.rev
  BY Zenon, StoreTypes
<1>2. Tracked(r) /\ committedRevision \in Nat /\ dealRevision \in Nat
  BY <1>1, WritePathAssumption DEF Limbo, TypeOK
<1>3. Unpublished(r) => /\ r <= dealRevision /\ r > committedRevision
                        /\ r # collector.event.revision
  BY <1>2 DEF Unpublished
<1>4. CASE \E w \in Holders : writer[w].step = "notify" /\ RevOf(w) = r
  BY Zenon, <1>1, <1>3, <1>4 DEF Apart
<1>5. CASE retrier.step = "dispatch" /\ retrier.rev = r
  BY Zenon, <1>1, <1>3, <1>5 DEF Apart, Rewriting
<1>6. CASE \E s \in Slots : ring[s] # Nil /\ ring[s].revision = r
  <2>1. r \in committedRevision + 1 .. dealRevision /\ r # collector.event.revision
    BY Zenon, <1>6 DEF Ringed
  <2>2. r > committedRevision /\ r <= dealRevision
    BY <1>2, <2>1
  <2> QED BY Zenon, <1>1, <2>1, <2>2
<1>7. CASE \E i \in DOMAIN retryQueue : retryQueue[i].revision = r
  <2>1. PICK i \in DOMAIN retryQueue : retryQueue[i].revision = r
    BY Zenon, <1>7
  <2>2. InQueue(retryQueue[i]) /\ retryQueue[i] \in Events
    BY Zenon, EventTypes DEF InQueue
  <2>3. r <= dealRevision
    BY Zenon, <2>1, <2>2, CarriedApart
  <2> QED BY Zenon, <1>1, <1>7, <2>3 DEF Retried
<1> QED BY Zenon, <1>2, <1>4, <1>5, <1>6, <1>7 DEF Tracked

\* Events that move on, or that say a write failed, stay right.
LEMMA KeepTold ==
  ASSUME Told, objects' = objects, limbo' \subseteq limbo,
         \A e \in Events : OnTheWay(e)' =>
           \/ OnTheWay(e)
           \/ e.result = "failed" /\ Unused(e.revision) /\ \A b \in limbo : b.rev # e.revision,
         \A e \in Events : InQueue(e)' => OnTheWay(e) \/ InQueue(e)
  PROVE  Told'
<1>1. \A e \in Events : Agrees(e) => Agrees(e)'
  BY Zenon DEF Agrees
<1>2. \A e \in Events : Unused(e.revision) /\ (\A b \in limbo : b.rev # e.revision) => Agrees(e)'
  BY Zenon DEF Agrees, Unused
<1>3. \A e \in Events : OnTheWay(e)' \/ InQueue(e)' => Agrees(e)'
  BY Zenon, <1>1, <1>2 DEF Told
<1>4. \A e \in Events : OnTheWay(e)' /\ e.result = "ok" => \E o \in objects'[e.key] : o.rev = e.revision
  BY Zenon DEF Told
<1> QED BY Zenon, <1>3, <1>4 DEF Told

\* The version a batch brings.
LEMMA AppliedVersion ==
  ASSUME TypeOK, NEW b \in Batches, Apply(b)
  PROVE  \A k \in Keys : \A o \in objects'[k] :
           o \in objects[k] \/ (k = b.key /\ o.rev = b.rev /\ o.val = b.val)
<1>1. PICK v : v = [rev |-> b.rev, val |-> b.val]
  BY Zenon
<1>2. v.rev = b.rev /\ v.val = b.val
  BY <1>1
<1>3. /\ objects'[b.key] = objects[b.key] \cup {v}
      /\ \A k \in Keys : k # b.key => objects'[k] = objects[k]
  BY Zenon, <1>1, ApplyTypes
<1> QED BY Zenon, <1>2, <1>3

\* A batch takes effect: its version is the one its event tells of.
LEMMA ApplyAgrees ==
  ASSUME TypeOK, NEW b \in Batches, Apply(b), Unused(b.rev), limbo' \subseteq limbo \cup {b},
         NEW e \in Events, Agrees(e),
         b.rev = e.revision => b.key = e.key /\ b.val = e.val /\ e.result = "uncertain"
  PROVE  Agrees(e)'
<1>1. \A k \in Keys : \A o \in objects'[k] :
        o \in objects[k] \/ (k = b.key /\ o.rev = b.rev /\ o.val = b.val)
  BY Zenon, AppliedVersion
<1>2. \A k \in Keys : \A o \in objects'[k] :
        o.rev = e.revision => k = e.key /\ o.val = e.val /\ e.result # "failed"
  BY <1>1 DEF Agrees
<1>3. \A a \in limbo' :
        a.rev = e.revision => a.key = e.key /\ a.val = e.val /\ e.result = "uncertain"
  BY Zenon DEF Agrees
<1> QED BY Zenon, <1>2, <1>3 DEF Agrees

\* The fields of an event.
LEMMA EventFields ==
  ASSUME NEW b, NEW res, NEW e, e = EventOf(b, res)
  PROVE  e.revision = b.rev /\ e.key = b.key /\ e.val = b.val /\ e.result = res
BY DEF EventOf

\* A commit, and the event that is made of its result.
LEMMA CommitTold ==
  ASSUME TypeOK, Told, NEW b \in Batches, NEW faults, NEW res, Commit(b, faults, res),
         Unused(b.rev), \A a \in limbo : a.rev # b.rev,
         \A e \in Events : OnTheWay(e) \/ InQueue(e) => e.revision # b.rev,
         \A e \in Events : InQueue(e)' => InQueue(e),
         \A e \in Events : OnTheWay(e)' => OnTheWay(e) \/ e = EventOf(b, res)
  PROVE  Told'
<1>1. \A e : e = EventOf(b, res) =>
        e.revision = b.rev /\ e.key = b.key /\ e.val = b.val /\ e.result = res
  BY Zenon, EventFields
<1>2. CASE Matches(b) /\ Apply(b) /\ limbo' = limbo /\ res \in {"ok", "uncertain"}
  <2>1. \A e \in Events : OnTheWay(e) \/ InQueue(e) => Agrees(e)'
    BY Zenon, <1>2, ApplyAgrees DEF Told
  <2>2. \A k \in Keys : \A o \in objects'[k] :
          o \in objects[k] \/ (k = b.key /\ o.rev = b.rev /\ o.val = b.val)
    BY Zenon, <1>2, AppliedVersion
  <2>3. \A k \in Keys : \A o \in objects'[k] : o.rev = b.rev => k = b.key /\ o.val = b.val
    BY Zenon, <2>2 DEF Unused
  <2>4. \A e \in Events : e = EventOf(b, res) => Agrees(e)'
    <3> SUFFICES ASSUME NEW e \in Events, e = EventOf(b, res)
                 PROVE  Agrees(e)'
      BY Zenon
    <3>1. e.revision = b.rev /\ e.key = b.key /\ e.val = b.val /\ e.result # "failed"
      BY <1>1, <1>2
    <3> QED BY Zenon, <1>2, <2>3, <3>1 DEF Agrees
  <2>5. \A e \in Events : OnTheWay(e)' \/ InQueue(e)' => Agrees(e)'
    BY Zenon, <2>1, <2>4
  <2>6. \A k \in Keys : objects[k] \subseteq objects'[k]
    BY Zenon, <1>2, ApplyTypes
  <2>7. \E o \in objects'[b.key] : o.rev = b.rev
    <3>1. [rev |-> b.rev, val |-> b.val] \in objects'[b.key]
      BY Zenon, <1>2, ApplyTypes
    <3> QED BY Zenon, <3>1
  <2>8. \A e \in Events : OnTheWay(e)' /\ e.result = "ok" =>
          \E o \in objects'[e.key] : o.rev = e.revision
    BY Zenon, <1>1, <2>6, <2>7, EventTypes DEF Told
  <2> QED BY Zenon, <2>5, <2>8 DEF Told
<1>3. CASE /\ UNCHANGED <<index, objects>>
           /\ \/ limbo' = limbo /\ res = "failed"
              \/ limbo' = limbo \cup {b} /\ res = "uncertain"
  <2>1. \A e \in Events : OnTheWay(e) \/ InQueue(e) => Agrees(e)'
    BY Zenon, <1>3 DEF Told, Agrees
  <2>2. \A e \in Events : e = EventOf(b, res) => Agrees(e)'
    BY Zenon, <1>1, <1>3 DEF Agrees, Unused
  <2>3. \A e \in Events : OnTheWay(e)' /\ e.result = "ok" =>
          \E o \in objects'[e.key] : o.rev = e.revision
    BY <1>1, <1>3 DEF Told
  <2> QED BY Zenon, <2>1, <2>2, <2>3 DEF Told
<1> QED BY Zenon, <1>2, <1>3, CommitCases DEF storeVars

\* A batch takes effect whose revision is not committed, or in the retry queue.
LEMMA ApplyInSync ==
  ASSUME TypeOK, Indexed, InSync, NEW b \in Batches, Matches(b), Apply(b), Unused(b.rev),
         b.from.rev <= b.rev, b.rev > committedRevision \/ Retried(b.rev),
         UNCHANGED <<committedRevision, retryQueue, view>>
  PROVE  InSync'
<1>1. \A r : Retried(r)' <=> Retried(r)
  BY Zenon DEF Retried
<1> SUFFICES ASSUME NEW k \in Keys
             PROVE  /\ objects'[k] = {} => view[k] = Tombstone
                    /\ \A o \in objects'[k] :
                         Newest(k, o)' /\ o.rev <= committedRevision /\ ~Retried(o.rev) =>
                           view[k] = o.val
  BY Zenon, <1>1 DEF InSync
<1>2. CASE k # b.key
  <2>1. objects'[k] = objects[k]
    BY Zenon, <1>2, ApplyTypes
  <2> QED BY Zenon, <2>1 DEF InSync, Newest
<1>3. CASE k = b.key
  <2>1. PICK v : v = [rev |-> b.rev, val |-> b.val]
    BY Zenon
  <2>2. objects'[k] = objects[k] \cup {v} /\ v.rev = b.rev
    BY Zenon, <1>3, <2>1, ApplyTypes
  <2>3. \A p \in objects[k] : p.rev < b.rev /\ p.rev \in Nat
    BY Zenon, <1>3, ApplyAbove, StoreTypes
  <2>4. \A o \in objects'[k] : Newest(k, o)' => o = v
    <3> SUFFICES ASSUME NEW o \in objects[k], v # o, v.rev < o.rev
                 PROVE  FALSE
      BY Zenon, <2>2 DEF Newest
    <3>1. o.rev < b.rev /\ o.rev \in Nat /\ b.rev \in Nat /\ b.rev < o.rev
      BY Zenon, <2>2, <2>3, StoreTypes
    <3> QED BY Zenon, <3>1, NumberOrder
  <2>5. ~(b.rev <= committedRevision) \/ Retried(b.rev)
    <3>1. b.rev \in Nat /\ committedRevision \in Nat
      BY Zenon, StoreTypes DEF TypeOK
    <3>2. b.rev > committedRevision => ~(b.rev <= committedRevision)
      BY Zenon, <3>1, NumberOrder
    <3> QED BY Zenon, <3>2
  <2> QED BY Zenon, <2>2, <2>4, <2>5
<1> QED BY Zenon, <1>2, <1>3

\* The same for the event the collector has in hand.
LEMMA ApplyResolved ==
  ASSUME Inv, Resolved, NEW b \in Batches, Matches(b), Apply(b), Unused(b.rev),
         b.from.rev <= b.rev,
         collector.step = "commit" => b.rev # collector.event.revision \/ Retried(b.rev),
         UNCHANGED <<collector, retryQueue>>
  PROVE  Resolved'
<1> USE DEF Inv
<1>1. \A r : Retried(r)' <=> Retried(r)
  BY Zenon DEF Retried
<1> SUFFICES ASSUME collector.step = "commit", collector.event.result = "uncertain",
                    ~Retried(collector.event.revision)
             PROVE  \A o \in objects'[collector.event.key] :
                      Newest(collector.event.key, o)' => o.rev # collector.event.revision
  BY Zenon, <1>1 DEF Resolved
<1>2. PICK k \in Keys : k = collector.event.key
  BY Zenon, EventTypes DEF Collecting
<1>3. PICK r : r = collector.event.revision
  BY Zenon
<1>4. b.rev # r /\ \A o \in objects[k] : Newest(k, o) => o.rev # r
  BY Zenon, <1>2, <1>3 DEF Resolved
<1> SUFFICES ASSUME NEW o \in objects'[k], Newest(k, o)'
             PROVE  o.rev # r
  BY Zenon, <1>2, <1>3
<1>5. CASE k # b.key
  <2>1. objects'[k] = objects[k]
    BY Zenon, <1>5, ApplyTypes
  <2> QED BY Zenon, <1>4, <2>1 DEF Newest
<1>6. CASE k = b.key
  <2>1. PICK v : v = [rev |-> b.rev, val |-> b.val]
    BY Zenon
  <2>2. objects'[k] = objects[k] \cup {v} /\ v.rev = b.rev
    BY Zenon, <1>6, <2>1, ApplyTypes
  <2>3. \A p \in objects[k] : Newest(k, p)' /\ p \in objects[k] => Newest(k, p)
    BY Zenon, <2>2 DEF Newest
  <2> QED BY Zenon, <1>4, <2>2, <2>3
<1> QED BY Zenon, <1>5, <1>6

\* A step that touches neither the versions, the queue nor the collector.
LEMMA QuietSync ==
  ASSUME Resolved, Rewritten, InSync,
         UNCHANGED <<objects, committedRevision, collector, retryQueue, retrier, view>>
  PROVE  Resolved' /\ Rewritten' /\ InSync'
<1>1. \A r : Retried(r)' <=> Retried(r)
  BY Zenon DEF Retried
<1>2. Resolved'
  BY Zenon, <1>1 DEF Resolved, Newest
<1>3. Rewritten'
  BY Zenon DEF Rewritten
<1>4. InSync'
  BY Zenon, <1>1 DEF InSync, Newest
<1> QED BY Zenon, <1>2, <1>3, <1>4

\* The events after a step of one request.
LEMMA WriterWay ==
  ASSUME TypeOK, NEW w \in Writers, NEW q, writer' = [writer EXCEPT ![w] = q],
         UNCHANGED <<ring, collector, retryQueue, retrier>>, NEW e, OnTheWay(e)'
  PROVE  OnTheWay(e) \/ (q.step = "notify" /\ e = EventOf(q.batch, q.result))
<1>1. writer'[w] = q /\ \A v \in Writers : v # w => writer'[v] = writer[v]
  BY Zenon DEF TypeOK
<1>2. CASE \E v \in Writers : writer'[v].step = "notify" /\ e = EventOf(writer'[v].batch, writer'[v].result)
  <2>1. PICK v \in Writers : writer'[v].step = "notify" /\ e = EventOf(writer'[v].batch, writer'[v].result)
    BY Zenon, <1>2
  <2>2. CASE v = w
    BY Zenon, <1>1, <2>1, <2>2
  <2>3. CASE v # w
    BY Zenon, <1>1, <2>1, <2>3 DEF OnTheWay
  <2> QED BY Zenon, <2>2, <2>3
<1>3. CASE ~\E v \in Writers : writer'[v].step = "notify" /\ e = EventOf(writer'[v].batch, writer'[v].result)
  BY Zenon, <1>3 DEF OnTheWay, EventOf
<1> QED BY Zenon, <1>2, <1>3

\* A request goes on, or fails without having written anything.
LEMMA WriterSync ==
  ASSUME TypeOK, Sync, NEW w \in Writers, NEW q, writer' = [writer EXCEPT ![w] = q],
         UNCHANGED <<ring, collector, committedRevision, objects, limbo, retryQueue, retrier, view>>,
         q.step = "notify" => /\ q.result = "failed" /\ Unused(q.batch.rev)
                              /\ \A b \in limbo : b.rev # q.batch.rev
  PROVE  Sync'
<1>1. \A e \in Events : OnTheWay(e)' =>
        \/ OnTheWay(e)
        \/ e.result = "failed" /\ Unused(e.revision) /\ \A b \in limbo : b.rev # e.revision
  <2> SUFFICES ASSUME NEW e \in Events, OnTheWay(e)', ~OnTheWay(e)
               PROVE  e.result = "failed" /\ Unused(e.revision) /\ \A b \in limbo : b.rev # e.revision
    BY Zenon
  <2>1. q.step = "notify" /\ e = EventOf(q.batch, q.result)
    BY Zenon, WriterWay
  <2>2. e.revision = q.batch.rev /\ e.result = q.result
    BY <2>1 DEF EventOf
  <2> QED BY Zenon, <2>1, <2>2
<1>2. \A e \in Events : InQueue(e)' => InQueue(e)
  BY Zenon DEF InQueue
<1>3. Told'
  BY Zenon, <1>1, <1>2, KeepTold DEF Sync
<1> QED BY Zenon, <1>3, QuietSync DEF Sync

\* A request begins.
LEMMA BeginSync ==
  ASSUME Inv, Sync, NEW w \in Writers, NEW q, Begin(w, q),
         q.step = "notify" => q.result = "failed" /\ q.batch.rev = dealRevision + 1
  PROVE  Sync'
<1> USE DEF Inv
<1>1. ~panicked /\ writer' = [writer EXCEPT ![w] = q]
      /\ UNCHANGED <<ring, collector, committedRevision, objects, limbo, retryQueue, retrier, view>>
  BY Zenon DEF Begin, storeVars, retryVars
<1>2. PICK d \in Nat : d = dealRevision
  BY WritePathAssumption DEF TypeOK
<1>3. \A k \in Keys : \A o \in objects[k] : o.rev <= d /\ o.rev \in Nat
  BY Zenon, <1>2, StoreTypes DEF Indexed
<1>4. \A b \in limbo : b.rev <= d /\ b.rev \in Nat
  BY Zenon, <1>1, <1>2, LimboWhere, StoreTypes
<1>5. \A r : r = d + 1 => Unused(r) /\ \A b \in limbo : b.rev # r
  <2>1. \A n \in Nat : n <= d => n # d + 1
    OBVIOUS
  <2> QED BY Zenon, <1>3, <1>4, <2>1 DEF Unused
<1> QED BY Zenon, <1>1, <1>2, <1>5, WriterSync

\* Create: a revision is dealt.
LEMMA CreateSync == ASSUME Inv, Sync, NEW w \in Writers, NEW k \in Keys, Create(w, k)
                    PROVE  Sync'
<1>1. PICK q : q = Request("put", Batch(k, Absent, dealRevision + 1, dealRevision + 1))
  BY Zenon
<1>2. Begin(w, q)
  BY Zenon, <1>1 DEF Create
<1>3. q.step # "notify"
  BY <1>1 DEF Request
<1> QED BY Zenon, <1>2, <1>3, BeginSync

\* Update: a revision is dealt, or the request ends with a drift back.
LEMMA UpdateSync ==
  ASSUME Inv, Sync, NEW w \in Writers, NEW k \in Keys, NEW prev, Update(w, k, prev)
  PROVE  Sync'
<1>1. PICK q : q = IF DriftBack(prev) THEN Idle
                   ELSE Request("commit", Batch(k, Live(prev), dealRevision + 1, dealRevision + 1))
  BY Zenon
<1>2. Begin(w, q)
  BY Zenon, <1>1 DEF Update
<1>3. q.step # "notify"
  BY <1>1 DEF Request, Idle
<1> QED BY Zenon, <1>2, <1>3, BeginSync

\* Delete: the value is read.
LEMMA DeleteReadSync ==
  ASSUME Inv, Sync, NEW w \in Writers, NEW k \in Keys, NEW prev, DeleteRead(w, k, prev)
  PROVE  Sync'
<1>1. PICK old \in {Latest(k), NoVersion} : writer' = [writer EXCEPT ![w] =
         [step |-> "read", key |-> k, prev |-> prev, old |-> old]]
  BY Zenon DEF DeleteRead
<1>2. PICK q : q = [step |-> "read", key |-> k, prev |-> prev, old |-> old]
  BY Zenon
<1>3. q.step # "notify"
  BY <1>2
<1>4. UNCHANGED <<ring, collector, committedRevision, objects, limbo, retryQueue, retrier, view>>
  BY Zenon DEF DeleteRead, ringVars, storeVars, retryVars
<1> QED BY Zenon, <1>1, <1>2, <1>3, <1>4, WriterSync DEF Inv

\* Delete: a revision is dealt, and the request goes on or is refused.
LEMMA DeleteDealSync == ASSUME Inv, Sync, NEW w \in Writers, DeleteDeal(w)
                        PROVE  Sync'
<1> DEFINE d == writer[w]
           rev == dealRevision + 1
           missing == d.old.val = Tombstone
           refused == missing \/ (d.prev > 0 /\ d.prev # d.old.rev) \/ rev <= d.old.rev
<1>1. PICK q : q = IF ~missing /\ DriftBack(d.prev) THEN Idle
              ELSE IF refused THEN Request("notify", Batch(d.key, Absent, rev, Tombstone))
              ELSE Request("commit", Batch(d.key, Live(d.old.rev), rev, Tombstone))
  BY Zenon
<1>2. Begin(w, q)
  BY Zenon, <1>1 DEF DeleteDeal
<1>3. \/ q = Idle
      \/ q = Request("notify", Batch(d.key, Absent, rev, Tombstone))
      \/ q = Request("commit", Batch(d.key, Live(d.old.rev), rev, Tombstone))
  BY Zenon, <1>1
<1>4. q.step = "notify" => q.result = "failed" /\ q.batch.rev = dealRevision + 1
  <2> HIDE DEF d, rev
  <2>1. CASE q = Idle
    BY Zenon, <2>1 DEF Idle
  <2>2. CASE q = Request("notify", Batch(d.key, Absent, rev, Tombstone))
    <3>1. q.result = "failed" /\ q.batch = Batch(d.key, Absent, rev, Tombstone)
      BY Zenon, <2>2 DEF Request
    <3>2. PICK x : x = Batch(d.key, Absent, rev, Tombstone)
      BY Zenon
    <3>3. x.rev = rev
      BY <3>2 DEF Batch
    <3> QED BY Zenon, <3>1, <3>2, <3>3 DEF rev
  <2>3. CASE q = Request("commit", Batch(d.key, Live(d.old.rev), rev, Tombstone))
    <3>1. q.step = "commit"
      BY Zenon, <2>3 DEF Request
    <3> QED BY Zenon, <3>1
  <2> QED BY Zenon, <1>3, <2>1, <2>2, <2>3
<1> QED BY Zenon, <1>2, <1>4, BeginSync

\* A commit leaves the client in sync, whoever made it.
LEMMA CommitSync ==
  ASSUME Inv, Sync, NEW b \in Batches, NEW faults, NEW res, Commit(b, faults, res),
         Unpublished(b.rev), Unused(b.rev), b.from.rev <= b.rev,
         UNCHANGED <<committedRevision, collector, retryQueue, view>>
  PROVE  /\ Resolved' /\ InSync'
         /\ \A k \in Keys : objects[k] \subseteq objects'[k]
<1> USE DEF Inv
<1>1. b.rev > committedRevision /\ b.rev # collector.event.revision
  BY Zenon, UnpublishedAbove
<1>2. CASE Matches(b) /\ Apply(b)
  <2>1. \A k \in Keys : objects[k] \subseteq objects'[k]
    BY Zenon, <1>2, ApplyTypes
  <2>2. InSync'
    BY Zenon, <1>1, <1>2, ApplyInSync DEF Sync
  <2>3. Resolved'
    BY Zenon, <1>1, <1>2, ApplyResolved DEF Sync
  <2> QED BY Zenon, <2>1, <2>2, <2>3
<1>3. CASE UNCHANGED objects
  <2>1. \A r : Retried(r)' <=> Retried(r)
    BY Zenon DEF Retried
  <2>2. Resolved'
    BY Zenon, <1>3, <2>1 DEF Resolved, Newest, Sync
  <2>3. InSync'
    BY Zenon, <1>3, <2>1 DEF InSync, Newest, Sync
  <2> QED BY Zenon, <1>3, <2>2, <2>3
<1> QED BY Zenon, <1>2, <1>3, CommitCases DEF storeVars

\* The retry loop does not move, and no version is lost.
LEMMA GrowRewritten ==
  ASSUME Inv, Rewritten, UNCHANGED <<retrier, retryQueue>>,
         \A k \in Keys : objects[k] \subseteq objects'[k]
  PROVE  Rewritten'
<1>1. retrier # Idle => Head(retryQueue).key \in Keys
  <2> SUFFICES ASSUME retrier # Idle
               PROVE  Head(retryQueue).key \in Keys
    BY Zenon
  <2>1. retryQueue # <<>> /\ retryQueue \in Seq(Events)
    BY Zenon DEF Inv, Retrying, TypeOK
  <2>2. Head(retryQueue) \in Events
    BY <2>1
  <2> QED BY Zenon, <2>2, EventTypes DEF Inv
<1>2. retrier.step \in {"commit", "dispatch", "pop"} => retrier # Idle
  BY DEF Idle
<1> QED BY Zenon, <1>1, <1>2 DEF Rewritten

\* A request commits its batch for the last time.
LEMMA FinishSync ==
  ASSUME Inv, Sync, ~panicked, NEW w \in Open, NEW faults, NEW res \in Results,
         Commit(writer[w].batch, faults, res), Finish(w, res),
         UNCHANGED <<ringVars, retryVars, compactor, view>>
  PROVE  Sync'
<1> USE DEF Inv
<1>1. UNCHANGED <<committedRevision, ring, collector, retryQueue, retrier, view>>
  BY Zenon DEF ringVars, retryVars
<1>2. PICK b \in Batches : b = writer[w].batch
  BY Zenon, HolderBatch DEF Open, Holders
<1>3. w \in Writers /\ w \in Holders /\ b.rev = RevOf(w)
  BY Zenon, <1>2 DEF Open, Holders, RevOf
<1>4. Commit(b, faults, res)
  BY Zenon, <1>2 DEF Commit, Matches, Apply
<1>5. Unpublished(b.rev) /\ Unused(b.rev) /\ b.from.rev <= b.rev /\ \A a \in limbo : a.rev # b.rev
  BY Zenon, <1>2, <1>3, LimboApart DEF Apart, Effective
<1>6. PICK q \in Requests : /\ writer' = [writer EXCEPT ![w] = q]
                            /\ q.step = "notify" /\ q.result = res
                            /\ q.batch.rev = RevOf(w)
                            /\ q.batch.key = writer[w].batch.key
                            /\ q.batch.val = writer[w].batch.val
  BY Zenon, FinishTypes
<1>7. EventOf(q.batch, q.result) = EventOf(b, res)
  BY Zenon, <1>2, <1>3, <1>6 DEF EventOf
<1>8. \A e \in Events : OnTheWay(e)' => OnTheWay(e) \/ e = EventOf(b, res)
  BY Zenon, <1>1, <1>3, <1>6, <1>7, WriterWay
<1>9. \A e \in Events : InQueue(e)' => InQueue(e)
  BY Zenon, <1>1 DEF InQueue
<1>10. \A e \in Events : OnTheWay(e) \/ InQueue(e) => e.revision # b.rev
  BY Zenon, <1>3, CarriedApart
<1>11. Told'
  BY Zenon, <1>4, <1>5, <1>8, <1>9, <1>10, CommitTold DEF Sync
<1>12. Resolved' /\ InSync' /\ \A k \in Keys : objects[k] \subseteq objects'[k]
  BY Zenon, <1>1, <1>4, <1>5, CommitSync
<1>13. Rewritten'
  BY Zenon, <1>1, <1>12, GrowRewritten DEF Sync
<1> QED BY Zenon, <1>11, <1>12, <1>13 DEF Sync

\* The last commit of a request.
LEMMA CommitWriteSync == ASSUME Inv, Sync, NEW w \in Writers, CommitWrite(w)
                         PROVE  Sync'
<1>1. w \in Open
  BY Zenon DEF CommitWrite, Open
<1>2. PICK res \in Results : Commit(writer[w].batch, WriteFaults, res) /\ Finish(w, res)
  BY Zenon DEF CommitWrite
<1> QED BY Zenon, <1>1, <1>2, FinishSync DEF CommitWrite

\* The first commit of a Create.
LEMMA PutIfNotExistSync == ASSUME Inv, Sync, NEW w \in Writers, PutIfNotExist(w)
                           PROVE  Sync'
<1>1. w \in Open /\ TypeOK /\ ~panicked
  BY Zenon DEF PutIfNotExist, Open, Inv
<1>2. PICK res \in Results :
        /\ Commit(writer[w].batch, WriteFaults, res)
        /\ \/ Finish(w, res)
           \/ res = "failed" /\ writer' = [writer EXCEPT ![w].step = "lookup"]
  BY Zenon DEF PutIfNotExist
<1>3. CASE Finish(w, res)
  BY Zenon, <1>1, <1>2, <1>3, FinishSync DEF PutIfNotExist
<1>4. CASE res = "failed" /\ writer' = [writer EXCEPT ![w].step = "lookup"]
  <2>1. PICK q : q = [writer[w] EXCEPT !.step = "lookup"]
    BY Zenon
  <2>2. writer' = [writer EXCEPT ![w] = q]
    BY Zenon, <1>4, <2>1 DEF Inv, TypeOK
  <2>3. UNCHANGED storeVars
    BY Zenon, <1>2, <1>4 DEF Commit
  <2>4. writer[w] \in Requests
    BY Zenon, <1>1, HolderTypes DEF Open, Holders
  <2>5. q.step = "lookup"
    BY Zenon, <2>1, <2>4 DEF Requests
  <2>6. UNCHANGED <<ring, collector, committedRevision, objects, limbo, retryQueue, retrier, view>>
    BY Zenon, <2>3 DEF PutIfNotExist, ringVars, storeVars, retryVars
  <2>7. q.step # "notify"
    BY <2>5
  <2> QED BY Zenon, <1>1, <2>2, <2>6, <2>7, WriterSync
<1> QED BY Zenon, <1>2, <1>3, <1>4

\* What a Create does after a conflict.
LEMMA LookupSync == ASSUME Inv, Sync, NEW w \in Writers, Lookup(w)
                    PROVE  Sync'
<1>1. w \in Open /\ TypeOK /\ ~panicked /\ writer[w] \in Requests
  BY Zenon, HolderTypes DEF Lookup, Open, Holders, Inv
<1>2. UNCHANGED <<ring, collector, committedRevision, objects, limbo, retryQueue, retrier, view>>
  BY Zenon DEF Lookup, ringVars, storeVars, retryVars
<1>3. CASE Finish(w, "failed")
  <2>1. PICK q \in Requests : /\ writer' = [writer EXCEPT ![w] = q]
                              /\ q.step = "notify" /\ q.result = "failed"
                              /\ q.batch.rev = RevOf(w)
    BY Zenon, <1>1, <1>3, FinishTypes DEF Results
  <2>2. Unused(q.batch.rev) /\ \A a \in limbo : a.rev # q.batch.rev
    BY Zenon, <1>1, <2>1, LimboApart DEF Inv, Effective
  <2> QED BY Zenon, <1>1, <1>2, <2>1, <2>2, WriterSync
<1>4. CASE \E old : writer' = [writer EXCEPT ![w].step = "commit", ![w].batch.from = old]
  <2>1. PICK old : writer' = [writer EXCEPT ![w].step = "commit", ![w].batch.from = old]
    BY Zenon, <1>4
  <2>2. PICK c : c = [writer[w].batch EXCEPT !.from = old]
    BY Zenon
  <2>3. PICK q : q = [writer[w] EXCEPT !.step = "commit", !.batch = c]
    BY Zenon
  <2>4. writer' = [writer EXCEPT ![w] = q]
    BY Zenon, <1>1, <2>1, <2>2, <2>3 DEF TypeOK, Requests
  <2>5. q.step = "commit"
    BY Zenon, <1>1, <2>3 DEF Requests
  <2>6. q.step # "notify"
    BY <2>5
  <2> QED BY Zenon, <1>1, <1>2, <2>4, <2>6, WriterSync
<1> QED BY Zenon, <1>3, <1>4 DEF Lookup

\* A request hands in its result.
LEMMA NotifySync == ASSUME Inv, Sync, NEW w \in Writers, Notify(w)
                    PROVE  Sync'
<1> USE DEF Inv
<1>1. /\ writer[w].step = "notify" /\ writer' = [writer EXCEPT ![w] = Idle]
      /\ UNCHANGED <<committedRevision, collector, objects, limbo, retryQueue, retrier, view>>
  BY Zenon DEF Notify, storeVars, retryVars
<1>2. PICK b, res : b = writer[w].batch /\ res = writer[w].result
  BY Zenon
<1>3. HandIn(b.key, b.rev, b.val, res)
  BY Zenon, <1>2 DEF Notify, HandIn, BufferFull, StoreEvent
<1>4. \A s \in Slots : ring'[s] = ring[s] \/ ring'[s] = EventOf(b, res)
  <2>1. PICK e : e = EventOf(b, res)
    BY Zenon
  <2>2. ring' = ring \/ ring' = [ring EXCEPT ![Slot(e.revision)] = e]
    BY Zenon, <1>3, <2>1 DEF HandIn, StoreEvent, EventOf
  <2> QED BY Zenon, <2>1, <2>2 DEF TypeOK
<1>5. OnTheWay(EventOf(b, res))
  BY Zenon, <1>1, <1>2 DEF OnTheWay
<1>6. \A v \in Writers : writer'[v].step = "notify" => writer'[v] = writer[v]
  <2>1. Idle.step # "notify"
    BY DEF Idle
  <2> QED BY Zenon, <1>1, <2>1 DEF TypeOK
<1>7. \A e \in Events : OnTheWay(e)' => OnTheWay(e)
  <2> SUFFICES ASSUME NEW e \in Events, OnTheWay(e)', ~OnTheWay(e)
               PROVE  FALSE
    BY Zenon
  <2>1. CASE \E s \in Slots : ring'[s] # Nil /\ e = ring'[s]
    BY Zenon, <1>4, <1>5, <2>1 DEF OnTheWay
  <2>2. CASE \E v \in Writers : writer'[v].step = "notify" /\ e = EventOf(writer'[v].batch, writer'[v].result)
    BY Zenon, <1>6, <2>2 DEF OnTheWay
  <2>3. CASE \/ collector.step = "commit" /\ e = collector.event
             \/ /\ retrier.step = "dispatch"
                /\ e = [revision |-> retrier.rev, result |-> retrier.result,
                        key |-> Head(retryQueue).key, val |-> Head(retryQueue).val]
    BY Zenon, <2>3 DEF OnTheWay
  <2> QED BY Zenon, <1>1, <2>1, <2>2, <2>3 DEF OnTheWay, EventOf
<1>8. \A e \in Events : InQueue(e)' => InQueue(e)
  BY Zenon, <1>1 DEF InQueue
<1>9. Told'
  BY Zenon, <1>1, <1>7, <1>8, KeepTold DEF Sync
<1> QED BY Zenon, <1>1, <1>9, QuietSync DEF Sync

\* A batch in limbo takes effect, or never will.
LEMMA SettleSync == ASSUME Inv, Sync, NEW b \in limbo, Settle(b)
                    PROVE  Sync'
<1> USE DEF Inv
<1>1. /\ ~panicked /\ limbo' \subseteq limbo /\ b \in Batches
      /\ UNCHANGED <<committedRevision, ring, collector, writer, retryQueue, retrier, view>>
  BY Zenon DEF Settle, TypeOK, ringVars, retryVars
<1>2. \A e \in Events : (OnTheWay(e)' <=> OnTheWay(e)) /\ (InQueue(e)' <=> InQueue(e))
  BY Zenon, <1>1 DEF OnTheWay, InQueue, EventOf
<1>3. CASE UNCHANGED objects
  <2>1. Told'
    BY Zenon, <1>1, <1>2, <1>3, KeepTold DEF Sync
  <2> QED BY Zenon, <1>1, <1>3, <2>1, QuietSync DEF Sync
<1>4. CASE Matches(b) /\ Apply(b)
  <2>1. Unused(b.rev) /\ b.from.rev <= b.rev
    BY Zenon DEF Effective
  <2>2. \A e \in Events : OnTheWay(e) \/ InQueue(e) => Agrees(e)'
    <3> SUFFICES ASSUME NEW e \in Events, Agrees(e)
                 PROVE  Agrees(e)'
      BY Zenon DEF Sync, Told
    <3>1. b.rev = e.revision => b.key = e.key /\ b.val = e.val /\ e.result = "uncertain"
      BY Zenon DEF Agrees
    <3>2. limbo' \subseteq limbo \cup {b}
      BY Zenon, <1>1
    <3> QED BY Zenon, <1>1, <1>4, <2>1, <3>1, <3>2, ApplyAgrees
  <2>3. \A k \in Keys : objects[k] \subseteq objects'[k]
    BY Zenon, <1>1, <1>4, ApplyTypes
  <2>4. \A e \in Events : OnTheWay(e) /\ e.result = "ok" => \E o \in objects'[e.key] : o.rev = e.revision
    BY Zenon, <2>3, EventTypes DEF Sync, Told
  <2>5. Told'
    BY Zenon, <1>2, <2>2, <2>4 DEF Told
  <2>6. /\ b.rev > committedRevision \/ Retried(b.rev)
        /\ collector.step = "commit" => b.rev # collector.event.revision \/ Retried(b.rev)
    BY Zenon, <1>1, LimboWhere
  <2>7. InSync'
    BY Zenon, <1>1, <1>4, <2>1, <2>6, ApplyInSync DEF Sync
  <2>8. Resolved'
    BY Zenon, <1>1, <1>4, <2>1, <2>6, ApplyResolved DEF Sync
  <2>9. Rewritten'
    BY Zenon, <1>1, <2>3, GrowRewritten DEF Sync
  <2> QED BY Zenon, <2>5, <2>7, <2>8, <2>9 DEF Sync
<1> QED BY Zenon, <1>3, <1>4 DEF Settle

\* The collector publishes an event: the client learns of the version, if it is
\* one.
LEMMA PublishSync == ASSUME Inv, Sync, Publish
                     PROVE  Sync'
<1> USE DEF Inv
<1>1. PICK e \in Events : e = collector.event
  BY Zenon, EventTypes DEF Publish, Collecting
<1>2. /\ collector.step = "commit" /\ committedRevision' = e.revision
      /\ collector' = [step |-> "load", event |-> Nil]
      /\ view' = IF e.result = "ok" THEN [view EXCEPT ![e.key] = e.val] ELSE view
      /\ UNCHANGED <<ring, objects, limbo, writer, retryQueue, retrier>>
  BY Zenon, <1>1 DEF Publish, TSOCommit, storeVars, retryVars
<1>3. collector'.step = "load" /\ collector'.step # "commit"
  BY <1>2
<1>4. \A x \in Events : (OnTheWay(x)' => OnTheWay(x)) /\ (InQueue(x)' => InQueue(x))
  BY Zenon, <1>2, <1>3 DEF OnTheWay, InQueue, EventOf
<1>5. Told'
  BY Zenon, <1>2, <1>4, KeepTold DEF Sync
<1>6. Resolved'
  BY Zenon, <1>3 DEF Resolved
<1>7. Rewritten'
  BY Zenon, <1>2 DEF Rewritten, Sync
<1>8. \A r : Retried(r)' <=> Retried(r)
  BY Zenon, <1>2 DEF Retried
<1>9. PICK r \in Nat : r = e.revision /\ r = committedRevision + 1
  BY Zenon, <1>1, <1>2, EventTypes DEF Collecting
<1>10. OnTheWay(e) /\ Agrees(e) /\ e.key \in Keys
  BY Zenon, <1>1, <1>2, EventTypes DEF OnTheWay, Sync, Told
<1>11. InSync'
  <2> SUFFICES ASSUME NEW k \in Keys
               PROVE  /\ objects[k] = {} => view'[k] = Tombstone
                      /\ \A o \in objects[k] :
                           Newest(k, o) /\ o.rev <= r /\ ~Retried(o.rev) => view'[k] = o.val
    BY Zenon, <1>2, <1>8, <1>9 DEF InSync, Newest
  <2>1. \A o \in objects[k] : o.rev <= r => o.rev <= committedRevision \/ o.rev = r
    <3>1. committedRevision \in Nat /\ \A o \in objects[k] : o.rev \in Nat
      BY Zenon, StoreTypes DEF TypeOK
    <3> QED BY <1>9, <3>1
  <2>2. CASE k # e.key
    <3>1. view'[k] = view[k]
      BY Zenon, <1>2, <2>2 DEF TypeOK
    <3>2. \A o \in objects[k] : o.rev # r
      BY Zenon, <1>9, <1>10, <2>2 DEF Agrees
    <3> QED BY Zenon, <2>1, <3>1, <3>2 DEF InSync, Sync
  <2>3. CASE k = e.key /\ e.result = "ok"
    <3>1. view'[k] = e.val
      BY Zenon, <1>2, <1>10, <2>3 DEF TypeOK
    <3>2. PICK p \in objects[k] : p.rev = r
      BY Zenon, <1>9, <1>10, <2>3 DEF Sync, Told
    <3>3. \A o \in objects[k] : Newest(k, o) /\ o.rev <= r => o.rev = r
      BY <1>9, <3>2, StoreTypes DEF Newest
    <3>4. \A o \in objects[k] : o.rev = r => o.val = e.val
      BY Zenon, <1>9, <1>10 DEF Agrees
    <3> QED BY Zenon, <3>1, <3>2, <3>3, <3>4
  <2>4. CASE k = e.key /\ e.result # "ok"
    <3>1. view' = view
      BY Zenon, <1>2, <2>4
    <3>2. \A o \in objects[k] : Newest(k, o) /\ ~Retried(o.rev) => o.rev # r
      <4>1. CASE e.result = "failed"
        BY Zenon, <1>9, <1>10, <4>1 DEF Agrees
      <4>2. CASE e.result = "uncertain"
        BY Zenon, <1>1, <1>2, <1>9, <2>4, <4>2 DEF Sync, Resolved
      <4>3. e.result \in {"ok", "failed", "uncertain"}
        BY Zenon, EventTypes DEF Results
      <4> QED BY Zenon, <2>4, <4>1, <4>2, <4>3
    <3> QED BY Zenon, <2>1, <3>1, <3>2 DEF InSync, Sync
  <2> QED BY Zenon, <2>2, <2>3, <2>4
<1> QED BY Zenon, <1>5, <1>6, <1>7, <1>11 DEF Sync

\* The client lists at the committed revision.
LEMMA ListSync == ASSUME Inv, Sync, List
                  PROVE  Sync'
<1> USE DEF Inv
<1>1. UNCHANGED <<committedRevision, ring, collector, objects, limbo, writer, retryQueue, retrier>>
  BY Zenon DEF List, ringVars, storeVars, retryVars
<1>2. \A x \in Events : (OnTheWay(x)' => OnTheWay(x)) /\ (InQueue(x)' => InQueue(x))
  BY Zenon, <1>1 DEF OnTheWay, InQueue, EventOf
<1>3. Told'
  BY Zenon, <1>1, <1>2, KeepTold DEF Sync
<1>4. \A r : Retried(r)' <=> Retried(r)
  BY Zenon, <1>1 DEF Retried
<1>5. Resolved' /\ Rewritten'
  BY Zenon, <1>1, <1>4 DEF Resolved, Rewritten, Newest, Sync
<1>6. InSync'
  <2> SUFFICES ASSUME NEW k \in Keys
               PROVE  /\ objects[k] = {} => view'[k] = Tombstone
                      /\ \A o \in objects[k] : Newest(k, o) /\ o.rev <= committedRevision =>
                           view'[k] = o.val
    BY Zenon, <1>1 DEF InSync, Newest
  <2>1. view'[k] = LatestAt(k, committedRevision).val /\ committedRevision \in Nat
    BY Zenon DEF List, ViewAt, TypeOK
  <2>2. objects[k] = {} => LatestAt(k, committedRevision) = NoVersion
    BY Zenon, LatestAtNone
  <2>3. NoVersion.val = Tombstone
    BY DEF NoVersion
  <2>4. \A o \in objects[k] : Newest(k, o) /\ o.rev <= committedRevision =>
          NewestAt(k, committedRevision, o)
    BY Zenon DEF Newest, NewestAt
  <2> QED BY Zenon, <2>1, <2>2, <2>3, <2>4, LatestAtIs
<1> QED BY Zenon, <1>3, <1>5, <1>6 DEF Sync

\* The collector takes an event out of the ring.
LEMMA TakeSync == ASSUME Inv, Sync, Take
                  PROVE  Sync'
<1> USE DEF Inv
<1>1. /\ collector.step = "load" /\ committedRevision \in Nat
      /\ UNCHANGED <<committedRevision, objects, limbo, writer, retrier, view>>
  BY Zenon DEF Take, storeVars, TypeOK
<1>2. PICK s \in Slots : s = Slot(committedRevision + 1)
  BY <1>1, SlotInSlots
<1>3. PICK e \in Events : e = ring[s]
  BY Zenon, <1>2, EventTypes DEF Take
<1>4. /\ ring[s] # Nil /\ e = ring[s]
      /\ ring' = [ring EXCEPT ![Slot(e.revision)] = Nil]
      /\ collector' = [step |-> "commit", event |-> e]
      /\ retryQueue' = IF e.result = "uncertain" THEN Append(retryQueue, e) ELSE retryQueue
  BY Zenon, <1>2, <1>3 DEF Take
<1>5. collector'.step = "commit" /\ collector'.event = e
  BY <1>4
<1>6. \A t \in Slots : ring'[t] # Nil => ring'[t] = ring[t]
  BY Zenon, <1>4 DEF TypeOK
<1>7. /\ \A x : InQueue(x)' => InQueue(x) \/ x = e
      /\ \A r : Retried(r) => Retried(r)'
      /\ e.result = "uncertain" => Retried(e.revision)'
      /\ retryQueue # <<>> => Head(retryQueue') = Head(retryQueue)
  <2>1. PICK q \in Seq(Events) : q = retryQueue
    BY Zenon DEF TypeOK
  <2>2. CASE e.result = "uncertain"
    <3>1. retryQueue' = Append(q, e)
      BY Zenon, <1>4, <2>1, <2>2
    <3>2. /\ DOMAIN Append(q, e) = 1 .. (Len(q) + 1) /\ DOMAIN q = 1 .. Len(q)
          /\ \A i \in 1 .. Len(q) : i \in 1 .. (Len(q) + 1) /\ Append(q, e)[i] = q[i]
          /\ Append(q, e)[Len(q) + 1] = e /\ Len(q) + 1 \in 1 .. (Len(q) + 1)
          /\ \A i \in 1 .. (Len(q) + 1) : i = Len(q) + 1 \/ i \in 1 .. Len(q)
          /\ q # <<>> => Head(Append(q, e)) = Head(q)
      OBVIOUS
    <3> QED BY Zenon, <2>1, <3>1, <3>2 DEF InQueue, Retried
  <2>3. CASE e.result # "uncertain"
    BY Zenon, <1>4, <2>3 DEF InQueue, Retried
  <2> QED BY Zenon, <2>2, <2>3
<1>8. OnTheWay(e)
  BY Zenon, <1>4 DEF OnTheWay
<1>9. retrier.step \in {"commit", "dispatch", "pop"} => retryQueue # <<>>
  <2>1. retrier.step \in {"commit", "dispatch", "pop"} => retrier # Idle
    BY DEF Idle
  <2> QED BY Zenon, <2>1 DEF Retrying
<1>10. \A x \in Events : OnTheWay(x)' => OnTheWay(x)
  <2> SUFFICES ASSUME NEW x \in Events, OnTheWay(x)', ~OnTheWay(x)
               PROVE  FALSE
    BY Zenon
  <2>1. ~(\E t \in Slots : ring'[t] # Nil /\ x = ring'[t])
    BY Zenon, <1>6 DEF OnTheWay
  <2>2. ~(collector'.step = "commit" /\ x = collector'.event)
    BY Zenon, <1>5, <1>8
  <2>3. ~(\E v \in Writers : writer'[v].step = "notify" /\ x = EventOf(writer'[v].batch, writer'[v].result))
    BY Zenon, <1>1 DEF OnTheWay
  <2>4. ~(/\ retrier'.step = "dispatch"
          /\ x = [revision |-> retrier'.rev, result |-> retrier'.result,
                  key |-> Head(retryQueue').key, val |-> Head(retryQueue').val])
    BY Zenon, <1>1, <1>7, <1>9 DEF OnTheWay
  <2> QED BY Zenon, <2>1, <2>2, <2>3, <2>4 DEF OnTheWay, EventOf
<1>11. Told'
  BY Zenon, <1>1, <1>7, <1>8, <1>10, KeepTold DEF Sync
<1>12. Resolved'
  BY Zenon, <1>5, <1>7 DEF Resolved
<1>13. Rewritten'
  BY Zenon, <1>1, <1>7, <1>9 DEF Rewritten, Sync
<1>14. InSync'
  BY Zenon, <1>1, <1>7 DEF InSync, Newest, Sync
<1> QED BY Zenon, <1>11, <1>12, <1>13, <1>14 DEF Sync

\* The head of the retry queue.
LEMMA HeadOfQueue ==
  ASSUME TypeOK, retryQueue # <<>>
  PROVE  /\ Head(retryQueue) \in Events /\ Head(retryQueue).key \in Keys
         /\ 1 \in DOMAIN retryQueue /\ retryQueue[1] = Head(retryQueue)
         /\ InQueue(Head(retryQueue)) /\ Retried(Head(retryQueue).revision)
<1>1. 1 \in DOMAIN retryQueue /\ retryQueue[1] = Head(retryQueue) /\ Head(retryQueue) \in Events
  BY DEF TypeOK
<1> QED BY Zenon, <1>1, EventTypes DEF InQueue, Retried

\* The head is popped when its version is not the newest of its key.
LEMMA PopSync ==
  ASSUME Inv, Sync, retryQueue # <<>>, retryQueue' = Tail(retryQueue), retrier' = Idle,
         \A o \in objects[Head(retryQueue).key] :
           Newest(Head(retryQueue).key, o) => o.rev # Head(retryQueue).revision,
         UNCHANGED <<committedRevision, ring, collector, objects, limbo, writer, view>>
  PROVE  Sync'
<1> USE DEF Inv
<1>1. PICK u \in Events : u = Head(retryQueue)
  BY Zenon, HeadOfQueue
<1>2. u.key \in Keys /\ Agrees(u)
  BY Zenon, <1>1, HeadOfQueue DEF Sync, Told
<1>3. /\ \A x : InQueue(x)' => InQueue(x)
      /\ \A r : Retried(r) => Retried(r)' \/ r = u.revision
  <2>1. PICK q \in Seq(Events) : q = retryQueue
    BY Zenon DEF TypeOK
  <2>2. /\ DOMAIN q = 1 .. Len(q) /\ DOMAIN Tail(q) = 1 .. (Len(q) - 1)
        /\ \A i \in 1 .. (Len(q) - 1) : i + 1 \in 1 .. Len(q) /\ Tail(q)[i] = q[i + 1]
        /\ \A i \in 1 .. Len(q) : i = 1 \/ (i - 1 \in 1 .. (Len(q) - 1) /\ Tail(q)[i - 1] = q[i])
        /\ q[1] = Head(q)
    BY <2>1
  <2>3. ASSUME NEW x, InQueue(x)'
        PROVE  InQueue(x)
    <3>1. PICK i \in 1 .. (Len(q) - 1) : Tail(q)[i] = x
      BY Zenon, <2>1, <2>2, <2>3 DEF InQueue
    <3>2. i + 1 \in DOMAIN retryQueue /\ retryQueue[i + 1] = x
      BY Zenon, <2>1, <2>2, <3>1
    <3> QED BY Zenon, <3>2 DEF InQueue
  <2>4. ASSUME NEW r, Retried(r), r # u.revision
        PROVE  Retried(r)'
    <3>1. PICK i \in 1 .. Len(q) : q[i].revision = r
      BY Zenon, <2>1, <2>2, <2>4 DEF Retried
    <3>2. i # 1
      BY Zenon, <1>1, <2>1, <2>2, <2>4, <3>1
    <3>3. PICK j \in 1 .. (Len(q) - 1) : Tail(q)[j] = q[i]
      BY Zenon, <2>2, <3>2
    <3> QED BY Zenon, <2>1, <2>2, <3>1, <3>3 DEF Retried
  <2> QED BY Zenon, <2>3, <2>4
<1>4. retrier'.step = "idle"
  BY DEF Idle
<1>5. \A k \in Keys : \A o \in objects[k] : Newest(k, o) => o.rev # u.revision
  BY Zenon, <1>1, <1>2 DEF Agrees
<1>6. \A x \in Events : OnTheWay(x)' => OnTheWay(x)
  <2>1. retrier'.step # "dispatch"
    BY <1>4
  <2> QED BY Zenon, <2>1 DEF OnTheWay, EventOf
<1>7. Told'
  BY Zenon, <1>3, <1>6, KeepTold DEF Sync
<1>8. Resolved'
  <2>1. collector.step = "commit" => collector.event.key \in Keys
    BY Zenon, EventTypes DEF Collecting
  <2> QED BY Zenon, <1>3, <1>5, <2>1 DEF Resolved, Newest, Sync
<1>9. Rewritten'
  BY <1>4 DEF Rewritten
<1>10. InSync'
  BY Zenon, <1>3, <1>5 DEF InSync, Newest, Sync
<1> QED BY Zenon, <1>7, <1>8, <1>9, <1>10 DEF Sync

\* The retry loop is done with the head.
LEMMA RetryPopSync == ASSUME Inv, Sync, RetryPop
                      PROVE  Sync'
<1> USE DEF Inv
<1>1. retrier.step = "pop" /\ retryQueue # <<>>
  BY DEF RetryPop, Retrying, Idle
<1>2. PICK u \in Events : u = Head(retryQueue) /\ u.key \in Keys /\ u.revision \in Nat
  BY Zenon, <1>1, HeadOfQueue, EventTypes
<1>3. PICK p \in objects[u.key] : p.rev > u.revision
  BY Zenon, <1>1, <1>2 DEF Sync, Rewritten
<1>4. \A o \in objects[u.key] : Newest(u.key, o) => o.rev # u.revision
  <2>1. p.rev \in Nat /\ \A o \in objects[u.key] : o.rev \in Nat
    BY Zenon, <1>2, StoreTypes
  <2> QED BY <1>2, <1>3, <2>1 DEF Newest
<1> QED BY Zenon, <1>1, <1>2, <1>4, PopSync DEF RetryPop, ringVars, storeVars

\* The retry loop reads the head: it is popped, or its value is taken.
LEMMA RetryReadSync == ASSUME Inv, Sync, RetryRead
                       PROVE  Sync'
<1> USE DEF Inv
<1>1. retrier = Idle /\ retryQueue # <<>>
  BY Zenon, RetrierTypes DEF RetryRead
<1>2. PICK u \in Events : u = Head(retryQueue) /\ u.key \in Keys /\ u.revision # 0
  BY Zenon, <1>1, HeadOfQueue, EventTypes
<1>3. UNCHANGED <<committedRevision, ring, collector, objects, limbo, writer, view>>
  BY Zenon DEF RetryRead, storeVars
<1>4. CASE Latest(u.key).rev # u.revision
  <2>1. retryQueue' = Tail(retryQueue) /\ retrier' = Idle
    BY Zenon, <1>1, <1>2, <1>4 DEF RetryRead
  <2>2. \A o \in objects[u.key] : Newest(u.key, o) => o.rev # u.revision
    BY Zenon, <1>2, <1>4, NewestIsLatest
  <2> QED BY Zenon, <1>1, <1>2, <1>3, <2>1, <2>2, PopSync
<1>5. CASE Latest(u.key).rev = u.revision
  <2>1. /\ retrier' = [step |-> "commit", rev |-> dealRevision', val |-> Latest(u.key).val]
        /\ UNCHANGED retryQueue
    BY Zenon, <1>2, <1>5 DEF RetryRead
  <2>2. retrier'.step = "commit" /\ retrier'.val = Latest(u.key).val
    BY <2>1
  <2>3. objects[u.key] # {}
    <3>1. NoVersion.rev = 0
      BY DEF NoVersion
    <3> QED BY Zenon, <1>2, <1>5, <3>1, NewestIsLatest
  <2>4. PICK o \in objects[u.key] : o = Latest(u.key)
    BY Zenon, <1>2, <2>3, NewestIsLatest
  <2>5. Agrees(u)
    BY Zenon, <1>1, <1>2, HeadOfQueue DEF Sync, Told
  <2>6. o.rev = u.revision /\ o.val = u.val
    BY Zenon, <1>2, <1>5, <2>4, <2>5 DEF Agrees
  <2>7. Rewritten'
    <3>1. ~(retrier'.step \in {"dispatch", "pop"})
      BY <2>2
    <3> QED BY Zenon, <1>2, <1>3, <2>1, <2>2, <2>4, <2>6, <3>1 DEF Rewritten
  <2>8. \A x \in Events : (OnTheWay(x)' => OnTheWay(x)) /\ (InQueue(x)' => InQueue(x))
    <3>1. retrier'.step # "dispatch"
      BY <2>2
    <3> QED BY Zenon, <1>3, <2>1, <3>1 DEF OnTheWay, InQueue, EventOf
  <2>9. Told'
    BY Zenon, <1>3, <2>8, KeepTold DEF Sync
  <2>10. \A r : Retried(r)' <=> Retried(r)
    BY Zenon, <2>1 DEF Retried
  <2>11. Resolved' /\ InSync'
    BY Zenon, <1>3, <2>10 DEF Resolved, InSync, Newest, Sync
  <2> QED BY Zenon, <2>7, <2>9, <2>11 DEF Sync
<1> QED BY Zenon, <1>4, <1>5

\* The retry loop hands in its result.
LEMMA RetryDispatchSync == ASSUME Inv, Sync, RetryDispatch
                           PROVE  Sync'
<1> USE DEF Inv
<1>1. /\ retrier.step = "dispatch" /\ retrier' = [step |-> "pop"]
      /\ UNCHANGED <<committedRevision, collector, objects, limbo, writer, retryQueue, view>>
  BY Zenon DEF RetryDispatch, storeVars
<1>2. PICK e, u : /\ u = Head(retryQueue)
                  /\ e = [revision |-> retrier.rev, result |-> retrier.result,
                          key |-> u.key, val |-> u.val]
  BY Zenon
<1>3. HandIn(u.key, retrier.rev, u.val, retrier.result)
  BY Zenon, <1>2 DEF RetryDispatch
<1>4. ring' = ring \/ ring' = [ring EXCEPT ![Slot(e.revision)] = e]
  BY Zenon, <1>2, <1>3 DEF HandIn, StoreEvent
<1>5. \A s \in Slots : ring'[s] = ring[s] \/ ring'[s] = e
  BY Zenon, <1>4 DEF TypeOK
<1>6. OnTheWay(e)
  BY Zenon, <1>1, <1>2 DEF OnTheWay
<1>7. retrier'.step = "pop"
  BY <1>1
<1>8. \A x \in Events : OnTheWay(x)' => OnTheWay(x)
  <2>1. retrier'.step # "dispatch"
    BY <1>7
  <2> SUFFICES ASSUME NEW x \in Events, OnTheWay(x)', ~OnTheWay(x)
               PROVE  FALSE
    BY Zenon
  <2>2. ~(\E s \in Slots : ring'[s] # Nil /\ x = ring'[s])
    BY Zenon, <1>5, <1>6 DEF OnTheWay
  <2> QED BY Zenon, <1>1, <2>1, <2>2 DEF OnTheWay, EventOf
<1>9. \A x \in Events : InQueue(x)' => InQueue(x)
  BY Zenon, <1>1 DEF InQueue
<1>10. Told'
  BY Zenon, <1>1, <1>8, <1>9, KeepTold DEF Sync
<1>11. \A r : Retried(r)' <=> Retried(r)
  BY Zenon, <1>1 DEF Retried
<1>12. Resolved' /\ InSync'
  BY Zenon, <1>1, <1>11 DEF Resolved, InSync, Newest, Sync
<1>13. Rewritten'
  <2>1. retrier'.step # "commit"
    BY <1>7
  <2> QED BY Zenon, <1>1, <2>1 DEF Rewritten, Sync
<1> QED BY Zenon, <1>10, <1>12, <1>13 DEF Sync

\* The retry loop commits: a newer version is there afterwards, its own or the
\* one that made the comparison fail.
LEMMA RetryCommitSync ==
  ASSUME Inv, Sync, RetryCommit, RewriteFaults \subseteq {"applied"}
  PROVE  Sync'
<1> USE DEF Inv
<1>1. ~panicked /\ retrier.step = "commit" /\ retrier # Idle
  BY DEF RetryCommit, Idle
<1>2. UNCHANGED <<committedRevision, ring, collector, writer, retryQueue, view>>
  BY Zenon DEF RetryCommit, ringVars
<1>3. PICK rev \in Revisions : rev = retrier.rev
  BY Zenon, <1>1, RetrierTypes
<1>4. PICK val \in Values : val = retrier.val
  BY Zenon, <1>1, RetrierTypes
<1>5. retryQueue # <<>>
  BY Zenon, <1>1 DEF Retrying
<1>6. PICK u \in Events : u = Head(retryQueue)
  BY Zenon, <1>5, HeadOfQueue
<1>7. Unpublished(rev) /\ Unused(rev) /\ rev \in Nat
  BY Zenon, <1>1, <1>3, RewriteApart
<1>8. u.revision < rev /\ u.revision \in Nat /\ u.key \in Keys
  <2>1. 1 \in DOMAIN retryQueue /\ u = retryQueue[1]
    BY Zenon, <1>5, <1>6, HeadOfQueue
  <2> QED BY Zenon, <1>7, <2>1, QueueApart, EventTypes
<1>9. PICK from : from = [rev |-> u.revision, del |-> val = Tombstone]
  BY Zenon
<1>10. PICK b : b = Batch(u.key, from, rev, val)
  BY Zenon
<1>11. /\ b \in Batches /\ b.key = u.key /\ b.from = from /\ b.rev = rev /\ b.val = val
       /\ b.from.rev = u.revision /\ b.from.rev <= b.rev
  <2>1. PICK n \in Nat : n = u.revision
    BY Zenon, <1>8
  <2>2. n < rev /\ u.key \in Keys
    BY Zenon, <1>8, <2>1
  <2>3. from = [rev |-> n, del |-> val = Tombstone]
    BY Zenon, <1>9, <2>1
  <2>4. b = Batch(u.key, [rev |-> n, del |-> val = Tombstone], rev, val)
    BY Zenon, <1>10, <2>3
  <2>5. RewriteOf(Batch(u.key, [rev |-> n, del |-> val = Tombstone], rev, val),
              u.key, n, rev, val)
    BY Zenon, <1>3, <1>4, <2>1, <2>2, RewriteBatch
  <2>6. RewriteOf(b, u.key, n, rev, val)
    BY Zenon, <2>4, <2>5
  <2>7. b.from.rev <= b.rev
    BY Zenon, <2>6 DEF RewriteOf
  <2> QED BY Zenon, <2>1, <2>3, <2>6, <2>7 DEF RewriteOf
<1>12. from.rev = u.revision /\ b.from.rev <= b.rev
  BY Zenon, <1>11
<1>13. PICK res \in Results : /\ Commit(b, RewriteFaults, res)
                              /\ retrier' = [step |-> "dispatch", rev |-> rev, result |-> res]
  BY Zenon, <1>3, <1>4, <1>6, <1>9, <1>10 DEF RetryCommit, Commit, Matches, Apply
<1>14. retrier'.step = "dispatch" /\ retrier'.rev = rev /\ retrier'.result = res
  BY <1>13
<1>15. val = u.val /\ \E o \in objects[u.key] : o.rev = u.revision
  BY Zenon, <1>1, <1>4, <1>6 DEF Sync, Rewritten
<1>16. \A e \in Events : OnTheWay(e) \/ InQueue(e) => e.revision # b.rev
  BY Zenon, <1>1, <1>3, <1>11, CarriedApart
<1>17. \A e \in Events : InQueue(e)' => InQueue(e)
  BY Zenon, <1>2 DEF InQueue
<1>18. \A e \in Events : OnTheWay(e)' => OnTheWay(e) \/ e = EventOf(b, res)
  <2> SUFFICES ASSUME NEW e \in Events, OnTheWay(e)', ~OnTheWay(e)
               PROVE  e = EventOf(b, res)
    BY Zenon
  <2>1. e = [revision |-> retrier'.rev, result |-> retrier'.result,
             key |-> Head(retryQueue').key, val |-> Head(retryQueue').val]
    BY Zenon, <1>2 DEF OnTheWay, EventOf
  <2> QED BY Zenon, <1>2, <1>6, <1>11, <1>14, <1>15, <2>1 DEF EventOf
<1>19. \A a \in limbo : a.rev # b.rev
  BY Zenon, <1>1, <1>3, <1>11, LimboApart
<1>20. Told'
  BY Zenon, <1>7, <1>11, <1>13, <1>16, <1>17, <1>18, <1>19, CommitTold DEF Sync
<1>21. Resolved' /\ InSync' /\ \A k \in Keys : objects[k] \subseteq objects'[k]
  BY Zenon, <1>2, <1>7, <1>11, <1>12, <1>13, CommitSync
<1>22. \E p \in objects'[u.key] : p.rev > u.revision
  <2>1. CASE Apply(b)
    <3>1. PICK v : v = [rev |-> b.rev, val |-> b.val]
      BY Zenon
    <3>2. v \in objects'[u.key]
      BY Zenon, <1>11, <2>1, <3>1, ApplyTypes
    <3>3. v.rev > u.revision
      BY <1>7, <1>8, <1>11, <3>1
    <3> QED BY Zenon, <3>2, <3>3
  <2>2. CASE ~Matches(b)
    <3>1. PICK o \in objects[u.key] : Newest(u.key, o) /\ index[u.key] = EntryOf(o)
      BY Zenon, <1>8, <1>15, NewestIsLatest
    <3>2. o.rev # u.revision
      <4> SUFFICES ASSUME o.rev = u.revision
                   PROVE  FALSE
        BY Zenon
      <4>1. Agrees(u)
        BY Zenon, <1>5, <1>6, HeadOfQueue DEF Sync, Told
      <4>2. o.val = val
        BY Zenon, <1>8, <1>15, <4>1 DEF Agrees
      <4>3. EntryOf(o) = from
        BY Zenon, <1>9, <4>2 DEF EntryOf
      <4> QED BY Zenon, <1>11, <2>2, <3>1, <4>3 DEF Matches
    <3>3. PICK q \in objects[u.key] : q.rev = u.revision
      BY Zenon, <1>15
    <3>4. q.rev < o.rev
      BY Zenon, <3>1, <3>2, <3>3 DEF Newest
    <3>5. o.rev > u.revision /\ o \in objects'[u.key]
      <4>1. o.rev \in Nat
        BY Zenon, <1>8, StoreTypes
      <4>2. o \in objects'[u.key]
        BY Zenon, <1>8, <1>21
      <4> QED BY <1>8, <3>3, <3>4, <4>1, <4>2
    <3> QED BY Zenon, <3>5
  <2>3. "limbo" \notin RewriteFaults /\ "error" \notin RewriteFaults
    OBVIOUS
  <2> QED BY Zenon, <1>13, <2>1, <2>2, <2>3 DEF Commit
<1>23. Rewritten'
  <2>1. retrier'.step # "commit"
    BY <1>14
  <2> QED BY Zenon, <1>2, <1>6, <1>14, <1>22, <2>1 DEF Rewritten
<1> QED BY Zenon, <1>20, <1>21, <1>23 DEF Sync

\* Compact chooses its revision.
LEMMA CompactorSync ==
  ASSUME Sync, UNCHANGED <<ringVars, storeVars, writer, retryVars, view>>
  PROVE  Sync'
<1>1. UNCHANGED <<committedRevision, ring, collector, objects, limbo, writer, retryQueue, retrier, view>>
  BY Zenon DEF ringVars, storeVars, retryVars
<1>2. \A x \in Events : (OnTheWay(x)' => OnTheWay(x)) /\ (InQueue(x)' => InQueue(x))
  BY Zenon, <1>1 DEF OnTheWay, InQueue, EventOf
<1>3. Told'
  BY Zenon, <1>1, <1>2, KeepTold DEF Sync
<1> QED BY Zenon, <1>1, <1>3, QuietSync DEF Sync

\* A compaction that scans is in progress.
LEMMA ScanStep == ASSUME CompactScan
                  PROVE  compactor.step = "scan" /\ compactor # Idle
<1>1. compactor.step = "scan"
  BY Zenon DEF CompactScan
<1>2. Idle.step # "scan"
  BY Zenon DEF Idle
<1> QED BY Zenon, <1>1, <1>2

\* The newest version a compaction leaves was the newest before, and one above
\* its revision stays.
LEMMA ScanNewest ==
  ASSUME Inv, CompactScan, NEW k \in Keys
  PROVE  /\ objects'[k] \subseteq objects[k]
         /\ \A o \in objects[k] : o.rev > compactor.rev => o \in objects'[k]
         /\ \A o \in objects'[k] : Newest(k, o)' => Newest(k, o)
<1> USE DEF Inv
<1>1. PICK r \in Nat : r = compactor.rev
  BY Zenon, KeptIs
<1>2. objects'[k] = {o \in objects[k] : \/ o.rev > r
                                       \/ (o = LatestAt(k, r) /\ o.val # Tombstone)}
  BY Zenon, <1>1, KeptIs
<1>3. objects'[k] \subseteq objects[k] /\ \A o \in objects[k] : o.rev > r => o \in objects'[k]
  BY Zenon, <1>2
<1>4. ASSUME NEW o \in objects'[k], Newest(k, o)', NEW p \in objects[k], p # o
      PROVE  p.rev < o.rev
  <2>1. o \in objects[k] /\ o.rev \in Nat /\ p.rev \in Nat
    BY Zenon, <1>3, StoreTypes
  <2>2. CASE p.rev > r
    BY Zenon, <1>3, <1>4, <2>2 DEF Newest
  <2>3. CASE ~(p.rev > r) /\ o.rev > r
    BY <2>1, <2>3
  <2>4. CASE ~(p.rev > r) /\ ~(o.rev > r)
    <3>1. p.rev <= r /\ o.rev <= r
      BY Zenon, <2>1, <2>4, NumberOrder
    <3>2. o = LatestAt(k, r)
      BY Zenon, <1>2, <2>4
    <3>3. NewestAt(k, r, o)
      BY Zenon, <2>1, <3>1, <3>2, LatestAtCases
    <3> QED BY Zenon, <1>4, <3>1, <3>3 DEF NewestAt
  <2> QED BY Zenon, <2>2, <2>3, <2>4
<1>5. \A o \in objects'[k] : Newest(k, o)' => Newest(k, o)
  BY Zenon, <1>3, <1>4 DEF Newest
<1> QED BY Zenon, <1>1, <1>3, <1>5

\* Compaction removes the newest version of a key only when it is a tombstone the
\* client knows of.
LEMMA CompactScanSync == ASSUME Inv, Sync, CompactScan
                         PROVE  Sync'
<1> USE DEF Inv
<1>1. UNCHANGED <<committedRevision, ring, collector, limbo, writer, retryQueue, retrier, view>>
  BY Zenon DEF CompactScan, ringVars, retryVars
<1>2. PICK r \in Nat : r = compactor.rev
  <2>1. compactor # Idle
    BY Zenon, ScanStep
  <2>2. compactor \in [step : {"bound", "scan"}, rev : Nat]
    BY Zenon, <2>1 DEF TypeOK
  <2> QED BY Zenon, <2>2
<1>3. /\ r <= committedRevision /\ committedRevision \in Nat
      /\ \A i \in DOMAIN retryQueue : r < retryQueue[i].revision
  <2>1. compactor # Idle /\ compactor.step = "scan"
    BY Zenon, ScanStep
  <2> QED BY Zenon, <1>2, <2>1 DEF Compacting, CompactBelowUncertain, TypeOK
<1>4. /\ \A k \in Keys : objects'[k] \subseteq objects[k]
      /\ \A k \in Keys : \A o \in objects[k] : o.rev > r => o \in objects'[k]
      /\ \A k \in Keys : \A o \in objects'[k] : Newest(k, o)' => Newest(k, o)
  BY Zenon, <1>2, ScanNewest
<1>5. \A x \in Events : (OnTheWay(x)' <=> OnTheWay(x)) /\ (InQueue(x)' <=> InQueue(x))
  BY Zenon, <1>1 DEF OnTheWay, InQueue, EventOf
<1>6. Told'
  <2>1. \A e \in Events : Agrees(e) => Agrees(e)'
    BY Zenon, <1>1, <1>4 DEF Agrees
  <2>2. \A e \in Events : OnTheWay(e) => e.revision > r /\ e.key \in Keys
    <3>1. \A e \in Events : e.revision \in Nat /\ e.key \in Keys
      BY Zenon, EventTypes
    <3>2. \A e \in Events : OnTheWay(e) => e.revision > committedRevision
      BY Zenon, CarriedApart
    <3> QED BY <1>3, <3>1, <3>2
  <2>3. \A e \in Events : OnTheWay(e) /\ e.result = "ok" => \E o \in objects'[e.key] : o.rev = e.revision
    <3> SUFFICES ASSUME NEW e \in Events, OnTheWay(e), e.result = "ok"
                 PROVE  \E o \in objects'[e.key] : o.rev = e.revision
      BY Zenon
    <3>1. PICK o \in objects[e.key] : o.rev = e.revision
      BY Zenon DEF Sync, Told
    <3>2. o \in objects'[e.key]
      BY Zenon, <1>4, <2>2, <3>1
    <3> QED BY Zenon, <3>1, <3>2
  <2> QED BY Zenon, <1>5, <2>1, <2>3 DEF Sync, Told
<1>7. \A t : Retried(t)' <=> Retried(t)
  BY Zenon, <1>1 DEF Retried
<1>8. Resolved'
  <2>1. collector.step = "commit" => collector.event.key \in Keys
    BY Zenon, EventTypes DEF Collecting
  <2> QED BY Zenon, <1>1, <1>4, <1>7, <2>1 DEF Resolved, Sync
<1>9. Rewritten'
  <2>1. retrier.step \in {"commit", "dispatch", "pop"} => retrier # Idle
    BY DEF Idle
  <2>2. CASE retrier # Idle
    <3>1. PICK u \in Events : u = Head(retryQueue) /\ u.key \in Keys /\ u.revision \in Nat
      BY Zenon, <2>2, HeadOfQueue, EventTypes DEF Retrying
    <3>2. r < u.revision
      BY Zenon, <1>3, <2>2, <3>1, HeadOfQueue DEF Retrying
    <3>3. \A o \in objects[u.key] : o.rev = u.revision \/ o.rev > u.revision => o.rev > r
      <4>1. \A o \in objects[u.key] : o.rev \in Nat
        BY Zenon, <3>1, StoreTypes
      <4> QED BY <3>1, <3>2, <4>1
    <3> QED BY Zenon, <1>1, <1>4, <3>1, <3>3 DEF Rewritten, Sync
  <2> QED BY Zenon, <1>1, <2>1, <2>2 DEF Rewritten
<1>10. InSync'
  <2> SUFFICES ASSUME NEW k \in Keys
               PROVE  /\ objects'[k] = {} => view[k] = Tombstone
                      /\ \A o \in objects'[k] :
                           Newest(k, o)' /\ o.rev <= committedRevision /\ ~Retried(o.rev) =>
                             view[k] = o.val
    BY Zenon, <1>1, <1>7 DEF InSync
  <2>1. \A o \in objects'[k] :
          Newest(k, o)' /\ o.rev <= committedRevision /\ ~Retried(o.rev) => view[k] = o.val
    BY Zenon, <1>4 DEF InSync, Sync
  <2>2. ASSUME objects'[k] = {}, objects[k] # {}
        PROVE  view[k] = Tombstone
    <3>1. PICK q \in objects[k] : Newest(k, q)
      BY Zenon, <2>2, NewestIsLatest
    <3>2. q.rev \in Nat /\ ~(q.rev > r)
      BY Zenon, <1>4, <2>2, <3>1, StoreTypes
    <3>3. q.rev <= r /\ q.rev <= committedRevision
      BY <1>3, <3>2
    <3>4. NewestAt(k, r, q)
      BY Zenon, <3>1, <3>3 DEF Newest, NewestAt
    <3>5. q = LatestAt(k, r)
      BY Zenon, <3>4, LatestAtIs
    <3>6. q.val = Tombstone
      BY Zenon, <1>2, <2>2, <3>5, KeptIs
    <3>7. ~Retried(q.rev)
      <4> SUFFICES ASSUME NEW i \in DOMAIN retryQueue, retryQueue[i].revision = q.rev
                   PROVE  FALSE
        BY Zenon DEF Retried
      <4>1. r < q.rev
        BY Zenon, <1>3
      <4> QED BY <3>2, <4>1
    <3> QED BY Zenon, <3>1, <3>3, <3>6, <3>7 DEF InSync, Sync
  <2>3. objects[k] = {} => view[k] = Tombstone
    BY Zenon DEF InSync, Sync
  <2> QED BY Zenon, <2>1, <2>2, <2>3
<1> QED BY Zenon, <1>6, <1>8, <1>9, <1>10 DEF Sync

\* A leader that starts: nothing is on the way, and the client has listed.
LEMMA InitSync == ASSUME Init
                  PROVE  Sync
<1>1. PICK there \in SUBSET Keys, alive \in SUBSET Keys :
        LET val(k) == IF k \in alive THEN StartRevision ELSE Tombstone IN
        /\ alive \subseteq there
        /\ objects = [k \in Keys |->
             IF k \in there THEN {[rev |-> StartRevision, val |-> val(k)]} ELSE {}]
        /\ view = [k \in Keys |-> val(k)]
  BY Zenon DEF Init
<1>2. /\ ring = [s \in Slots |-> Nil] /\ collector = [step |-> "load", event |-> Nil]
      /\ writer = [w \in Writers |-> Idle] /\ retryQueue = <<>> /\ retrier = Idle
  BY Zenon DEF Init, RingInit
<1>3. collector.step = "load" /\ retrier.step = "idle" /\ Idle.step = "idle"
  BY <1>2 DEF Idle
<1>4. DOMAIN retryQueue = {}
  BY <1>2
<1>5. \A e : ~OnTheWay(e) /\ ~InQueue(e)
  <2>1. \A w \in Writers : writer[w].step # "notify"
    BY <1>2, <1>3
  <2>2. \A s \in Slots : ring[s] = Nil
    BY Zenon, <1>2
  <2>3. collector.step # "commit" /\ retrier.step # "dispatch"
    BY <1>3
  <2> QED BY Zenon, <1>4, <2>1, <2>2, <2>3 DEF OnTheWay, InQueue
<1>6. Told
  BY Zenon, <1>5 DEF Told
<1>7. Resolved /\ Rewritten
  BY <1>3 DEF Resolved, Rewritten
<1>8. InSync
  <2> SUFFICES ASSUME NEW k \in Keys
               PROVE  /\ objects[k] = {} => view[k] = Tombstone
                      /\ \A o \in objects[k] : view[k] = o.val
    BY Zenon DEF InSync
  <2>1. PICK v : v = IF k \in alive THEN StartRevision ELSE Tombstone
    BY Zenon
  <2>2. PICK p : p = [rev |-> StartRevision, val |-> v]
    BY Zenon
  <2>3. view[k] = v /\ objects[k] = IF k \in there THEN {p} ELSE {}
    BY Zenon, <1>1, <2>1, <2>2
  <2>4. k \notin there => v = Tombstone
    BY Zenon, <1>1, <2>1
  <2>5. p.val = v
    BY <2>2
  <2> QED BY Zenon, <2>3, <2>4, <2>5
<1> QED BY Zenon, <1>6, <1>7, <1>8 DEF Sync

\* Every step keeps the client in sync.
LEMMA NextSync ==
  ASSUME Inv, Sync, [Next]_vars, RewriteFaults \subseteq {"applied"}
  PROVE  Sync'
<1>1. ASSUME NEW w \in Writers, NEW k \in Keys, Create(w, k)
      PROVE  Sync'
  BY Zenon, <1>1, CreateSync
<1>2. ASSUME NEW w \in Writers, NEW k \in Keys, NEW prev, Update(w, k, prev)
      PROVE  Sync'
  BY Zenon, <1>2, UpdateSync
<1>3. ASSUME NEW w \in Writers, NEW k \in Keys, NEW prev, DeleteRead(w, k, prev)
      PROVE  Sync'
  BY Zenon, <1>3, DeleteReadSync
<1>4. ASSUME NEW w \in Writers,
             \/ DeleteDeal(w) \/ PutIfNotExist(w) \/ Lookup(w) \/ CommitWrite(w) \/ Notify(w)
      PROVE  Sync'
  BY Zenon, <1>4, DeleteDealSync, PutIfNotExistSync, LookupSync, CommitWriteSync, NotifySync
<1>5. ASSUME NEW b \in limbo, Settle(b)
      PROVE  Sync'
  BY Zenon, <1>5, SettleSync
<1>6. ASSUME Take \/ Publish \/ RetryRead \/ RetryCommit \/ RetryDispatch \/ RetryPop
      PROVE  Sync'
  BY Zenon, <1>6, TakeSync, PublishSync, RetryReadSync, RetryCommitSync, RetryDispatchSync,
    RetryPopSync
<1>7. ASSUME (\E r \in CompactRequests : CompactRead(r)) \/ CompactBound
      PROVE  Sync'
  BY Zenon, <1>7, CompactorSync DEF CompactRead, CompactBound
<1>8. ASSUME CompactScan \/ List
      PROVE  Sync'
  BY Zenon, <1>8, CompactScanSync, ListSync
<1>9. CASE UNCHANGED vars
  BY Zenon, <1>9, CompactorSync DEF vars
<1> QED BY Zenon, <1>1, <1>2, <1>3, <1>4, <1>5, <1>6, <1>7, <1>8, <1>9 DEF Next

\* What a client in sync knows.
LEMMA SyncView ==
  ASSUME Inv, Sync
  PROVE  ViewInSync
<1> SUFFICES ASSUME NEW k \in Keys, ~Pending(k), Latest(k).rev <= committedRevision
             PROVE  view[k] = Latest(k).val
  BY Zenon DEF ViewInSync
<1>1. TypeOK /\ Indexed
  BY Zenon DEF Inv
<1>2. CASE objects[k] = {}
  <2>1. Latest(k) = NoVersion /\ view[k] = Tombstone
    BY Zenon, <1>1, <1>2, NewestIsLatest DEF Sync, InSync
  <2> QED BY <2>1 DEF NoVersion
<1>3. CASE objects[k] # {}
  <2>1. PICK o \in objects[k] : Newest(k, o) /\ Latest(k) = o
    BY Zenon, <1>1, <1>3, NewestIsLatest
  <2>2. ~Retried(o.rev)
    <3> SUFFICES ASSUME NEW i \in DOMAIN retryQueue, retryQueue[i].revision = o.rev
                 PROVE  FALSE
      BY Zenon DEF Retried
    <3>1. PICK e \in Events : e = retryQueue[i]
      BY Zenon, <1>1, EventTypes
    <3>2. Agrees(e)
      BY Zenon, <3>1 DEF Sync, Told, InQueue
    <3>3. e.key = k
      BY Zenon, <3>1, <3>2 DEF Agrees
    <3> QED BY Zenon, <3>1, <3>3 DEF Pending
  <2> QED BY Zenon, <2>1, <2>2 DEF Sync, InSync
<1> QED BY Zenon, <1>2, <1>3

\* When a rewrite of the retry loop has its effect by the time its commit
\* returns, or is refused because the key has moved on, a client that lists and
\* follows the events never misses a change: whatever uncertain commits of
\* requests surface, and whatever Compact removes.  (With a rewrite that fails
\* or surfaces late it may: the loop pops the head all the same.)
THEOREM ClientStaysInSync ==
  ASSUME RewriteFaults \subseteq {"applied"}
  PROVE  Spec => []ViewInSync
<1>1. Init => Inv /\ Sync
  BY Zenon, InitInv, InitSync
<1>2. Inv /\ Sync /\ [Next]_vars => (Inv /\ Sync)'
  BY Zenon, NextInv, NextSync
<1>3. Inv /\ Sync => ViewInSync
  BY Zenon, SyncView
<1> QED BY <1>1, <1>2, <1>3, PTL DEF Spec
=============================================================================
