---------------------------- MODULE WatchProofs -----------------------------
(***************************************************************************)
(* Proofs about Watch, for every set of watchers and requests, every event *)
(* outside the prefix, and every size of the cache, of a batch and of a    *)
(* watcher's channel: the cache answers right, no watcher that kept up     *)
(* misses an event, and no client gets one twice or out of order.          *)
(***************************************************************************)
EXTENDS Watch, FiniteSetTheorems, WellFoundedInduction, TLAPS

-----------------------------------------------------------------------------
(* The inductive invariant: where the events are between the collector and *)
(* a client.                                                               *)

\* Ascending events; a set of events below another; a queue whose batches, one
\* after the other, are one ascending sequence.
Asc(s) == \A i, j \in DOMAIN s : i < j => s[i] < s[j]
Below(S, T) == \A e \in S, f \in T : e < f
Sorted(q) ==
  /\ \A i \in DOMAIN q : Asc(q[i])
  /\ \A i, j \in DOMAIN q : i < j => Below(Range(q[i]), Range(q[j]))

\* Of the events H, S has all those from some point on.
Upward(S, H) == \A e \in S, f \in H : e <= f => f \in S

Rings == [s : Nat, e : Nat, arr : [0 .. (CacheSize - 1) -> Nat]]
WatchRecords ==
  [step : {"off", "added", "empty", "serving", "refused", "closed"}, req : Nat, from : Nat]

\* The cache holds the last events of h, at their places in the array.
CacheRight(r, h) ==
  /\ r \in Rings
  /\ r.e = Len(h)
  /\ r.s = IF Len(h) > CacheSize THEN Len(h) - CacheSize ELSE 0
  /\ \A n \in r.s + 1 .. r.e : r.arr[Index(n - 1)] = h[n]

\* The collector: events are committed before they are added, in ascending order.
CollectRight ==
  /\ committed \in Nat
  /\ adding \in Nat
  /\ history \in Seq(Nat)
  /\ Asc(history)
  /\ \A e \in Range(history) : e \in 1 .. committed
  /\ adding # 0 => adding = committed /\ Below(Range(history), {adding})
  /\ CacheRight(cache, history)

\* Events in the cache that the hub has not seen.
InFlight == Queued(watchChan) \cup Range(batch)

\* What the hub has not seen are the last events, in order.
ChanRight ==
  /\ batch \in Seq(Nat)
  /\ watchChan \in Seq(Seq(Nat))
  /\ Asc(batch)
  /\ Sorted(watchChan)
  /\ Below(Queued(watchChan), Range(batch))
  /\ InFlight \subseteq Range(history)
  /\ Upward(InFlight, Range(history))

\* What a request x will pass on of the events S, and what it asked for of H.
Wants(x, S) == {e \in S : e >= x.from /\ HasPrefix(e)}
AskedFor(x, H) == {e \in H : e >= x.req /\ HasPrefix(e)}

\* What was delivered (o) and what will be (of F) is what was asked for.
GotRight(x, o, F, H) ==
  IF x.req > 0 THEN Range(o) \cup Wants(x, F) = AskedFor(x, H)
  ELSE Upward(Range(o) \cup Wants(x, F), AskedFor(x, H))

\* A request x with client output o and channel q, where P is yet to come from the
\* hub.  A live one is registered and has been dropped no batch: before it looks at
\* the cache, its channel and P are the last events from some point on; after
\* that, its output and what passes its filter are what it asked for.
WatcherRight(x, o, q, P, H, live) ==
  /\ x \in WatchRecords
  /\ o \in Seq(Nat) /\ Asc(o) /\ Range(o) \subseteq AskedFor(x, H)
  /\ q \in Seq(Seq(Nat)) /\ Sorted(q) /\ Queued(q) \subseteq H /\ Below(Queued(q), P)
  /\ x.step = "off" => q = <<>> /\ ~live
  /\ x.step \in {"off", "added", "empty"} => o = <<>>
  /\ live /\ x.step \in {"added", "empty"} => Upward(Queued(q) \cup P, H)
  /\ x.step = "serving" =>
       /\ x.from >= x.req
       /\ x.from = x.req \/ \E e \in H : x.from = e + 1
       /\ Below(Range(o), Wants(x, Queued(q) \cup P))
       /\ live => GotRight(x, o, Queued(q) \cup P, H)

\* Every watcher is right; those registered have a request.
HubRight ==
  /\ subs \subseteq Watchers /\ deleting \subseteq Watchers /\ overrun \subseteq Watchers
  /\ watch = [w \in Watchers |-> watch[w]]
  /\ out = [w \in Watchers |-> out[w]]
  /\ sub = [w \in Watchers |-> sub[w]]
  /\ \A w \in Watchers :
       WatcherRight(watch[w], out[w], sub[w], InFlight, Range(history), w \in subs \ overrun)
  /\ \A w \in subs : watch[w].step # "off"

WatchInv == CollectRight /\ ChanRight /\ HubRight

\* A set of numbers has a least one.
LEMMA LeastOf ==
  ASSUME NEW S \in SUBSET Nat, S # {}
  PROVE  \E x \in S : \A y \in S : x <= y
<1> DEFINE R == OpToRel(<, Nat)
<1>1. IsWellFoundedOn(R, Nat)
  BY Zenon, NatLessThanWellFounded
<1>2. \A y, z \in Nat : y < z => <<y, z>> \in R
  BY DEF OpToRel
<1> HIDE DEF R
<1>3. S \subseteq Nat
  OBVIOUS
<1>4. PICK x \in S : \A y \in S : ~(<<y, x>> \in R)
  BY Zenon, <1>1, <1>3, WFMin
<1>5. \A y \in S : ~(y < x)
  BY Zenon, <1>2, <1>3, <1>4
<1>6. \A y \in S : x <= y
  BY <1>3, <1>5
<1> QED BY Zenon, <1>6

\* Min of a set of numbers.
LEMMA MinIs ==
  ASSUME NEW S \in SUBSET Nat, S # {}
  PROVE  Min(S) \in S /\ \A x \in S : Min(S) <= x
<1>1. \E m \in S : \A x \in S : m <= x
  BY Zenon, LeastOf
<1> QED BY Zenon, <1>1 DEF Min

-----------------------------------------------------------------------------
(* Sequences of events, and queues of batches.                             *)

\* What is in a sequence.
LEMMA InRange ==
  ASSUME NEW T, NEW s \in Seq(T)
  PROVE  /\ \A e : e \in Range(s) <=> \E i \in 1 .. Len(s) : s[i] = e
         /\ Range(s) \subseteq T
         /\ DOMAIN s = 1 .. Len(s) /\ Len(s) \in Nat
<1>1. DOMAIN s = 1 .. Len(s) /\ Len(s) \in Nat /\ \A i \in 1 .. Len(s) : s[i] \in T
  OBVIOUS
<1>2. Range(s) = {s[i] : i \in 1 .. Len(s)}
  BY Zenon, <1>1 DEF Range
<1> QED BY Zenon, <1>1, <1>2

\* An empty sequence.
LEMMA EmptyRange == Range(<<>>) = {} /\ Asc(<<>>) /\ Queued(<<>>) = {} /\ Sorted(<<>>)
<1>1. DOMAIN <<>> = {}
  OBVIOUS
<1> QED BY Zenon, <1>1 DEF Range, Asc, Queued, Sorted

\* An event is appended.
LEMMA AppendRange ==
  ASSUME NEW s \in Seq(Nat), NEW a \in Nat
  PROVE  /\ Append(s, a) \in Seq(Nat)
         /\ Range(Append(s, a)) = Range(s) \cup {a}
         /\ Asc(s) /\ Below(Range(s), {a}) => Asc(Append(s, a))
<1>1. PICK t : t = Append(s, a)
  BY Zenon
<1>2. /\ t \in Seq(Nat) /\ Len(t) = Len(s) + 1 /\ t[Len(s) + 1] = a
      /\ Len(s) \in Nat /\ \A i \in 1 .. Len(s) : t[i] = s[i]
  BY <1>1
<1>3. 1 .. Len(t) = (1 .. Len(s)) \cup {Len(s) + 1}
  BY <1>2
<1>4. Range(t) = Range(s) \cup {a}
  <2>1. \A e : e \in Range(s) <=> \E i \in 1 .. Len(s) : s[i] = e
    BY Zenon, InRange
  <2>2. \A e : e \in Range(t) <=> \E i \in 1 .. Len(t) : t[i] = e
    BY Zenon, <1>2, InRange
  <2>3. ASSUME NEW e \in Range(t)
        PROVE  e \in Range(s) \cup {a}
    BY Zenon, <1>2, <1>3, <2>1, <2>2
  <2>4. ASSUME NEW e \in Range(s)
        PROVE  e \in Range(t)
    BY Zenon, <1>2, <1>3, <2>1, <2>2
  <2>5. a \in Range(t)
    BY Zenon, <1>2, <1>3, <2>2
  <2> QED BY Zenon, <2>3, <2>4, <2>5
<1>5. ASSUME Asc(s), Below(Range(s), {a})
      PROVE  Asc(t)
  <2> SUFFICES ASSUME NEW i \in 1 .. Len(t), NEW j \in 1 .. Len(t), i < j
               PROVE  t[i] < t[j]
    BY Zenon, <1>2, InRange DEF Asc
  <2>1. i \in 1 .. Len(s)
    BY <1>2
  <2>2. s[i] \in Range(s)
    BY Zenon, <2>1, InRange
  <2>3. CASE j = Len(s) + 1
    BY Zenon, <1>2, <1>5, <2>1, <2>2, <2>3 DEF Below
  <2>4. CASE j \in 1 .. Len(s)
    <3>1. s[i] < s[j]
      BY Zenon, <1>5, <2>1, <2>4, InRange DEF Asc
    <3> QED BY Zenon, <1>2, <2>1, <2>4, <3>1
  <2> QED BY Zenon, <1>3, <2>3, <2>4
<1> QED BY Zenon, <1>1, <1>2, <1>4, <1>5

\* Events are appended to those there are.
LEMMA ConcatRange ==
  ASSUME NEW s \in Seq(Nat), NEW u \in Seq(Nat)
  PROVE  /\ s \o u \in Seq(Nat)
         /\ Range(s \o u) = Range(s) \cup Range(u)
         /\ Asc(s) /\ Asc(u) /\ Below(Range(s), Range(u)) => Asc(s \o u)
<1>1. PICK t : t = s \o u
  BY Zenon
<1>2. /\ t \in Seq(Nat) /\ Len(t) = Len(s) + Len(u)
      /\ Len(s) \in Nat /\ Len(u) \in Nat
      /\ \A i \in 1 .. Len(s) : t[i] = s[i]
  BY <1>1
<1>3. \A i \in 1 .. Len(u) : t[Len(s) + i] = u[i]
  BY <1>1, <1>2
<1>4. \A i \in 1 .. Len(t) :
        i \in 1 .. Len(s) \/ (i > Len(s) /\ \E j \in 1 .. Len(u) : i = Len(s) + j)
  <2> SUFFICES ASSUME NEW i \in 1 .. Len(t), i \notin 1 .. Len(s)
               PROVE  i > Len(s) /\ \E j \in 1 .. Len(u) : i = Len(s) + j
    BY Zenon
  <2>1. i - Len(s) \in 1 .. Len(u) /\ i = Len(s) + (i - Len(s)) /\ i > Len(s)
    BY <1>2
  <2> QED BY Zenon, <2>1
<1>5. \A j \in 1 .. Len(u) : Len(s) + j \in 1 .. Len(t)
  BY <1>2
<1>6. 1 .. Len(s) \subseteq 1 .. Len(t)
  BY <1>2
<1>7. Range(t) = Range(s) \cup Range(u)
  <2>1. ASSUME NEW e \in Range(t)
        PROVE  e \in Range(s) \cup Range(u)
    <3>1. PICK i \in 1 .. Len(t) : t[i] = e
      BY Zenon, <1>2, InRange
    <3>2. CASE i \in 1 .. Len(s)
      BY Zenon, <3>1, <3>2, <1>2, InRange
    <3>3. CASE i \notin 1 .. Len(s)
      <4>1. PICK j \in 1 .. Len(u) : i = Len(s) + j
        BY Zenon, <1>4, <3>3
      <4>2. u[j] = e
        BY Zenon, <4>1, <3>1, <1>3
      <4> QED BY Zenon, <4>2, InRange
    <3> QED BY Zenon, <3>2, <3>3
  <2>2. ASSUME NEW e \in Range(s)
        PROVE  e \in Range(t)
    <3>1. PICK i \in 1 .. Len(s) : s[i] = e
      BY Zenon, InRange
    <3>2. i \in 1 .. Len(t) /\ t[i] = e
      BY Zenon, <3>1, <1>2, <1>6
    <3> QED BY Zenon, <3>2, <1>2, InRange
  <2>3. ASSUME NEW e \in Range(u)
        PROVE  e \in Range(t)
    <3>1. PICK j \in 1 .. Len(u) : u[j] = e
      BY Zenon, InRange
    <3> QED BY Zenon, <3>1, <1>2, <1>3, <1>5, InRange
  <2> QED BY Zenon, <2>1, <2>2, <2>3
<1>8. ASSUME Asc(s), Asc(u), Below(Range(s), Range(u))
      PROVE  Asc(t)
  <2> SUFFICES ASSUME NEW i \in 1 .. Len(t), NEW j \in 1 .. Len(t), i < j
               PROVE  t[i] < t[j]
    BY Zenon, <1>2, InRange DEF Asc
  <2>1. CASE j \in 1 .. Len(s)
    <3>1. i \in 1 .. Len(s)
      BY <2>1
    <3>2. s[i] < s[j]
      BY Zenon, <3>1, <2>1, <1>8, InRange DEF Asc
    <3> QED BY Zenon, <3>1, <3>2, <2>1, <1>2
  <2>2. CASE j \notin 1 .. Len(s)
    <3>1. PICK m \in 1 .. Len(u) : j = Len(s) + m
      BY Zenon, <1>4, <2>2
    <3>2. t[j] = u[m] /\ u[m] \in Range(u)
      BY Zenon, <1>3, <3>1, InRange
    <3>3. CASE i \in 1 .. Len(s)
      <4>1. t[i] = s[i] /\ s[i] \in Range(s)
        BY Zenon, <1>2, <3>3, InRange
      <4> QED BY Zenon, <4>1, <3>2, <1>8 DEF Below
    <3>4. CASE i \notin 1 .. Len(s)
      <4>1. PICK k \in 1 .. Len(u) : i = Len(s) + k
        BY Zenon, <1>4, <3>4
      <4>2. k < m
        BY <4>1, <3>1, <1>2
      <4>3. u[k] < u[m]
        BY Zenon, <4>2, <1>8, InRange DEF Asc
      <4> QED BY Zenon, <4>3, <4>1, <3>2, <1>3
    <3> QED BY Zenon, <3>3, <3>4
  <2> QED BY Zenon, <2>1, <2>2
<1> QED BY Zenon, <1>1, <1>2, <1>7, <1>8

\* The end of an ascending sequence.
LEMMA SuffixRange ==
  ASSUME NEW s \in Seq(Nat), Asc(s), NEW m \in 1 .. Len(s)
  PROVE  /\ SubSeq(s, m, Len(s)) \in Seq(Nat)
         /\ Asc(SubSeq(s, m, Len(s)))
         /\ Range(SubSeq(s, m, Len(s))) = {e \in Range(s) : e >= s[m]}
         /\ SubSeq(s, m, Len(s)) # <<>>
<1>1. PICK t : t = SubSeq(s, m, Len(s))
  BY Zenon
<1>2. /\ t \in Seq(Nat) /\ Len(t) = Len(s) - m + 1 /\ Len(s) \in Nat
      /\ \A i \in 1 .. Len(t) : t[i] = s[m + i - 1]
  BY <1>1
<1>3. \A i \in 1 .. Len(t) : m + i - 1 \in 1 .. Len(s)
  BY <1>2
<1>4. \A i, j \in 1 .. Len(s) : i < j => s[i] < s[j]
  BY Zenon, InRange DEF Asc
<1>5. Asc(t)
  <2> SUFFICES ASSUME NEW i \in 1 .. Len(t), NEW j \in 1 .. Len(t), i < j
               PROVE  t[i] < t[j]
    BY Zenon, <1>2, InRange DEF Asc
  <2>1. m + i - 1 < m + j - 1
    BY <1>2
  <2>2. s[m + i - 1] < s[m + j - 1]
    BY Zenon, <2>1, <1>3, <1>4
  <2> QED BY Zenon, <2>2, <1>2
<1>6. ASSUME NEW e \in Range(t)
      PROVE  e \in Range(s) /\ e >= s[m]
  <2>1. PICK i \in 1 .. Len(t) : t[i] = e
    BY Zenon, <1>2, InRange
  <2>2. e = s[m + i - 1] /\ m + i - 1 \in 1 .. Len(s)
    BY Zenon, <2>1, <1>2, <1>3
  <2>3. e \in Range(s)
    BY Zenon, <2>2, InRange
  <2>4. m = m + i - 1 \/ m < m + i - 1
    BY <1>2
  <2>5. e = s[m] \/ s[m] < e
    BY Zenon, <2>2, <2>4, <1>4
  <2>6. e \in Nat /\ s[m] \in Nat
    BY <2>2
  <2> QED BY <2>3, <2>5, <2>6
<1>7. ASSUME NEW e \in Range(s), e >= s[m]
      PROVE  e \in Range(t)
  <2>1. PICK n \in 1 .. Len(s) : s[n] = e
    BY Zenon, InRange
  <2>2. ~(s[n] < s[m])
    BY <2>1, <1>7
  <2>3. ~(n < m)
    BY Zenon, <2>2, <1>4
  <2>4. n - m + 1 \in 1 .. Len(t) /\ m + (n - m + 1) - 1 = n
    BY <2>3, <1>2
  <2>5. t[n - m + 1] = e
    BY Zenon, <2>1, <2>4, <1>2
  <2>6. PICK k \in 1 .. Len(t) : t[k] = e
    BY Zenon, <2>4, <2>5
  <2> QED BY Zenon, <2>6, <1>2, InRange
<1>8. t # <<>>
  BY <1>2
<1> QED BY Zenon, <1>1, <1>2, <1>5, <1>6, <1>7, <1>8

\* What filterByRevision leaves of a batch.
LEMMA FilterRange ==
  ASSUME NEW s \in Seq(Nat), Asc(s), NEW r \in Nat
  PROVE  /\ FilterByRevision(s, r) \in Seq(Nat)
         /\ Asc(FilterByRevision(s, r))
         /\ Range(FilterByRevision(s, r)) = {e \in Range(s) : e >= r}
<1>1. PICK I : I = {i \in DOMAIN s : s[i] >= r}
  BY Zenon
<1>2. FilterByRevision(s, r) = IF I = {} THEN <<>> ELSE SubSeq(s, Min(I), Len(s))
  BY Zenon, <1>1 DEF FilterByRevision
<1>3. \A i : i \in I <=> i \in 1 .. Len(s) /\ s[i] >= r
  BY Zenon, <1>1, InRange
<1>4. CASE I = {}
  <2>1. {e \in Range(s) : e >= r} = {}
    <3> SUFFICES ASSUME NEW e \in Range(s), e >= r
                 PROVE  FALSE
      BY Zenon
    <3>1. PICK i \in 1 .. Len(s) : s[i] = e
      BY Zenon, InRange
    <3> QED BY Zenon, <3>1, <1>3, <1>4
  <2>2. <<>> \in Seq(Nat)
    OBVIOUS
  <2> QED BY Zenon, <1>2, <1>4, <2>1, <2>2, EmptyRange
<1>5. CASE I # {}
  <2>1. I \subseteq Nat
    BY <1>3
  <2>2. PICK m \in I : m = Min(I) /\ \A i \in I : m <= i
    BY Zenon, <1>5, <2>1, MinIs
  <2>3. m \in 1 .. Len(s) /\ s[m] >= r
    BY Zenon, <1>3
  <2>4. ASSUME NEW e \in Range(s)
        PROVE  e >= r <=> e >= s[m]
    <3>1. PICK n \in 1 .. Len(s) : s[n] = e
      BY Zenon, InRange
    <3>2. e \in Nat /\ s[m] \in Nat
      BY <3>1, <2>3
    <3>3. ASSUME e >= r
          PROVE  e >= s[m]
      <4>1. m <= n
        BY Zenon, <3>1, <3>3, <1>3, <2>2
      <4>2. m = n \/ m < n
        BY <4>1, <2>3
      <4>3. s[m] = e \/ s[m] < e
        BY Zenon, <4>2, <3>1, <2>3, InRange DEF Asc
      <4> QED BY <4>3, <3>2
    <3>4. e >= s[m] => e >= r
      BY <2>3, <3>2
    <3> QED BY Zenon, <3>3, <3>4
  <2>5. FilterByRevision(s, r) = SubSeq(s, m, Len(s))
    BY Zenon, <1>2, <1>5, <2>2
  <2>6. {e \in Range(s) : e >= r} = {e \in Range(s) : e >= s[m]}
    BY Zenon, <2>4
  <2> QED BY Zenon, <2>3, <2>5, <2>6, SuffixRange
<1> QED BY Zenon, <1>4, <1>5

\* The numbers of a set up to a given one.
UpTo(K, i) == {j \in K : j <= i}

\* How many of them there are, from one number to the next.
LEMMA RankStep ==
  ASSUME NEW n \in Nat, NEW K \in SUBSET (1 .. n), NEW i \in Nat
  PROVE  /\ IsFiniteSet(UpTo(K, i)) /\ Cardinality(UpTo(K, i)) \in Nat
         /\ IsFiniteSet(UpTo(K, i + 1))
         /\ Cardinality(UpTo(K, i + 1)) =
              IF i + 1 \in K THEN Cardinality(UpTo(K, i)) + 1 ELSE Cardinality(UpTo(K, i))
<1>1. IsFiniteSet(1 .. n)
  BY FS_Interval
<1>2. \A j : UpTo(K, j) \subseteq 1 .. n
  BY Zenon DEF UpTo
<1>3. IsFiniteSet(UpTo(K, i)) /\ IsFiniteSet(UpTo(K, i + 1))
  BY Zenon, <1>1, <1>2, FS_Subset
<1>4. \A j \in K : j <= i + 1 <=> j <= i \/ j = i + 1
  OBVIOUS
<1>5. CASE i + 1 \in K
  <2>1. UpTo(K, i + 1) = UpTo(K, i) \cup {i + 1}
    BY Zenon, <1>4, <1>5 DEF UpTo
  <2>2. ~(i + 1 <= i)
    OBVIOUS
  <2>3. i + 1 \notin UpTo(K, i)
    BY Zenon, <2>2 DEF UpTo
  <2>4. Cardinality(UpTo(K, i) \cup {i + 1}) = Cardinality(UpTo(K, i)) + 1
    BY Zenon, <1>3, <2>3, FS_AddElement
  <2> QED BY Zenon, <1>3, <1>5, <2>1, <2>4, FS_CardinalityType
<1>6. CASE i + 1 \notin K
  <2>1. UpTo(K, i + 1) = UpTo(K, i)
    BY Zenon, <1>4, <1>6 DEF UpTo
  <2> QED BY Zenon, <1>3, <1>6, <2>1, FS_CardinalityType
<1> QED BY Zenon, <1>5, <1>6

\* A greater number of the set has a greater rank.
LEMMA RankGrows ==
  ASSUME NEW n \in Nat, NEW K \in SUBSET (1 .. n), NEW i \in K, NEW k \in K, i < k
  PROVE  Cardinality(UpTo(K, i)) < Cardinality(UpTo(K, k))
<1>1. IsFiniteSet(1 .. n)
  BY FS_Interval
<1>2. \A j : UpTo(K, j) \subseteq 1 .. n
  BY Zenon DEF UpTo
<1>3. IsFiniteSet(UpTo(K, i)) /\ IsFiniteSet(UpTo(K, k))
  BY Zenon, <1>1, <1>2, FS_Subset
<1>4. k <= k /\ ~(k <= i) /\ \A j \in K : j <= i => j <= k
  OBVIOUS
<1>5. k \notin UpTo(K, i) /\ UpTo(K, i) \cup {k} \subseteq UpTo(K, k)
  BY Zenon, <1>4 DEF UpTo
<1>6. Cardinality(UpTo(K, i) \cup {k}) = Cardinality(UpTo(K, i)) + 1
  BY Zenon, <1>3, <1>5, FS_AddElement
<1>7. Cardinality(UpTo(K, i) \cup {k}) <= Cardinality(UpTo(K, k))
  BY Zenon, <1>3, <1>5, FS_Subset
<1>8. Cardinality(UpTo(K, i)) \in Nat /\ Cardinality(UpTo(K, k)) \in Nat
  BY Zenon, <1>3, FS_CardinalityType
<1> QED BY <1>6, <1>7, <1>8

\* Every rank is taken.
LEMMA RankTaken ==
  ASSUME NEW n \in Nat, NEW K \in SUBSET (1 .. n), NEW m \in 1 .. Cardinality(K)
  PROVE  \E i \in K : Cardinality(UpTo(K, i)) = m
<1> DEFINE A == {i \in Nat : Cardinality(UpTo(K, i)) >= m}
<1>1. UpTo(K, n) = K
  <2>1. \A j \in K : j <= n
    OBVIOUS
  <2> QED BY Zenon, <2>1 DEF UpTo
<1>2. Cardinality(K) \in Nat
  BY Zenon, <1>1, RankStep
<1>3. Cardinality(K) >= m /\ m \in Nat /\ m >= 1
  BY <1>2
<1>4. n \in A
  BY Zenon, <1>1, <1>3
<1>5. PICK i \in A : \A j \in A : i <= j
  <2>1. A \subseteq Nat /\ A # {}
    BY Zenon, <1>4
  <2> HIDE DEF A
  <2> QED BY Zenon, <2>1, LeastOf
<1>6. i \in Nat /\ Cardinality(UpTo(K, i)) >= m
  BY Zenon
<1>7. i # 0
  <2>1. \A j \in K : ~(j <= 0)
    OBVIOUS
  <2>2. UpTo(K, 0) = {}
    BY Zenon, <2>1 DEF UpTo
  <2>3. ~(0 >= m)
    BY <1>3
  <2> QED BY Zenon, <1>6, <2>2, <2>3, FS_EmptySet
<1>8. PICK j \in Nat : i = j + 1 /\ ~(i <= j)
  <2>1. i - 1 \in Nat /\ i = (i - 1) + 1 /\ ~(i <= i - 1)
    BY <1>6, <1>7
  <2> QED BY Zenon, <2>1
<1>9. ~(Cardinality(UpTo(K, j)) >= m)
  BY Zenon, <1>5, <1>8
<1>10. /\ Cardinality(UpTo(K, j)) \in Nat
       /\ Cardinality(UpTo(K, i)) =
            IF i \in K THEN Cardinality(UpTo(K, j)) + 1 ELSE Cardinality(UpTo(K, j))
  BY Zenon, <1>8, RankStep
<1> HIDE DEF A
<1>11. i \in K
  BY Zenon, <1>6, <1>9, <1>10
<1>12. Cardinality(UpTo(K, i)) = m
  BY <1>3, <1>6, <1>9, <1>10, <1>11
<1> QED BY Zenon, <1>11, <1>12

\* The events with the prefix that are in a sequence.
LEMMA PrefixRange ==
  ASSUME NEW s \in Seq(Nat), Asc(s)
  PROVE  /\ WithPrefix(s) \in Seq(Nat)
         /\ Asc(WithPrefix(s))
         /\ Range(WithPrefix(s)) = {e \in Range(s) : HasPrefix(e)}
<1> DEFINE K == {i \in DOMAIN s : HasPrefix(s[i])}
           place(m) == CHOOSE i \in K : Cardinality(UpTo(K, i)) = m
           t == [m \in 1 .. Cardinality(K) |-> s[place(m)]]
<1>1. WithPrefix(s) = t
  BY Zenon DEF WithPrefix, UpTo
<1>2. \A i : i \in K <=> i \in 1 .. Len(s) /\ HasPrefix(s[i])
  BY Zenon, InRange
<1> HIDE DEF K
<1>3. PICK n \in Nat : n = Len(s) /\ K \subseteq 1 .. n
  BY Zenon, <1>2, InRange
<1>4. Cardinality(K) \in Nat
  <2>1. IsFiniteSet(1 .. n)
    BY FS_Interval
  <2> QED BY Zenon, <1>3, <2>1, FS_Subset, FS_CardinalityType
<1>7. \A m \in 1 .. Cardinality(K) : place(m) \in K /\ Cardinality(UpTo(K, place(m))) = m
  BY Zenon, <1>3, RankTaken
<1>8. \A m \in 1 .. Cardinality(K) : t[m] = s[place(m)]
  BY Zenon
<1> HIDE DEF place
<1>9. t \in Seq(Nat) /\ Len(t) = Cardinality(K)
  <2>1. \A i \in K : s[i] \in Nat
    BY <1>2
  <2>2. t \in [1 .. Cardinality(K) -> Nat]
    BY Zenon, <1>7, <2>1
  <2> HIDE DEF t
  <2> QED BY <1>4, <2>2
<1> HIDE DEF t
<1>10. Asc(t)
  <2> SUFFICES ASSUME NEW i \in 1 .. Cardinality(K), NEW j \in 1 .. Cardinality(K), i < j
               PROVE  t[i] < t[j]
    BY Zenon, <1>9, InRange DEF Asc
  <2>1. PICK a \in K : a = place(i) /\ Cardinality(UpTo(K, a)) = i /\ t[i] = s[a]
    BY Zenon, <1>7, <1>8
  <2>2. PICK b \in K : b = place(j) /\ Cardinality(UpTo(K, b)) = j /\ t[j] = s[b]
    BY Zenon, <1>7, <1>8
  <2>3. ~(j < i) /\ i # j
    BY <1>4
  <2>4. ~(b < a) /\ a # b
    BY Zenon, <2>1, <2>2, <2>3, <1>3, RankGrows
  <2>5. a < b
    BY <2>4, <1>3
  <2>6. a \in DOMAIN s /\ b \in DOMAIN s
    <3>1. DOMAIN s = 1 .. Len(s)
      BY Zenon, InRange
    <3> QED BY Zenon, <1>2, <3>1
  <2>7. s[a] < s[b]
    BY Zenon, <2>5, <2>6 DEF Asc
  <2> QED BY Zenon, <2>1, <2>2, <2>7
<1>11. ASSUME NEW e \in Range(t)
       PROVE  e \in Range(s) /\ HasPrefix(e)
  <2>1. PICK m \in 1 .. Cardinality(K) : t[m] = e
    BY Zenon, <1>9, InRange
  <2>2. PICK a \in K : s[a] = e
    BY Zenon, <1>7, <1>8, <2>1
  <2> QED BY Zenon, <2>2, <1>2, InRange
<1>12. ASSUME NEW e \in Range(s), HasPrefix(e)
       PROVE  e \in Range(t)
  <2>1. PICK i \in 1 .. Len(s) : s[i] = e
    BY Zenon, InRange
  <2>2. i \in K
    BY Zenon, <2>1, <1>2, <1>12
  <2>3. PICK m : m = Cardinality(UpTo(K, i))
    BY Zenon
  <2>4. m \in 1 .. Cardinality(K)
    <3>1. IsFiniteSet(K)
      <4>1. IsFiniteSet(1 .. n)
        BY FS_Interval
      <4> QED BY Zenon, <1>3, <4>1, FS_Subset
    <3>2. i <= i
      BY <1>3
    <3>3. UpTo(K, i) \subseteq K /\ i \in UpTo(K, i)
      BY Zenon, <2>2, <3>2 DEF UpTo
    <3>4. IsFiniteSet(UpTo(K, i)) /\ m <= Cardinality(K) /\ m \in Nat
      BY Zenon, <3>1, <3>3, <2>3, FS_Subset, FS_CardinalityType
    <3>5. m # 0
      BY Zenon, <3>3, <3>4, <2>3, FS_EmptySet
    <3> QED BY <3>4, <3>5, <1>4
  <2>5. PICK a \in K : a = place(m) /\ Cardinality(UpTo(K, a)) = m /\ t[m] = s[a]
    BY Zenon, <2>4, <1>7, <1>8
  <2>6. m \in Nat /\ ~(m < m)
    BY <2>4, <1>4
  <2>7. ~(a < i) /\ ~(i < a)
    BY Zenon, <2>2, <2>3, <2>5, <2>6, <1>3, RankGrows
  <2>8. a = i
    BY <2>2, <2>7, <1>3
  <2>9. m \in 1 .. Len(t) /\ t[m] = e
    BY Zenon, <2>1, <2>4, <2>5, <2>8, <1>9
  <2>10. PICK k \in 1 .. Len(t) : t[k] = e
    BY Zenon, <2>9
  <2> QED BY Zenon, <2>10, <1>9, InRange
<1> QED BY Zenon, <1>1, <1>9, <1>10, <1>11, <1>12

\* What is in a queue of batches.
LEMMA InQueue ==
  ASSUME NEW q \in Seq(Seq(Nat))
  PROVE  /\ \A e : e \in Queued(q) <=> \E i \in 1 .. Len(q) : e \in Range(q[i])
         /\ Queued(q) \subseteq Nat
         /\ \A i \in 1 .. Len(q) : q[i] \in Seq(Nat)
<1>1. DOMAIN q = 1 .. Len(q) /\ \A i \in 1 .. Len(q) : q[i] \in Seq(Nat)
  OBVIOUS
<1>2. \A e : e \in Queued(q) <=> \E i \in 1 .. Len(q) : e \in Range(q[i])
  BY Zenon, <1>1 DEF Queued
<1>3. \A i \in 1 .. Len(q) : Range(q[i]) \subseteq Nat
  BY Zenon, <1>1, InRange
<1> QED BY Zenon, <1>1, <1>2, <1>3

\* A batch is appended to a queue.
LEMMA QueueAppend ==
  ASSUME NEW q \in Seq(Seq(Nat)), NEW b \in Seq(Nat)
  PROVE  /\ Append(q, b) \in Seq(Seq(Nat))
         /\ Queued(Append(q, b)) = Queued(q) \cup Range(b)
         /\ Sorted(q) /\ Asc(b) /\ Below(Queued(q), Range(b)) => Sorted(Append(q, b))
<1>1. PICK t : t = Append(q, b)
  BY Zenon
<1>2. /\ t \in Seq(Seq(Nat)) /\ Len(t) = Len(q) + 1 /\ t[Len(q) + 1] = b
      /\ Len(q) \in Nat /\ \A i \in 1 .. Len(q) : t[i] = q[i]
  BY <1>1
<1>3. 1 .. Len(t) = (1 .. Len(q)) \cup {Len(q) + 1}
  BY <1>2
<1>4. Queued(t) = Queued(q) \cup Range(b)
  <2>1. \A e : e \in Queued(q) <=> \E i \in 1 .. Len(q) : e \in Range(q[i])
    BY Zenon, InQueue
  <2>2. \A e : e \in Queued(t) <=> \E i \in 1 .. Len(t) : e \in Range(t[i])
    BY Zenon, <1>2, InQueue
  <2>3. ASSUME NEW e \in Queued(t)
        PROVE  e \in Queued(q) \cup Range(b)
    BY Zenon, <1>2, <1>3, <2>1, <2>2
  <2>4. ASSUME NEW e \in Queued(q)
        PROVE  e \in Queued(t)
    BY Zenon, <1>2, <1>3, <2>1, <2>2
  <2>5. ASSUME NEW e \in Range(b)
        PROVE  e \in Queued(t)
    BY Zenon, <1>2, <1>3, <2>2
  <2> QED BY Zenon, <2>3, <2>4, <2>5
<1>5. ASSUME Sorted(q), Asc(b), Below(Queued(q), Range(b))
      PROVE  Sorted(t)
  <2>1. DOMAIN q = 1 .. Len(q) /\ DOMAIN t = 1 .. Len(t)
    BY <1>2
  <2>2. ASSUME NEW i \in 1 .. Len(t)
        PROVE  Asc(t[i])
    <3>1. CASE i = Len(q) + 1
      BY Zenon, <3>1, <1>2, <1>5
    <3>2. CASE i \in 1 .. Len(q)
      BY Zenon, <3>2, <1>2, <1>5, <2>1 DEF Sorted
    <3> QED BY Zenon, <3>1, <3>2, <1>3
  <2>3. ASSUME NEW i \in 1 .. Len(t), NEW j \in 1 .. Len(t), i < j
        PROVE  Below(Range(t[i]), Range(t[j]))
    <3>1. i \in 1 .. Len(q)
      BY <1>2, <2>3
    <3>2. Range(q[i]) \subseteq Queued(q)
      BY Zenon, <3>1, InQueue
    <3>3. CASE j = Len(q) + 1
      <4>1. Below(Range(q[i]), Range(b))
        BY Zenon, <3>2, <1>5 DEF Below
      <4> QED BY Zenon, <4>1, <3>1, <3>3, <1>2
    <3>4. CASE j \in 1 .. Len(q)
      <4>1. Below(Range(q[i]), Range(q[j]))
        BY Zenon, <3>1, <3>4, <2>1, <2>3, <1>5 DEF Sorted
      <4> QED BY Zenon, <4>1, <3>1, <3>4, <1>2
    <3> QED BY Zenon, <3>3, <3>4, <1>3
  <2> QED BY Zenon, <2>1, <2>2, <2>3 DEF Sorted
<1> QED BY Zenon, <1>1, <1>2, <1>4, <1>5

\* The first batch is taken from a queue.
LEMMA QueueTail ==
  ASSUME NEW q \in Seq(Seq(Nat)), q # <<>>
  PROVE  /\ Head(q) \in Seq(Nat) /\ Tail(q) \in Seq(Seq(Nat))
         /\ Queued(q) = Range(Head(q)) \cup Queued(Tail(q))
         /\ Sorted(q) => /\ Asc(Head(q)) /\ Sorted(Tail(q))
                         /\ Below(Range(Head(q)), Queued(Tail(q)))
<1>1. PICK b, t : b = Head(q) /\ t = Tail(q)
  BY Zenon
<1>2. /\ t \in Seq(Seq(Nat)) /\ Len(t) = Len(q) - 1 /\ b = q[1] /\ b \in Seq(Nat)
      /\ Len(q) \in Nat /\ Len(q) >= 1 /\ \A i \in 1 .. Len(t) : t[i] = q[i + 1]
  BY <1>1
<1>3. \A i \in 1 .. Len(t) : i + 1 \in 1 .. Len(q) /\ 1 < i + 1
  BY <1>2
<1>4. 1 \in 1 .. Len(q) /\ \A i \in 1 .. Len(q) : i = 1 \/ \E j \in 1 .. Len(t) : i = j + 1
  <2>1. ASSUME NEW i \in 1 .. Len(q), i # 1
        PROVE  \E j \in 1 .. Len(t) : i = j + 1
    <3>1. i - 1 \in 1 .. Len(t) /\ i = (i - 1) + 1
      BY <1>2, <2>1
    <3> QED BY Zenon, <3>1
  <2>2. 1 \in 1 .. Len(q)
    BY <1>2
  <2> QED BY Zenon, <2>1, <2>2
<1>5. \A e : e \in Queued(q) <=> \E i \in 1 .. Len(q) : e \in Range(q[i])
  BY Zenon, InQueue
<1>6. \A e : e \in Queued(t) <=> \E i \in 1 .. Len(t) : e \in Range(t[i])
  BY Zenon, <1>2, InQueue
<1>7. Queued(q) = Range(b) \cup Queued(t)
  <2>1. ASSUME NEW e \in Queued(q)
        PROVE  e \in Range(b) \cup Queued(t)
    <3>1. PICK i \in 1 .. Len(q) : e \in Range(q[i])
      BY Zenon, <1>5
    <3>2. CASE i = 1
      BY Zenon, <3>1, <3>2, <1>2
    <3>3. CASE i # 1
      <4>1. PICK j \in 1 .. Len(t) : i = j + 1
        BY Zenon, <3>3, <1>4
      <4> QED BY Zenon, <4>1, <3>1, <1>2, <1>6
    <3> QED BY Zenon, <3>2, <3>3
  <2>2. ASSUME NEW e \in Range(b)
        PROVE  e \in Queued(q)
    BY Zenon, <1>2, <1>4, <1>5
  <2>3. ASSUME NEW e \in Queued(t)
        PROVE  e \in Queued(q)
    BY Zenon, <1>2, <1>3, <1>5, <1>6
  <2> QED BY Zenon, <2>1, <2>2, <2>3
<1>8. ASSUME Sorted(q)
      PROVE  Asc(b) /\ Sorted(t) /\ Below(Range(b), Queued(t))
  <2>1. DOMAIN q = 1 .. Len(q) /\ DOMAIN t = 1 .. Len(t)
    BY <1>2
  <2>2. /\ \A i \in 1 .. Len(q) : Asc(q[i])
        /\ \A i, j \in 1 .. Len(q) : i < j => Below(Range(q[i]), Range(q[j]))
    BY Zenon, <2>1, <1>8 DEF Sorted
  <2>3. Asc(b)
    BY Zenon, <2>2, <1>2, <1>4
  <2>4. ASSUME NEW e \in Range(b), NEW f \in Queued(t)
        PROVE  e < f
    <3>1. PICK i \in 1 .. Len(t) : f \in Range(t[i])
      BY Zenon, <1>6
    <3>2. Below(Range(q[1]), Range(q[i + 1]))
      BY Zenon, <2>2, <1>3, <1>4
    <3> QED BY Zenon, <3>1, <3>2, <1>2 DEF Below
  <2>5. ASSUME NEW i \in 1 .. Len(t)
        PROVE  Asc(t[i])
    BY Zenon, <2>2, <1>2, <1>3
  <2>6. ASSUME NEW i \in 1 .. Len(t), NEW j \in 1 .. Len(t), i < j
        PROVE  Below(Range(t[i]), Range(t[j]))
    <3>1. i + 1 < j + 1
      BY <1>2, <2>6
    <3>2. Below(Range(q[i + 1]), Range(q[j + 1]))
      BY Zenon, <3>1, <2>2, <1>3
    <3> QED BY Zenon, <3>2, <1>2
  <2>7. Sorted(t)
    BY Zenon, <2>1, <2>5, <2>6 DEF Sorted
  <2> QED BY Zenon, <2>3, <2>4, <2>7 DEF Below
<1> QED BY Zenon, <1>1, <1>2, <1>7, <1>8

\* Division.
LEMMA DivMod ==
  ASSUME NEW n \in Nat, NEW c \in Nat \ {0}
  PROVE  /\ n \div c \in Int
         /\ n % c \in 0 .. (c - 1)
         /\ n = c * (n \div c) + (n % c)
OBVIOUS

\* Two multiples of c that are less than c apart are equal.
LEMMA NoMultipleBetween ==
  ASSUME NEW c \in Nat \ {0}, NEW p \in Int, NEW q \in Int,
         c * p <= c * q, c * q - c * p < c
  PROVE  p = q
<1>1. c * (q - p) = c * q - c * p
  OBVIOUS
<1>2. CASE q - p >= 1
  <2>1. c * (q - p) >= c
    BY <1>2
  <2> QED BY <1>1, <2>1
<1>3. CASE q - p <= -1
  <2>1. c * (q - p) <= -c
    BY <1>3
  <2> QED BY <1>1, <2>1
<1> QED BY <1>2, <1>3

-----------------------------------------------------------------------------
(* The cache.                                                              *)

\* A position has a place in the array, and positions less than the length of
\* the array apart have different ones.
LEMMA IndexPlace ==
  ASSUME NEW n \in Nat
  PROVE  Index(n) \in 0 .. (CacheSize - 1)
BY CacheAssumption DEF Index

\* Two positions less than a cache apart lie at different places of the array,
\* so that Add overwrites no event still in the cache.
LEMMA IndexApart ==
  ASSUME NEW a \in Nat, NEW b \in Nat, a < b, b < a + CacheSize
  PROVE  Index(a) # Index(b)
<1> SUFFICES ASSUME Index(a) = Index(b)
             PROVE  FALSE
  BY Zenon
<1>1. PICK c \in Nat \ {0} : c = CacheSize
  BY Zenon, CacheAssumption
<1> DEFINE p == a \div c
           q == b \div c
<1>2. p \in Int /\ q \in Int /\ a % c \in Int
      /\ a = c * p + (a % c) /\ b = c * q + (b % c)
  BY DivMod
<1>3. a % c = b % c
  BY Zenon, <1>1 DEF Index
<1> HIDE DEF p, q
<1>4. c * p \in Int /\ c * q \in Int
  BY <1>2
<1>5. c * p <= c * q /\ c * q - c * p < c
  BY <1>1, <1>2, <1>3, <1>4
<1>6. p = q
  BY <1>2, <1>5, NoMultipleBetween
<1> QED BY <1>2, <1>3, <1>6, <1>4

\* The place of a later position: as much later, around the end of the array.
LEMMA IndexLater ==
  ASSUME NEW a \in Nat, NEW i \in Nat, i <= CacheSize
  PROVE  /\ Index(a) + i < CacheSize => Index(a + i) = Index(a) + i
         /\ Index(a) + i >= CacheSize => Index(a + i) = Index(a) + i - CacheSize
<1>1. PICK c \in Nat \ {0} : c = CacheSize
  BY Zenon, CacheAssumption
<1> DEFINE p == a \div c
           q == (a + i) \div c
<1>2. /\ p \in Int /\ q \in Int /\ a % c \in 0 .. (c - 1) /\ (a + i) % c \in 0 .. (c - 1)
      /\ a = c * p + (a % c) /\ a + i = c * q + ((a + i) % c)
  <2>1. a + i \in Nat
    OBVIOUS
  <2> QED BY <2>1, DivMod
<1> HIDE DEF p, q
<1>3. PICK x, y \in Int : x = c * p /\ y = c * q
  BY <1>2
<1>4. PICK u, v \in 0 .. (c - 1) : u = a % c /\ v = (a + i) % c
  BY Zenon, <1>2
<1>5. a = x + u /\ a + i = y + v
  BY Zenon, <1>2, <1>3, <1>4
<1>6. ASSUME u + i < c
      PROVE  v = u + i
  <2>1. CASE y >= x
    <3>1. y - x < c
      BY <1>5, <1>6
    <3>2. p = q
      BY <1>2, <1>3, <2>1, <3>1, NoMultipleBetween
    <3>3. x = y
      BY Zenon, <3>2, <1>3
    <3> QED BY <3>3, <1>5
  <2>2. CASE y < x
    <3>1. x - y < c
      BY <1>5, <2>2
    <3>2. p = q
      BY <1>2, <1>3, <2>2, <3>1, NoMultipleBetween
    <3>3. x = y
      BY Zenon, <3>2, <1>3
    <3> QED BY <3>3, <1>5
  <2> QED BY <2>1, <2>2
<1>7. ASSUME u + i >= c
      PROVE  v = u + i - c
  <2>1. c * (p + 1) = x + c /\ p + 1 \in Int
    BY <1>2, <1>3
  <2>2. CASE y >= x + c
    <3>1. y - (x + c) < c
      BY <1>1, <1>5, <1>7
    <3>2. p + 1 = q
      BY <1>2, <1>3, <2>1, <2>2, <3>1, NoMultipleBetween
    <3>3. y = x + c
      BY Zenon, <3>2, <1>3, <2>1
    <3> QED BY <3>3, <1>5
  <2>3. CASE y < x + c
    <3>1. x + c - y < c
      BY <1>5, <1>7, <2>3
    <3>2. p + 1 = q
      BY <1>2, <1>3, <2>1, <2>3, <3>1, NoMultipleBetween
    <3>3. y = x + c
      BY Zenon, <3>2, <1>3, <2>1
    <3> QED BY <3>3, <1>5
  <2> QED BY <2>2, <2>3
<1>8. Index(a) = u /\ Index(a + i) = v
  BY Zenon, <1>1, <1>4 DEF Index
<1> QED BY Zenon, <1>1, <1>6, <1>7, <1>8

\* The cache holds the last events, also after one more.
LEMMA CacheAdd ==
  ASSUME NEW r, NEW h \in Seq(Nat), CacheRight(r, h), NEW a \in Nat
  PROVE  CacheRight(Add(r, a), Append(h, a))
<1>1. /\ r.s \in Nat /\ r.e \in Nat /\ r.arr \in [0 .. (CacheSize - 1) -> Nat]
      /\ r.e = Len(h)
      /\ r.s = IF Len(h) > CacheSize THEN Len(h) - CacheSize ELSE 0
      /\ \A n \in r.s + 1 .. r.e : r.arr[Index(n - 1)] = h[n]
  BY DEF CacheRight, Rings
<1>2. PICK g : g = Append(h, a)
  BY Zenon
<1>3. /\ Len(g) = Len(h) + 1 /\ g[Len(h) + 1] = a /\ Len(h) \in Nat
      /\ \A n \in 1 .. Len(h) : g[n] = h[n]
  BY <1>2
<1>4. PICK s : s = IF r.e = r.s + CacheSize THEN r.s + 1 ELSE r.s
  BY Zenon
<1>5. PICK A : A = [r.arr EXCEPT ![Index(r.e)] = a]
  BY Zenon
<1>6. PICK t : t = [s |-> s, e |-> r.e + 1, arr |-> A]
  BY Zenon
<1>7. t = Add(r, a)
  BY Zenon, <1>4, <1>5, <1>6 DEF Add
<1>8. t.s = s /\ t.e = r.e + 1 /\ t.arr = A
  BY <1>6
<1>9. s \in Nat /\ s = IF Len(g) > CacheSize THEN Len(g) - CacheSize ELSE 0
  BY <1>1, <1>3, <1>4, CacheAssumption
<1>10. Index(r.e) \in 0 .. (CacheSize - 1)
  BY Zenon, <1>1, IndexPlace
<1>11. /\ A \in [0 .. (CacheSize - 1) -> Nat] /\ A[Index(r.e)] = a
       /\ \A i \in 0 .. (CacheSize - 1) : i # Index(r.e) => A[i] = r.arr[i]
  BY Zenon, <1>1, <1>5, <1>10
<1>12. t \in Rings
  BY <1>1, <1>6, <1>9, <1>11 DEF Rings
<1>13. ASSUME NEW n \in s + 1 .. r.e + 1
       PROVE  A[Index(n - 1)] = g[n]
  <2>1. CASE n = r.e + 1
    <3>1. n - 1 = r.e
      BY <2>1, <1>1
    <3> QED BY Zenon, <3>1, <2>1, <1>1, <1>3, <1>11
  <2>2. CASE n # r.e + 1
    <3>1. PICK l \in Nat : l = r.e /\ l = Len(h)
      BY Zenon, <1>1
    <3>2. s = IF l + 1 > CacheSize THEN l + 1 - CacheSize ELSE 0
      <4>1. Len(g) = l + 1
        BY Zenon, <3>1, <1>3
      <4>2. PICK m \in Nat : m = Len(g) /\ m = l + 1
        BY <4>1
      <4>3. s = IF m > CacheSize THEN m - CacheSize ELSE 0
        BY Zenon, <4>2, <1>9
      <4> QED BY <4>2, <4>3, CacheAssumption
    <3>3. n \in s + 1 .. l + 1 /\ n # l + 1
      BY Zenon, <3>1, <2>2
    <3>4. n - 1 \in Nat /\ n - 1 < l /\ l < (n - 1) + CacheSize
      BY <3>2, <3>3, <1>9, CacheAssumption
    <3>5. n - 1 \in Nat /\ n - 1 < r.e /\ r.e < (n - 1) + CacheSize
      BY Zenon, <3>1, <3>4
    <3>6. Index(n - 1) # Index(r.e) /\ Index(n - 1) \in 0 .. (CacheSize - 1)
      BY Zenon, <3>5, <1>1, IndexApart, IndexPlace
    <3>7. n \in r.s + 1 .. r.e /\ n \in 1 .. Len(h)
      BY <2>2, <1>1, <1>3, <1>4, <1>9
    <3>8. A[Index(n - 1)] = r.arr[Index(n - 1)]
      BY Zenon, <3>6, <1>11
    <3> QED BY Zenon, <3>7, <3>8, <1>1, <1>3
  <2> QED BY Zenon, <2>1, <2>2
<1>14. t.e = Len(g)
  BY Zenon, <1>1, <1>3, <1>8
<1> QED BY Zenon, <1>2, <1>7, <1>8, <1>9, <1>12, <1>13, <1>14 DEF CacheRight

\* A function on the first numbers is a sequence.
LEMMA SequenceOf ==
  ASSUME NEW n \in Nat, NEW u \in [1 .. n -> Nat]
  PROVE  u \in Seq(Nat) /\ Len(u) = n
OBVIOUS

\* What two sequences one after the other have at each place.
LEMMA ConcatAt ==
  ASSUME NEW u \in Seq(Nat), NEW v \in Seq(Nat)
  PROVE  /\ u \o v \in Seq(Nat) /\ Len(u \o v) = Len(u) + Len(v)
         /\ \A i \in 1 .. (Len(u) + Len(v)) :
              (u \o v)[i] = IF i <= Len(u) THEN u[i] ELSE v[i - Len(u)]
OBVIOUS

\* What is read from the cache, in one or two pieces, is the end of the history.
LEMMA CacheSlices ==
  ASSUME NEW r, NEW h \in Seq(Nat), CacheRight(r, h), NEW k \in 0 .. (r.e - r.s - 1)
  PROVE  CachedFrom(r, k) = SubSeq(h, r.s + k + 1, Len(h))
<1>1. /\ r.s \in Nat /\ r.e \in Nat /\ r.arr \in [0 .. (CacheSize - 1) -> Nat]
      /\ r.e = Len(h)
      /\ r.s = IF Len(h) > CacheSize THEN Len(h) - CacheSize ELSE 0
      /\ \A n \in r.s + 1 .. r.e : r.arr[Index(n - 1)] = h[n]
  BY DEF CacheRight, Rings
<1>2. PICK a \in Nat, L \in Nat : a = r.s + k /\ L = r.e - a
  <2>1. r.s + k \in Nat /\ r.e - (r.s + k) \in Nat
    BY <1>1
  <2> QED BY Zenon, <2>1
<1>3. 1 <= L /\ L <= CacheSize /\ r.e = a + L
  <2>1. PICK s, e \in Nat : s = r.s /\ e = r.e
    BY Zenon, <1>1
  <2>2. s = IF e > CacheSize THEN e - CacheSize ELSE 0
    BY Zenon, <2>1, <1>1
  <2>3. a = s + k /\ L = e - a /\ k \in 0 .. (e - s - 1)
    BY Zenon, <2>1, <1>2
  <2>4. 1 <= L /\ L <= CacheSize /\ e = a + L
    BY <2>2, <2>3, CacheAssumption
  <2> QED BY Zenon, <2>1, <2>4
<1>4. PICK c \in Nat \ {0} : c = CacheSize
  BY Zenon, CacheAssumption
<1>5. PICK from, to \in 0 .. (c - 1) : from = Index(a) /\ to = Index(r.e)
  BY Zenon, <1>1, <1>4, IndexPlace
<1>6. CachedFrom(r, k) = IF to > from THEN Slice(r, from, to)
                         ELSE Slice(r, from, c) \o Slice(r, 0, to)
  BY Zenon, <1>2, <1>4, <1>5 DEF CachedFrom
<1>7. /\ from + L < c => to = from + L
      /\ from + L >= c => to = from + L - c
  BY Zenon, <1>3, <1>4, <1>5, IndexLater
<1>8. ASSUME NEW i \in 1 .. L
      PROVE  /\ from + (i - 1) < c => r.arr[from + i - 1] = h[a + i]
             /\ from + (i - 1) >= c => r.arr[from + i - 1 - c] = h[a + i]
  <2>1. i - 1 \in Nat /\ i - 1 <= c /\ a + i \in r.s + 1 .. r.e /\ a + i - 1 = a + (i - 1)
    BY <1>1, <1>2, <1>3, <1>4
  <2>2. r.arr[Index(a + i - 1)] = h[a + i]
    <3>1. PICK n \in r.s + 1 .. r.e : n = a + i
      BY Zenon, <2>1
    <3>2. r.arr[Index(n - 1)] = h[n]
      BY Zenon, <1>1
    <3> QED BY <3>1, <3>2
  <2>3. /\ from + (i - 1) < c => Index(a + i - 1) = from + (i - 1)
        /\ from + (i - 1) >= c => Index(a + i - 1) = from + (i - 1) - c
    BY Zenon, <2>1, <1>4, <1>5, IndexLater
  <2>4. from + (i - 1) = from + i - 1 /\ from + (i - 1) - c = from + i - 1 - c
    OBVIOUS
  <2> QED BY Zenon, <2>2, <2>3, <2>4
<1>9. PICK t : t = SubSeq(h, a + 1, Len(h))
  BY Zenon
<1>10. /\ t = [i \in 1 .. L |-> t[i]]
       /\ \A i \in 1 .. L : t[i] = h[a + i]
  <2>1. a + 1 \in 1 .. Len(h) + 1 /\ Len(h) \in Nat /\ Len(h) = a + L
    BY <1>1, <1>3
  <2>2. t \in Seq(Nat) /\ Len(t) = L /\ \A i \in 1 .. Len(t) : t[i] = h[a + 1 + i - 1]
    BY <1>9, <2>1
  <2>3. \A i \in 1 .. L : a + 1 + i - 1 = a + i
    OBVIOUS
  <2>4. t = [i \in 1 .. Len(t) |-> t[i]]
    BY <2>2
  <2> QED BY Zenon, <2>2, <2>3, <2>4
<1>11. CASE from + L < c
  <2>1. to = from + L /\ to > from /\ to - from = L
    BY <1>3, <1>7, <1>11
  <2>2. Slice(r, from, to) = [i \in 1 .. L |-> r.arr[from + i - 1]]
    BY Zenon, <2>1 DEF Slice
  <2>3. \A i \in 1 .. L : from + (i - 1) < c
    BY <1>11
  <2>4. \A i \in 1 .. L : r.arr[from + i - 1] = t[i]
    BY Zenon, <2>3, <1>8, <1>10
  <2>5. Slice(r, from, to) = t
    BY Zenon, <2>2, <2>4, <1>10
  <2> QED BY Zenon, <2>1, <2>5, <1>2, <1>6, <1>9
<1>12. CASE from + L >= c
  <2>1. to = from + L - c /\ ~(to > from) /\ c - from \in 1 .. L /\ (c - from) + to = L
    BY <1>3, <1>4, <1>7, <1>12
  <2>2. PICK u : u = Slice(r, from, c)
    BY Zenon
  <2>3. PICK v : v = Slice(r, 0, to)
    BY Zenon
  <2>4. PICK d \in 1 .. L : d = c - from
    BY Zenon, <2>1
  <2>5. u = [i \in 1 .. d |-> r.arr[from + i - 1]]
    BY Zenon, <2>2, <2>4 DEF Slice
  <2>6. v = [i \in 1 .. to |-> r.arr[i - 1]]
    <3>1. to - 0 = to /\ \A i \in 1 .. to : 0 + i - 1 = i - 1
      OBVIOUS
    <3> QED BY Zenon, <2>3, <3>1 DEF Slice
  <2>7. u \in Seq(Nat) /\ Len(u) = d /\ \A i \in 1 .. d : u[i] = r.arr[from + i - 1]
    <3>1. \A i \in 1 .. d : from + i - 1 \in 0 .. (CacheSize - 1)
      BY <1>4, <2>4
    <3>2. \A i \in 1 .. d : r.arr[from + i - 1] \in Nat
      BY Zenon, <3>1, <1>1
    <3>3. u \in [1 .. d -> Nat] /\ \A i \in 1 .. d : u[i] = r.arr[from + i - 1]
      BY Zenon, <2>5, <3>2
    <3>4. d \in Nat
      OBVIOUS
    <3> QED BY Zenon, <3>3, <3>4, SequenceOf
  <2>8. v \in Seq(Nat) /\ Len(v) = to /\ \A i \in 1 .. to : v[i] = r.arr[i - 1]
    <3>1. \A i \in 1 .. to : i - 1 \in 0 .. (CacheSize - 1)
      BY <1>4
    <3>2. \A i \in 1 .. to : r.arr[i - 1] \in Nat
      BY Zenon, <3>1, <1>1
    <3>3. v \in [1 .. to -> Nat] /\ \A i \in 1 .. to : v[i] = r.arr[i - 1]
      BY Zenon, <2>6, <3>2
    <3>4. to \in Nat
      OBVIOUS
    <3> QED BY Zenon, <3>3, <3>4, SequenceOf
  <2>9. PICK x : x = u \o v
    BY Zenon
  <2>10. /\ x = [i \in 1 .. L |-> x[i]]
         /\ \A i \in 1 .. L : x[i] = IF i <= d THEN u[i] ELSE v[i - d]
    <3>1. Len(u) + Len(v) = L
      BY Zenon, <2>1, <2>4, <2>7, <2>8
    <3>2. x \in Seq(Nat) /\ Len(x) = Len(u) + Len(v)
      BY Zenon, <2>7, <2>8, <2>9, ConcatAt
    <3>3. x = [i \in 1 .. Len(x) |-> x[i]]
      BY <3>2
    <3>4. ASSUME NEW i \in 1 .. (Len(u) + Len(v))
          PROVE  x[i] = IF i <= Len(u) THEN u[i] ELSE v[i - Len(u)]
      BY Zenon, <2>7, <2>8, <2>9, ConcatAt
    <3> QED BY Zenon, <3>1, <3>2, <3>3, <3>4, <2>7
  <2>11. ASSUME NEW i \in 1 .. L
         PROVE  x[i] = t[i]
    <3>1. CASE i <= d
      <4>1. i \in 1 .. d /\ from + (i - 1) < c
        BY <3>1, <2>4
      <4> QED BY Zenon, <4>1, <3>1, <2>7, <2>10, <1>8, <1>10
    <3>2. CASE ~(i <= d)
      <4>1. i - d \in 1 .. to /\ from + (i - 1) >= c /\ from + i - 1 - c = (i - d) - 1
        BY <3>2, <2>1, <2>4
      <4>2. v[i - d] = r.arr[(i - d) - 1]
        BY Zenon, <4>1, <2>8
      <4>3. r.arr[from + i - 1 - c] = h[a + i]
        BY Zenon, <4>1, <1>8
      <4> QED BY Zenon, <4>1, <4>2, <4>3, <3>2, <2>10, <1>10
    <3> QED BY Zenon, <3>1, <3>2
  <2>12. x = t
    BY Zenon, <2>10, <2>11, <1>10
  <2> QED BY Zenon, <2>1, <2>2, <2>3, <2>9, <2>12, <1>2, <1>6, <1>9
<1> QED
  <2>1. from + L < c \/ from + L >= c
    OBVIOUS
  <2> QED BY Zenon, <2>1, <1>11, <1>12

\* The first event of a history not below a revision, from a given place on.
FirstFrom(h, o, rev, m) ==
  /\ m \in o .. Len(h) /\ h[m] >= rev
  /\ \A n \in o .. Len(h) : h[n] >= rev => m <= n

\* What FindEvents answers.
LEMMA CacheFind ==
  ASSUME NEW r, NEW h \in Seq(Nat), CacheRight(r, h), Asc(h), NEW rev \in Nat
  PROVE  /\ h = <<>> => FindEvents(r, rev) = [kind |-> "empty", events |-> <<>>]
         /\ h # <<>> =>
              /\ r.s + 1 \in 1 .. Len(h) /\ Newest(r) = h[Len(h)]
              /\ rev > h[Len(h)] => FindEvents(r, rev) = [kind |-> "high", events |-> <<>>]
              /\ ~(rev > h[Len(h)]) /\ rev < h[r.s + 1]
                   => FindEvents(r, rev) = [kind |-> "low", events |-> <<>>]
              /\ ~(rev > h[Len(h)]) /\ ~(rev < h[r.s + 1])
                   => \E m \in 1 .. Len(h) :
                        /\ FirstFrom(h, r.s + 1, rev, m)
                        /\ FindEvents(r, rev) = [kind |-> "found", events |-> SubSeq(h, m, Len(h))]
<1>1. /\ r.s \in Nat /\ r.e \in Nat /\ r.arr \in [0 .. (CacheSize - 1) -> Nat]
      /\ r.e = Len(h)
      /\ r.s = IF Len(h) > CacheSize THEN Len(h) - CacheSize ELSE 0
      /\ \A n \in r.s + 1 .. r.e : r.arr[Index(n - 1)] = h[n]
  BY DEF CacheRight, Rings
<1>2. CASE h = <<>>
  <2>1. r.e = 0
    BY <1>1, <1>2
  <2> QED BY Zenon, <1>2, <2>1 DEF FindEvents, IsEmpty
<1>3. CASE h # <<>>
  <2>1. PICK s, e \in Nat : s = r.s /\ e = r.e
    BY Zenon, <1>1
  <2>2. e >= 1 /\ e = Len(h)
    BY <1>1, <1>3, <2>1
  <2>3. s = IF e > CacheSize THEN e - CacheSize ELSE 0
    BY Zenon, <2>1, <1>1
  <2>4. s < e /\ s + 1 \in 1 .. e /\ s + 1 \in s + 1 .. e /\ e \in s + 1 .. e /\ s + 1 - 1 = s
    BY <2>2, <2>3, CacheAssumption
  <2>5. \A n \in s + 1 .. e : r.arr[Index(n - 1)] = h[n]
    BY Zenon, <2>1, <1>1
  <2>6. Newest(r) = h[e] /\ Oldest(r) = h[s + 1]
    <3>1. Newest(r) = h[e]
      BY Zenon, <2>1, <2>4, <2>5 DEF Newest
    <3>2. PICK n \in s + 1 .. e : n = s + 1 /\ n - 1 = s
      BY <2>4
    <3>3. r.arr[Index(n - 1)] = h[n]
      BY Zenon, <2>5
    <3>4. Oldest(r) = h[s + 1]
      BY Zenon, <3>2, <3>3, <2>1 DEF Oldest
    <3> QED BY Zenon, <3>1, <3>4
  <2>7. ~IsEmpty(r)
    BY <2>1, <2>2 DEF IsEmpty
  <2>8. /\ rev > h[e] => FindEvents(r, rev) = [kind |-> "high", events |-> <<>>]
        /\ ~(rev > h[e]) /\ rev < h[s + 1]
             => FindEvents(r, rev) = [kind |-> "low", events |-> <<>>]
        /\ ~(rev > h[e]) /\ ~(rev < h[s + 1])
             => FindEvents(r, rev) =
                  [kind |-> "found", events |-> CachedFrom(r, Search(r, rev))]
    BY Zenon, <2>6, <2>7 DEF FindEvents
  <2>9. ASSUME ~(rev > h[e]), ~(rev < h[s + 1])
        PROVE  \E m \in 1 .. Len(h) :
                 /\ FirstFrom(h, r.s + 1, rev, m)
                 /\ CachedFrom(r, Search(r, rev)) = SubSeq(h, m, Len(h))
    <3> DEFINE found(i) == r.arr[Index(r.s + i)] >= rev
               A == {i \in 0 .. (e - s - 1) : found(i)}
    <3>1. \A i \in 0 .. (e - s - 1) : found(i) <=> h[s + i + 1] >= rev
      <4> SUFFICES ASSUME NEW i \in 0 .. (e - s - 1)
                   PROVE  r.arr[Index(s + i)] = h[s + i + 1]
        BY Zenon, <2>1
      <4>1. PICK n \in s + 1 .. e : n = s + i + 1 /\ n - 1 = s + i
        <5>1. s + i + 1 \in s + 1 .. e /\ s + i + 1 - 1 = s + i
          BY <2>4
        <5> QED BY <5>1
      <4>2. r.arr[Index(n - 1)] = h[n]
        BY Zenon, <2>5
      <4> QED BY <4>1, <4>2
    <3> HIDE DEF found
    <3>2. e - s - 1 \in A
      <4>1. e - s - 1 \in 0 .. (e - s - 1) /\ s + (e - s - 1) + 1 = e
        BY <2>4
      <4>2. h[e] >= rev
        <5>1. h[e] \in Nat
          BY <2>2
        <5> QED BY <2>9, <5>1
      <4>3. h[s + (e - s - 1) + 1] >= rev
        BY Zenon, <4>1, <4>2
      <4> QED BY Zenon, <4>1, <4>3, <3>1
    <3>3. PICK i \in A : \A j \in A : i <= j
      <4>1. A \subseteq Nat
        OBVIOUS
      <4> HIDE DEF A
      <4> QED BY Zenon, <4>1, <3>2, LeastOf
    <3>4. i \in 0 .. (e - s - 1) /\ found(i)
      BY Zenon
    <3>5. \A j \in 0 .. (e - s - 1) : found(j) => i <= j
      BY Zenon, <3>3
    <3> HIDE DEF A
    <3>6. Search(r, rev) = i
      <4>1. PICK n \in Nat : n = e - s /\ n = r.e - r.s
        <5>1. e - s \in Nat /\ e - s = r.e - r.s
          BY <2>1, <2>4
        <5> QED BY Zenon, <5>1
      <4> DEFINE fits(x) == (x < n => found(x)) /\ \A j \in 0 .. (x - 1) : ~found(j)
      <4>2. Search(r, rev) = CHOOSE x \in 0 .. n : fits(x)
        BY Zenon, <4>1 DEF Search, found
      <4>3. i \in 0 .. n /\ i < n
        BY <3>4, <4>1
      <4>4. \A j \in 0 .. (i - 1) : j \in 0 .. (e - s - 1) /\ ~(i <= j)
        BY <3>4
      <4>5. fits(i)
        BY Zenon, <3>4, <3>5, <4>4
      <4>6. ASSUME NEW x \in 0 .. n, fits(x)
            PROVE  x = i
        <5>1. CASE x < i
          <6>1. x < n /\ x \in 0 .. (e - s - 1) /\ ~(i <= x)
            BY <4>3, <4>1, <5>1
          <6> QED BY Zenon, <6>1, <4>6, <3>5
        <5>2. CASE i < x
          <6>1. i \in 0 .. (x - 1)
            BY <4>3, <5>2
          <6> QED BY Zenon, <6>1, <4>6, <3>4
        <5> QED BY <4>3, <5>1, <5>2
      <4> HIDE DEF fits
      <4> QED BY Zenon, <4>2, <4>3, <4>5, <4>6
    <3>7. PICK m \in 1 .. e : m = s + i + 1
      <4>1. s + i + 1 \in 1 .. e
        BY <3>4, <2>4
      <4> QED BY Zenon, <4>1
    <3>8. CachedFrom(r, i) = SubSeq(h, m, Len(h))
      <4>1. i \in 0 .. (r.e - r.s - 1)
        BY Zenon, <3>4, <2>1
      <4> QED BY Zenon, <4>1, <3>7, <2>1, CacheSlices
    <3>9. FirstFrom(h, r.s + 1, rev, m)
      <4>1. m \in s + 1 .. e
        BY <3>4, <3>7
      <4>2. h[m] >= rev
        BY Zenon, <3>1, <3>4, <3>7
      <4>3. ASSUME NEW n \in s + 1 .. e, h[n] >= rev
            PROVE  m <= n
        <5>1. PICK j \in 0 .. (e - s - 1) : s + j + 1 = n
          <6>1. n - s - 1 \in 0 .. (e - s - 1) /\ s + (n - s - 1) + 1 = n
            BY <2>4
          <6> QED BY Zenon, <6>1
        <5>2. i <= j
          BY Zenon, <5>1, <4>3, <3>1, <3>5
        <5> QED BY <5>1, <5>2, <3>4, <3>7
      <4> QED BY Zenon, <4>1, <4>2, <4>3, <2>1, <2>2 DEF FirstFrom
    <3> QED BY Zenon, <3>6, <3>7, <3>8, <3>9, <2>2
  <2>10. r.s + 1 \in 1 .. Len(h)
    BY Zenon, <2>1, <2>2, <2>4
  <2>11. h[e] = h[Len(h)] /\ h[s + 1] = h[r.s + 1]
    BY Zenon, <2>1, <2>2
  <2> QED BY Zenon, <1>3, <2>6, <2>8, <2>9, <2>10, <2>11
<1> QED BY Zenon, <1>2, <1>3

-----------------------------------------------------------------------------
(* What keeps the part of the invariant that is about one watcher.         *)

\* An event after all others is added to the batch.
LEMMA RightAdd ==
  ASSUME NEW x, NEW o, NEW q, NEW P, NEW H \in SUBSET Nat, NEW live,
         WatcherRight(x, o, q, P, H, live),
         NEW a \in Nat, Below(H, {a})
  PROVE  WatcherRight(x, o, q, P \cup {a}, H \cup {a}, live)
<1>1. PICK F : F = Queued(q) \cup P
  BY Zenon
<1>2. PICK G : G = F \cup {a}
  BY Zenon
<1>3. PICK J : J = H \cup {a}
  BY Zenon
<1>4. G = Queued(q) \cup (P \cup {a})
  BY Zenon, <1>1, <1>2
<1>5. \A e \in H : e < a /\ ~(a <= e)
  <2>1. \A e \in H : e < a
    BY Zenon DEF Below
  <2> QED BY <2>1
<1>6. Range(o) \subseteq AskedFor(x, J) /\ Range(o) \subseteq H
  BY Zenon, <1>3 DEF WatcherRight, AskedFor
<1>7. Queued(q) \subseteq J /\ Below(Queued(q), P \cup {a})
  BY Zenon, <1>3, <1>5 DEF WatcherRight, Below
<1>8. ASSUME Upward(F, H)
      PROVE  Upward(G, J)
  BY Zenon, <1>8, <1>2, <1>3, <1>5 DEF Upward
<1>9. Wants(x, F) \subseteq Wants(x, G) /\ Wants(x, G) \subseteq Wants(x, F) \cup {a}
  BY Zenon, <1>2 DEF Wants
<1>10. AskedFor(x, H) \subseteq AskedFor(x, J) /\ AskedFor(x, J) \subseteq AskedFor(x, H) \cup {a}
  BY Zenon, <1>3 DEF AskedFor
<1>11. ASSUME x.step = "serving"
       PROVE  /\ x.from = x.req \/ \E e \in J : x.from = e + 1
              /\ Below(Range(o), Wants(x, G))
              /\ live => GotRight(x, o, G, J)
  <2>1. /\ x.from >= x.req
        /\ x.from = x.req \/ \E e \in H : x.from = e + 1
        /\ Below(Range(o), Wants(x, F))
        /\ live => GotRight(x, o, F, H)
    BY Zenon, <1>1, <1>11 DEF WatcherRight
  <2>2. x.from = x.req \/ \E e \in J : x.from = e + 1
    BY Zenon, <2>1, <1>3
  <2>3. Below(Range(o), Wants(x, G))
    BY Zenon, <2>1, <1>5, <1>6, <1>9 DEF Below
  <2>4. x.req \in Nat /\ x.from \in Nat
    BY DEF WatcherRight, WatchRecords
  <2>5. a >= x.from <=> a >= x.req
    <3>1. CASE x.from = x.req
      BY Zenon, <3>1
    <3>2. CASE \E e \in H : x.from = e + 1
      <4>1. PICK e \in H : x.from = e + 1
        BY Zenon, <3>2
      <4>2. e \in Nat /\ e < a
        BY Zenon, <1>5
      <4>3. x.from >= x.req
        BY Zenon, <1>11 DEF WatcherRight
      <4> QED BY <4>1, <4>2, <4>3, <2>4
    <3> QED BY Zenon, <2>1, <3>1, <3>2
  <2>6. a \in Wants(x, G) <=> a \in AskedFor(x, J)
    BY Zenon, <2>5, <1>2, <1>3 DEF Wants, AskedFor
  <2>7. ASSUME GotRight(x, o, F, H)
        PROVE  GotRight(x, o, G, J)
    <3>1. CASE x.req > 0
      <4>1. Range(o) \cup Wants(x, F) = AskedFor(x, H)
        BY Zenon, <3>1, <2>7 DEF GotRight
      <4>2. Range(o) \cup Wants(x, G) = AskedFor(x, J)
        BY Zenon, <4>1, <2>6, <1>6, <1>9, <1>10
      <4> QED BY Zenon, <3>1, <4>2 DEF GotRight
    <3>2. CASE ~(x.req > 0)
      <4>1. Upward(Range(o) \cup Wants(x, F), AskedFor(x, H))
        BY Zenon, <3>2, <2>7 DEF GotRight
      <4>2. ASSUME NEW e \in Range(o) \cup Wants(x, G), NEW f \in AskedFor(x, J), e <= f
            PROVE  f \in Range(o) \cup Wants(x, G)
        <5>1. CASE f = a
          BY Zenon, <5>1, <2>6
        <5>2. CASE f # a
          <6>1. f \in AskedFor(x, H) /\ f \in H
            BY Zenon, <5>2, <1>3 DEF AskedFor
          <6>2. e # a
            BY Zenon, <6>1, <4>2, <1>5
          <6> QED BY Zenon, <6>1, <6>2, <4>1, <4>2, <1>9 DEF Upward
        <5> QED BY Zenon, <5>1, <5>2
      <4> QED BY Zenon, <3>2, <4>2 DEF GotRight, Upward
    <3> QED BY Zenon, <3>1, <3>2
  <2> QED BY Zenon, <2>1, <2>2, <2>3, <2>7
<1>12. ASSUME live, x.step \in {"added", "empty"}
       PROVE  Upward(G, J)
  BY Zenon, <1>12, <1>8, <1>1 DEF WatcherRight
<1> QED BY <1>3, <1>4, <1>6, <1>7, <1>11, <1>12 DEF WatcherRight

\* A registration ends, or a batch is dropped.
LEMMA RightDead ==
  ASSUME NEW x, NEW o, NEW q, NEW P, NEW Q \in SUBSET P, NEW H, NEW live,
         WatcherRight(x, o, q, P, H, live)
  PROVE  WatcherRight(x, o, q, Q, H, FALSE)
<1>1. Below(Queued(q), Q)
  BY Zenon DEF WatcherRight, Below
<1>2. Wants(x, Queued(q) \cup Q) \subseteq Wants(x, Queued(q) \cup P)
  BY Zenon DEF Wants
<1>3. x.step = "serving" => Below(Range(o), Wants(x, Queued(q) \cup Q))
  BY Zenon, <1>2 DEF WatcherRight, Below
<1> QED BY <1>1, <1>3 DEF WatcherRight

\* A batch passes from the channel of the hub to that of the watcher.
LEMMA RightStream ==
  ASSUME NEW x, NEW o, NEW q, NEW P, NEW H, NEW live, WatcherRight(x, o, q, P, H, live),
         x.step # "off",
         NEW b \in Seq(Nat), NEW Q, Asc(b), P = Range(b) \cup Q, Below(Range(b), Q), P \subseteq H
  PROVE  WatcherRight(x, o, Append(q, b), Q, H, live)
<1>1. q \in Seq(Seq(Nat)) /\ Sorted(q) /\ Queued(q) \subseteq H /\ Below(Queued(q), P)
  BY Zenon DEF WatcherRight
<1>2. PICK t : t = Append(q, b)
  BY Zenon
<1>3. Below(Queued(q), Range(b))
  BY Zenon, <1>1 DEF Below
<1>4. t \in Seq(Seq(Nat)) /\ Queued(t) = Queued(q) \cup Range(b) /\ Sorted(t)
  BY Zenon, <1>1, <1>2, <1>3, QueueAppend
<1>5. Queued(t) \subseteq H /\ Below(Queued(t), Q)
  BY Zenon, <1>1, <1>4 DEF Below
<1>6. Queued(t) \cup Q = Queued(q) \cup P
  BY Zenon, <1>4
<1> QED BY <1>2, <1>4, <1>5, <1>6 DEF WatcherRight

\* A watcher is registered.
LEMMA RightAdded ==
  ASSUME NEW x, NEW o, NEW q, NEW P, NEW H, NEW live, WatcherRight(x, o, q, P, H, live),
         x.step = "off", Upward(P, H),
         NEW y \in WatchRecords, y.step = "added", NEW now
  PROVE  WatcherRight(y, o, q, P, H, now)
<1>1. q = <<>> /\ o = <<>>
  BY DEF WatcherRight
<1>2. Queued(q) = {} /\ Range(o) = {}
  BY Zenon, <1>1, EmptyRange
<1>3. Queued(q) \cup P = P
  BY Zenon, <1>2
<1> QED BY <1>1, <1>2, <1>3 DEF WatcherRight

\* The cache is empty; or the request is refused, or its channel closed.
LEMMA RightStep ==
  ASSUME NEW x, NEW o, NEW q, NEW P, NEW H, NEW live, WatcherRight(x, o, q, P, H, live),
         NEW y \in WatchRecords, y.req = x.req,
         \/ x.step = "added" /\ y.step = "empty"
         \/ y.step \in {"refused", "closed"}
  PROVE  WatcherRight(y, o, q, P, H, live)
<1>1. AskedFor(y, H) = AskedFor(x, H)
  BY Zenon DEF AskedFor
<1> QED BY <1>1 DEF WatcherRight

\* A request for "from now" goes on with the live events.
LEMMA RightNow ==
  ASSUME NEW x, NEW o, NEW q, NEW P, NEW H \in SUBSET Nat, NEW live,
         WatcherRight(x, o, q, P, H, live),
         x.step = "added", P \subseteq H,
         NEW y \in WatchRecords, y.step = "serving", x.req = 0, y.req = 0, y.from = 0
  PROVE  WatcherRight(y, o, q, P, H, live)
<1>1. o = <<>> /\ Queued(q) \subseteq H /\ (live => Upward(Queued(q) \cup P, H))
  BY DEF WatcherRight
<1>2. Range(o) = {}
  BY Zenon, <1>1, EmptyRange
<1>3. PICK F : F = Queued(q) \cup P
  BY Zenon
<1>4. F \subseteq H /\ \A e \in F : e >= y.from
  <2>1. F \subseteq H
    BY Zenon, <1>1, <1>3
  <2>2. \A e \in Nat : e >= 0
    OBVIOUS
  <2> QED BY Zenon, <2>1, <2>2
<1>5. ASSUME Upward(F, H)
      PROVE  Upward(Range(o) \cup Wants(y, F), AskedFor(y, H))
  BY Zenon, <1>5, <1>2, <1>4 DEF Upward, Wants, AskedFor
<1>6. ~(y.req > 0) /\ y.from >= y.req
  OBVIOUS
<1>7. live => GotRight(y, o, F, H)
  BY Zenon, <1>1, <1>3, <1>5, <1>6 DEF GotRight
<1>8. Below(Range(o), Wants(y, F)) /\ Range(o) \subseteq AskedFor(y, H)
  BY Zenon, <1>2 DEF Below
<1> QED BY <1>3, <1>6, <1>7, <1>8 DEF WatcherRight

\* A request gets what there is of the events it asked for, and goes on with the
\* live events after all of these.
LEMMA RightKnown ==
  ASSUME NEW x, NEW o, NEW q, NEW P, NEW H \in SUBSET Nat, NEW live,
         WatcherRight(x, o, q, P, H, live),
         P \subseteq H,
         NEW y \in WatchRecords, y.step = "serving", y.req = x.req, y.req > 0, y.from >= y.req,
         y.from = y.req \/ \E e \in H : y.from = e + 1,
         NEW g \in Seq(Nat), Asc(g), Range(g) = AskedFor(x, H),
         \A e \in H : e >= y.from => ~HasPrefix(e)
  PROVE  WatcherRight(y, g, q, P, H, live)
<1>1. Queued(q) \subseteq H
  BY Zenon DEF WatcherRight
<1>2. PICK F : F = Queued(q) \cup P
  BY Zenon
<1>3. Wants(y, F) = {}
  BY Zenon, <1>1, <1>2 DEF Wants
<1>4. Range(g) = AskedFor(y, H)
  BY Zenon DEF AskedFor
<1>5. GotRight(y, g, F, H) /\ Below(Range(g), Wants(y, F))
  BY Zenon, <1>3, <1>4 DEF GotRight, Below
<1>6. /\ q \in Seq(Seq(Nat)) /\ Sorted(q) /\ Queued(q) \subseteq H /\ Below(Queued(q), P)
      /\ ~(y.step \in {"off", "added", "empty"}) /\ y.step # "off"
  BY DEF WatcherRight
<1> QED BY Zenon, <1>2, <1>4, <1>5, <1>6 DEF WatcherRight

\* A batch is read from the channel and what is wanted of it handed to the client.
LEMMA RightProcess ==
  ASSUME NEW x, NEW o, NEW q, NEW P, NEW H \in SUBSET Nat, NEW live,
         WatcherRight(x, o, q, P, H, live),
         x.step = "serving", q # <<>>
  PROVE  WatcherRight(x, o \o WithPrefix(FilterByRevision(Head(q), x.from)), Tail(q), P, H, live)
<1>1. /\ x \in WatchRecords
      /\ o \in Seq(Nat) /\ Asc(o) /\ Range(o) \subseteq AskedFor(x, H)
      /\ q \in Seq(Seq(Nat)) /\ Sorted(q) /\ Queued(q) \subseteq H /\ Below(Queued(q), P)
      /\ x.from >= x.req
      /\ x.from = x.req \/ \E e \in H : x.from = e + 1
      /\ Below(Range(o), Wants(x, Queued(q) \cup P))
      /\ live => GotRight(x, o, Queued(q) \cup P, H)
  BY Zenon DEF WatcherRight
<1>2. PICK b, t : b = Head(q) /\ t = Tail(q)
  BY Zenon
<1>3. /\ b \in Seq(Nat) /\ t \in Seq(Seq(Nat)) /\ Queued(q) = Range(b) \cup Queued(t)
      /\ Asc(b) /\ Sorted(t) /\ Below(Range(b), Queued(t))
  BY Zenon, <1>1, <1>2, QueueTail
<1>4. x.from \in Nat /\ x.req \in Nat
  BY <1>1 DEF WatchRecords
<1>5. PICK g : g = WithPrefix(FilterByRevision(b, x.from))
  BY Zenon
<1>6. g \in Seq(Nat) /\ Asc(g) /\ Range(g) = Wants(x, Range(b))
  <2>1. PICK c : c = FilterByRevision(b, x.from)
    BY Zenon
  <2>2. c \in Seq(Nat) /\ Asc(c) /\ Range(c) = {e \in Range(b) : e >= x.from}
    BY Zenon, <2>1, <1>3, <1>4, FilterRange
  <2>3. g \in Seq(Nat) /\ Asc(g) /\ Range(g) = {e \in Range(c) : HasPrefix(e)}
    BY Zenon, <2>1, <2>2, <1>5, PrefixRange
  <2> QED BY Zenon, <2>2, <2>3 DEF Wants
<1>7. PICK F, G : F = Queued(q) \cup P /\ G = Queued(t) \cup P
  BY Zenon
<1>8. Wants(x, F) = Range(g) \cup Wants(x, G) /\ Below(Range(g), Wants(x, G))
  <2>1. Below(Range(b), G)
    BY Zenon, <1>1, <1>3, <1>7 DEF Below
  <2> QED BY Zenon, <2>1, <1>3, <1>6, <1>7 DEF Wants, Below
<1>9. PICK u : u = o \o g
  BY Zenon
<1>10. Below(Range(o), Range(g)) /\ Below(Range(o), Wants(x, G))
  BY Zenon, <1>1, <1>7, <1>8 DEF Below
<1>11. u \in Seq(Nat) /\ Asc(u) /\ Range(u) = Range(o) \cup Range(g)
  BY Zenon, <1>1, <1>6, <1>9, <1>10, ConcatRange
<1>12. Range(u) \subseteq AskedFor(x, H)
  <2>1. \A e \in H : e >= x.from => e >= x.req
    BY <1>1, <1>4
  <2>2. Range(g) \subseteq AskedFor(x, H)
    BY Zenon, <2>1, <1>1, <1>3, <1>6 DEF Wants, AskedFor
  <2> QED BY Zenon, <2>2, <1>1, <1>11
<1>13. Below(Range(u), Wants(x, G))
  BY Zenon, <1>8, <1>10, <1>11 DEF Below
<1>14. Range(u) \cup Wants(x, G) = Range(o) \cup Wants(x, F)
  BY Zenon, <1>8, <1>11
<1>15. live => GotRight(x, u, G, H)
  BY Zenon, <1>1, <1>7, <1>14 DEF GotRight
<1>16. Queued(t) \subseteq H /\ Below(Queued(t), P)
  BY Zenon, <1>1, <1>3 DEF Below
<1>17. ~(x.step \in {"off", "added", "empty"}) /\ x.step # "off"
  OBVIOUS
<1>18. WatcherRight(x, u, t, P, H, live)
  BY Zenon, <1>1, <1>3, <1>7, <1>11, <1>12, <1>13, <1>15, <1>16, <1>17 DEF WatcherRight
<1> QED BY Zenon, <1>2, <1>5, <1>9, <1>18

-----------------------------------------------------------------------------
(* The steps.                                                              *)

\* A step of one watcher, which changes neither the collector nor the channel of
\* the hub.
LEMMA OneWatcher ==
  ASSUME WatchInv, UNCHANGED <<collectVars, watchChan, overrun>>, NEW w \in Watchers,
         subs' \subseteq Watchers, deleting' \subseteq Watchers,
         watch' = [v \in Watchers |-> watch'[v]],
         out' = [v \in Watchers |-> out'[v]],
         sub' = [v \in Watchers |-> sub'[v]],
         \A v \in Watchers \ {w} :
           /\ watch'[v] = watch[v] /\ out'[v] = out[v]
           /\ sub'[v] = sub[v] /\ (v \in subs' <=> v \in subs),
         WatcherRight(watch'[w], out'[w], sub'[w], InFlight, Range(history), w \in subs' \ overrun),
         w \in subs' => watch'[w].step # "off"
  PROVE  WatchInv'
<1>1. CollectRight'
  BY Zenon DEF WatchInv, CollectRight, collectVars
<1>2. InFlight' = InFlight /\ Range(history)' = Range(history)
  BY Zenon DEF InFlight, collectVars
<1>3. ChanRight'
  BY Zenon, <1>2 DEF WatchInv, ChanRight, collectVars
<1>4. ASSUME NEW v \in Watchers
      PROVE  WatcherRight(watch[v], out[v], sub[v], InFlight, Range(history), v \in subs \ overrun)'
  <2>1. CASE v = w
    <3>1. overrun' = overrun
      OBVIOUS
    <3> QED BY Zenon, <2>1, <3>1, <1>2
  <2>2. CASE v # w
    <3>1. (v \in subs' \ overrun') = (v \in subs \ overrun)
      <4>1. (v \in subs' <=> v \in subs) /\ overrun' = overrun
        BY Zenon, <2>2
      <4>2. v \in subs' \ overrun' <=> v \in subs \ overrun
        BY Zenon, <4>1
      <4> HIDE <4>1
      <4> QED BY SMT, <4>2
    <3>2. WatcherRight(watch[v], out[v], sub[v], InFlight, Range(history), v \in subs \ overrun)
      BY Zenon DEF WatchInv, HubRight
    <3>3. watch'[v] = watch[v] /\ out'[v] = out[v] /\ sub'[v] = sub[v]
      BY Zenon, <2>2
    <3> QED BY Zenon, <3>1, <3>2, <3>3, <1>2
  <2> QED BY Zenon, <2>1, <2>2
<1>5. ASSUME NEW v \in subs'
      PROVE  watch'[v].step # "off"
  <2>1. CASE v = w
    BY Zenon, <2>1, <1>5
  <2>2. CASE v # w
    BY Zenon, <2>2, <1>5 DEF WatchInv, HubRight
  <2> QED BY Zenon, <2>1, <2>2
<1>6. overrun' \subseteq Watchers
  BY Zenon DEF WatchInv, HubRight
<1>7. HubRight'
  BY Zenon, <1>4, <1>5, <1>6 DEF HubRight
<1> QED BY Zenon, <1>1, <1>3, <1>7 DEF WatchInv

\* The revision of a write is committed.
LEMMA StepCommitInvalid ==
  ASSUME WatchInv, CommitInvalid
  PROVE  WatchInv'
<1>1. committed' = committed + 1 /\ adding = 0
      /\ UNCHANGED <<adding, cache, batch, history, hubVars, clientVars>>
  BY Zenon DEF CommitInvalid
<1>2. CollectRight'
  <2>1. /\ committed \in Nat /\ adding \in Nat /\ history \in Seq(Nat) /\ Asc(history)
        /\ CacheRight(cache, history) /\ \A e \in Range(history) : e \in 1 .. committed
    BY Zenon DEF WatchInv, CollectRight
  <2>2. committed' \in Nat /\ \A e \in 1 .. committed : e \in 1 .. committed'
    BY <1>1, <2>1
  <2> QED BY Zenon, <1>1, <2>1, <2>2 DEF CollectRight
<1>3. InFlight' = InFlight /\ Range(history)' = Range(history)
  BY Zenon, <1>1 DEF InFlight, hubVars
<1>4. ChanRight'
  BY Zenon, <1>1, <1>3 DEF WatchInv, ChanRight, hubVars
<1>5. HubRight'
  BY Zenon, <1>1, <1>3 DEF WatchInv, HubRight, hubVars, clientVars
<1> QED BY Zenon, <1>2, <1>4, <1>5 DEF WatchInv

\* A revision committed with an event: the event is above all in the cache.
LEMMA StepCommitValid ==
  ASSUME WatchInv, CommitValid
  PROVE  WatchInv'
<1>1. committed' = committed + 1 /\ adding' = committed + 1
      /\ UNCHANGED <<cache, batch, history, hubVars, clientVars>>
  BY Zenon DEF CommitValid
<1>2. CollectRight'
  <2>1. /\ committed \in Nat /\ history \in Seq(Nat) /\ Asc(history)
        /\ CacheRight(cache, history) /\ \A e \in Range(history) : e \in 1 .. committed
    BY Zenon DEF WatchInv, CollectRight
  <2>2. /\ committed' \in Nat /\ adding' \in Nat /\ adding' = committed'
        /\ \A e \in 1 .. committed : e \in 1 .. committed' /\ e < adding'
    BY <1>1, <2>1
  <2>3. Below(Range(history), {adding'})
    BY Zenon, <2>1, <2>2 DEF Below
  <2> QED BY Zenon, <1>1, <2>1, <2>2, <2>3 DEF CollectRight
<1>3. InFlight' = InFlight /\ Range(history)' = Range(history)
  BY Zenon, <1>1 DEF InFlight, hubVars
<1>4. ChanRight'
  BY Zenon, <1>1, <1>3 DEF WatchInv, ChanRight, hubVars
<1>5. HubRight'
  BY Zenon, <1>1, <1>3 DEF WatchInv, HubRight, hubVars, clientVars
<1> QED BY Zenon, <1>2, <1>4, <1>5 DEF WatchInv

\* An event joins the batch, the cache and the history.
LEMMA StepAddEvent ==
  ASSUME WatchInv, AddEvent
  PROVE  WatchInv'
<1>1. /\ adding # 0 /\ batch' = Append(batch, adding) /\ cache' = Add(cache, adding)
      /\ history' = Append(history, adding) /\ adding' = 0
      /\ UNCHANGED <<committed, hubVars, clientVars>>
  BY Zenon DEF AddEvent
<1>2. PICK a : a = adding
  BY Zenon
<1>3. /\ committed \in Nat /\ a \in Nat /\ history \in Seq(Nat) /\ Asc(history)
      /\ CacheRight(cache, history) /\ \A e \in Range(history) : e \in 1 .. committed
      /\ a = committed /\ Below(Range(history), {a})
  BY Zenon, <1>1, <1>2 DEF WatchInv, CollectRight
<1>4. PICK h \in Seq(Nat) : h = history
  BY Zenon, <1>3
<1>5. /\ history' \in Seq(Nat) /\ Asc(history') /\ Range(history') = Range(history) \cup {a}
      /\ CacheRight(cache', history')
  <2>1. /\ Append(h, a) \in Seq(Nat) /\ Asc(Append(h, a)) /\ Range(Append(h, a)) = Range(h) \cup {a}
    BY Zenon, <1>3, <1>4, AppendRange
  <2>2. PICK r : r = cache
    BY Zenon
  <2>3. CacheRight(Add(r, a), Append(h, a))
    BY Zenon, <1>3, <1>4, <2>2, CacheAdd
  <2> QED BY Zenon, <1>1, <1>2, <1>4, <2>1, <2>2, <2>3
<1>6. CollectRight'
  <2>1. a \in 1 .. committed
    BY <1>1, <1>2, <1>3
  <2>2. \A e \in Range(history') : e \in 1 .. committed
    BY Zenon, <2>1, <1>3, <1>5
  <2>3. adding' \in Nat /\ ~(adding' # 0)
    BY <1>1
  <2> QED BY Zenon, <2>2, <2>3, <1>1, <1>3, <1>5 DEF CollectRight
<1>7. /\ batch \in Seq(Nat) /\ watchChan \in Seq(Seq(Nat)) /\ Asc(batch) /\ Sorted(watchChan)
      /\ Below(Queued(watchChan), Range(batch))
      /\ InFlight \subseteq Range(history) /\ Upward(InFlight, Range(history))
  BY Zenon DEF WatchInv, ChanRight
<1>8. Below(Range(batch), {a}) /\ Below(Queued(watchChan), {a})
  BY Zenon, <1>3, <1>7 DEF Below, InFlight
<1>9. batch' \in Seq(Nat) /\ Asc(batch') /\ Range(batch') = Range(batch) \cup {a}
  <2>1. PICK b \in Seq(Nat) : b = batch
    BY Zenon, <1>7
  <2>2. /\ Append(b, a) \in Seq(Nat) /\ Asc(Append(b, a)) /\ Range(Append(b, a)) = Range(b) \cup {a}
    BY Zenon, <1>3, <1>7, <1>8, <2>1, AppendRange
  <2> QED BY Zenon, <1>1, <1>2, <2>1, <2>2
<1>10. watchChan' = watchChan
  BY Zenon, <1>1 DEF hubVars
<1>11. InFlight' = InFlight \cup {a}
  BY Zenon, <1>9, <1>10 DEF InFlight
<1>12. \A e \in Range(history) : ~(a <= e)
  <2>1. \A e \in Range(history) : e < a /\ e \in 1 .. committed
    BY Zenon, <1>3 DEF Below
  <2> QED BY <1>3, <2>1
<1>13. ChanRight'
  <2>1. Below(Queued(watchChan'), Range(batch'))
    BY Zenon, <1>7, <1>8, <1>9, <1>10 DEF Below
  <2>2. InFlight' \subseteq Range(history') /\ Upward(InFlight', Range(history'))
    BY Zenon, <1>5, <1>7, <1>11, <1>12 DEF Upward
  <2> QED BY Zenon, <1>7, <1>9, <1>10, <2>1, <2>2 DEF ChanRight
<1>14. ASSUME NEW w \in Watchers
       PROVE  WatcherRight(watch[w], out[w], sub[w], InFlight, Range(history),
                           w \in subs \ overrun)'
  <2>1. PICK x, o, q : x = watch[w] /\ o = out[w] /\ q = sub[w]
    BY Zenon
  <2>2. PICK P, H : P = InFlight /\ H = Range(history)
    BY Zenon
  <2>3. PICK live : live = (w \in subs \ overrun)
    BY Zenon
  <2>4. WatcherRight(x, o, q, P, H, live)
    BY Zenon, <2>1, <2>2, <2>3 DEF WatchInv, HubRight
  <2>5. H \in SUBSET Nat /\ Below(H, {a})
    BY Zenon, <2>2, <1>3, <1>4, InRange
  <2>6. WatcherRight(x, o, q, P \cup {a}, H \cup {a}, live)
    BY Zenon, <2>4, <2>5, <1>3, RightAdd
  <2>7. x = watch'[w] /\ o = out'[w] /\ q = sub'[w] /\ live = (w \in subs' \ overrun')
    BY Zenon, <2>1, <2>3, <1>1 DEF hubVars, clientVars
  <2> QED BY Zenon, <2>2, <2>6, <2>7, <1>5, <1>11
<1>15. HubRight'
  BY Zenon, <1>1, <1>14 DEF WatchInv, HubRight, hubVars, clientVars
<1> QED BY Zenon, <1>6, <1>13, <1>15 DEF WatchInv

\* The batch goes to the hub.
LEMMA StepSendBatch ==
  ASSUME WatchInv, SendBatch
  PROVE  WatchInv'
<1>1. /\ watchChan' = Append(watchChan, batch) /\ batch' = <<>>
      /\ UNCHANGED <<committed, adding, cache, history, sub, subs, deleting, overrun, clientVars>>
  BY Zenon DEF SendBatch
<1>2. CollectRight'
  BY Zenon, <1>1 DEF WatchInv, CollectRight
<1>3. /\ batch \in Seq(Nat) /\ watchChan \in Seq(Seq(Nat)) /\ Asc(batch) /\ Sorted(watchChan)
      /\ Below(Queued(watchChan), Range(batch))
      /\ InFlight \subseteq Range(history) /\ Upward(InFlight, Range(history))
  BY Zenon DEF WatchInv, ChanRight
<1>4. /\ watchChan' \in Seq(Seq(Nat)) /\ Sorted(watchChan')
      /\ Queued(watchChan') = Queued(watchChan) \cup Range(batch)
  <2>1. PICK q \in Seq(Seq(Nat)), b \in Seq(Nat) : q = watchChan /\ b = batch
    BY Zenon, <1>3
  <2>2. /\ Append(q, b) \in Seq(Seq(Nat)) /\ Sorted(Append(q, b))
        /\ Queued(Append(q, b)) = Queued(q) \cup Range(b)
    BY Zenon, <2>1, <1>3, QueueAppend
  <2> QED BY Zenon, <2>1, <2>2, <1>1
<1>5. batch' \in Seq(Nat) /\ Asc(batch') /\ Range(batch') = {}
  <2>1. <<>> \in Seq(Nat)
    OBVIOUS
  <2> QED BY Zenon, <2>1, <1>1, EmptyRange
<1>6. InFlight' = InFlight /\ Range(history') = Range(history)
  BY Zenon, <1>1, <1>4, <1>5 DEF InFlight
<1>7. Below(Queued(watchChan'), Range(batch'))
  BY Zenon, <1>5 DEF Below
<1>8. ChanRight'
  BY Zenon, <1>3, <1>4, <1>5, <1>6, <1>7 DEF ChanRight
<1>9. HubRight'
  BY Zenon, <1>1, <1>6 DEF WatchInv, HubRight, clientVars
<1> QED BY Zenon, <1>2, <1>8, <1>9 DEF WatchInv

\* A batch is offered to every registered channel.
LEMMA StepStream ==
  ASSUME WatchInv, Stream
  PROVE  WatchInv'
<1>1. PICK slow : slow = {w \in subs : Full(w)}
  BY Zenon
<1>2. /\ watchChan # <<>>
      /\ watchChan' = Tail(watchChan)
      /\ sub' = [w \in Watchers |->
           IF w \in subs \ slow THEN Append(sub[w], Head(watchChan)) ELSE sub[w]]
      /\ deleting' = deleting \cup slow
      /\ overrun' = overrun \cup slow
      /\ UNCHANGED <<subs, collectVars, clientVars>>
  BY Zenon, <1>1 DEF Stream
<1>3. CollectRight'
  BY Zenon, <1>2 DEF WatchInv, CollectRight, collectVars
<1>4. /\ batch \in Seq(Nat) /\ watchChan \in Seq(Seq(Nat)) /\ Asc(batch) /\ Sorted(watchChan)
      /\ Below(Queued(watchChan), Range(batch))
      /\ InFlight \subseteq Range(history) /\ Upward(InFlight, Range(history))
  BY Zenon DEF WatchInv, ChanRight
<1>5. PICK b : b = Head(watchChan)
  BY Zenon
<1>6. /\ b \in Seq(Nat) /\ Asc(b) /\ watchChan' \in Seq(Seq(Nat)) /\ Sorted(watchChan')
      /\ Queued(watchChan) = Range(b) \cup Queued(watchChan')
      /\ Below(Range(b), Queued(watchChan'))
  <2>1. PICK q \in Seq(Seq(Nat)) : q = watchChan
    BY Zenon, <1>4
  <2>2. /\ Head(q) \in Seq(Nat) /\ Tail(q) \in Seq(Seq(Nat))
        /\ Queued(q) = Range(Head(q)) \cup Queued(Tail(q))
        /\ Asc(Head(q)) /\ Sorted(Tail(q)) /\ Below(Range(Head(q)), Queued(Tail(q)))
    BY Zenon, <2>1, <1>2, <1>4, QueueTail
  <2> QED BY Zenon, <2>1, <2>2, <1>2, <1>5
<1>7. batch' = batch /\ history' = history
  BY Zenon, <1>2 DEF collectVars
<1>8. InFlight = Range(b) \cup InFlight' /\ Below(Range(b), InFlight')
  BY Zenon, <1>4, <1>6, <1>7 DEF InFlight, Below
<1>9. ChanRight'
  <2>1. Below(Queued(watchChan'), Range(batch'))
    BY Zenon, <1>4, <1>6, <1>7 DEF Below
  <2>2. InFlight' \subseteq Range(history') /\ InFlight \subseteq Nat
    BY Zenon, <1>4, <1>7, <1>8, InQueue, InRange DEF InFlight
  <2>3. ASSUME NEW e \in InFlight', NEW f \in Range(history'), e <= f
        PROVE  f \in InFlight'
    <3>1. f \in InFlight
      BY Zenon, <2>3, <1>4, <1>7, <1>8 DEF Upward
    <3>2. e \in Nat /\ f \in Nat
      BY Zenon, <3>1, <2>2, <1>8
    <3>3. ~(f < e)
      BY <2>3, <3>2
    <3> QED BY Zenon, <3>1, <3>3, <1>8 DEF Below
  <2> QED BY Zenon, <2>1, <2>2, <2>3, <1>4, <1>6, <1>7 DEF ChanRight, Upward
<1>10. ASSUME NEW w \in Watchers
       PROVE  WatcherRight(watch[w], out[w], sub[w], InFlight, Range(history),
                           w \in subs \ overrun)'
  <2>1. PICK x, o, q : x = watch[w] /\ o = out[w] /\ q = sub[w]
    BY Zenon
  <2>2. PICK P, Q, H : P = InFlight /\ Q = InFlight' /\ H = Range(history)
    BY Zenon
  <2>3. PICK live : live = (w \in subs \ overrun)
    BY Zenon
  <2>4. WatcherRight(x, o, q, P, H, live)
    BY Zenon, <2>1, <2>2, <2>3 DEF WatchInv, HubRight
  <2>5. x = watch'[w] /\ o = out'[w]
    BY Zenon, <2>1, <1>2 DEF clientVars
  <2>6. CASE w \in subs \ slow
    <3>1. sub'[w] = Append(q, b)
      BY Zenon, <2>1, <2>6, <1>2, <1>5
    <3>2. x.step # "off"
      BY Zenon, <2>1, <2>6 DEF WatchInv, HubRight
    <3>3. P = Range(b) \cup Q /\ Below(Range(b), Q) /\ P \subseteq H
      BY Zenon, <2>2, <1>4, <1>8
    <3>4. WatcherRight(x, o, Append(q, b), Q, H, live)
      BY Zenon, <2>4, <3>2, <3>3, <1>6, RightStream
    <3>5. live = (w \in subs' \ overrun')
      <4>1. w \in subs' \ overrun' <=> w \in subs \ overrun
        BY Zenon, <2>6, <1>2
      <4> QED BY SMT, <4>1, <2>3
    <3> QED BY Zenon, <2>2, <2>5, <3>1, <3>4, <3>5, <1>7
  <2>7. CASE w \notin subs \ slow
    <3>1. sub'[w] = q
      BY Zenon, <2>1, <2>7, <1>2
    <3>2. w \notin subs' \ overrun'
      BY Zenon, <2>7, <1>2
    <3>3. (w \in subs' \ overrun') = FALSE
      BY SMT, <3>2
    <3>4. Q \in SUBSET P
      BY Zenon, <2>2, <1>8
    <3>5. WatcherRight(x, o, q, Q, H, FALSE)
      BY Zenon, <2>4, <3>4, RightDead
    <3> QED BY Zenon, <2>2, <2>5, <3>1, <3>3, <3>5, <1>7
  <2> QED BY Zenon, <2>6, <2>7
<1>11. HubRight'
  <2>1. slow \subseteq subs
    BY Zenon, <1>1
  <2>2. subs' \subseteq Watchers /\ deleting' \subseteq Watchers /\ overrun' \subseteq Watchers
    BY Zenon, <2>1, <1>2 DEF WatchInv, HubRight
  <2>3. sub' = [w \in Watchers |-> sub'[w]]
    BY Zenon, <1>2
  <2>4. watch' = watch /\ out' = out /\ subs' = subs
    BY Zenon, <1>2 DEF clientVars
  <2> QED BY Zenon, <2>2, <2>3, <2>4, <1>10 DEF WatchInv, HubRight
<1> QED BY Zenon, <1>3, <1>9, <1>11 DEF WatchInv

\* What the invariant says of one watcher, and of what it refers to.
LEMMA OfWatcher ==
  ASSUME WatchInv, NEW w \in Watchers
  PROVE  /\ WatcherRight(watch[w], out[w], sub[w], InFlight, Range(history), w \in subs \ overrun)
         /\ InFlight \subseteq Range(history) /\ Upward(InFlight, Range(history))
         /\ Range(history) \in SUBSET Nat
         /\ watch \in [Watchers -> WatchRecords]
         /\ subs \subseteq Watchers /\ deleting \subseteq Watchers
         /\ watch = [v \in Watchers |-> watch[v]]
         /\ out = [v \in Watchers |-> out[v]]
         /\ sub = [v \in Watchers |-> sub[v]]
         /\ w \in subs => watch[w].step # "off"
<1>1. history \in Seq(Nat) /\ InFlight \subseteq Range(history) /\ Upward(InFlight, Range(history))
  BY Zenon DEF WatchInv, CollectRight, ChanRight
<1>2. Range(history) \in SUBSET Nat
  BY Zenon, <1>1, InRange
<1>3. \A v \in Watchers :
        WatcherRight(watch[v], out[v], sub[v], InFlight, Range(history), v \in subs \ overrun)
  BY Zenon DEF WatchInv, HubRight
<1>4. \A v \in Watchers : watch[v] \in WatchRecords
  BY Zenon, <1>3 DEF WatcherRight
<1>5. watch = [v \in Watchers |-> watch[v]]
  BY Zenon DEF WatchInv, HubRight
<1>6. watch \in [Watchers -> WatchRecords]
  BY Zenon, <1>4, <1>5
<1> QED BY Zenon, <1>1, <1>2, <1>3, <1>5, <1>6 DEF WatchInv, HubRight

\* DeleteWatcher.
LEMMA StepDeleteWatcher ==
  ASSUME WatchInv, NEW w \in Watchers, DeleteWatcher(w)
  PROVE  WatchInv'
<1>1. /\ deleting' = deleting \ {w} /\ subs' = subs \ {w}
      /\ UNCHANGED <<watchChan, sub, overrun, collectVars, clientVars>>
  BY Zenon DEF DeleteWatcher
<1>2. watch' = watch /\ out' = out /\ sub' = sub
  BY Zenon, <1>1 DEF clientVars
<1>3. PICK x, o, q, P, H, live :
        /\ x = watch[w] /\ o = out[w] /\ q = sub[w] /\ P = InFlight /\ H = Range(history)
        /\ live = (w \in subs \ overrun)
  BY Zenon
<1>4. WatcherRight(x, o, q, P, H, live)
  BY Zenon, <1>3, OfWatcher
<1>5. WatcherRight(x, o, q, P, H, FALSE)
  <2>1. P \in SUBSET P
    BY Zenon
  <2> QED BY Zenon, <1>4, <2>1, RightDead
<1>6. (w \in subs' \ overrun) = FALSE
  <2>1. w \notin subs'
    BY Zenon, <1>1
  <2> QED BY SMT, <2>1
<1>7. WatcherRight(watch'[w], out'[w], sub'[w], InFlight, Range(history), w \in subs' \ overrun)
  BY Zenon, <1>2, <1>3, <1>5, <1>6
<1>8. subs' \subseteq Watchers /\ deleting' \subseteq Watchers
  BY Zenon, <1>1, OfWatcher
<1>9. /\ watch' = [v \in Watchers |-> watch'[v]]
      /\ out' = [v \in Watchers |-> out'[v]]
      /\ sub' = [v \in Watchers |-> sub'[v]]
  BY Zenon, <1>2, OfWatcher
<1>10. \A v \in Watchers \ {w} :
         /\ watch'[v] = watch[v] /\ out'[v] = out[v]
         /\ sub'[v] = sub[v] /\ (v \in subs' <=> v \in subs)
  BY Zenon, <1>1, <1>2
<1>11. w \notin subs'
  BY Zenon, <1>1
<1>12. UNCHANGED <<collectVars, watchChan, overrun>>
  BY Zenon, <1>1
<1> QED BY Zenon, <1>7, <1>8, <1>9, <1>10, <1>11, <1>12, OneWatcher

\* A step of one watcher that leaves the registry as it is.
LEMMA OneClient ==
  ASSUME WatchInv, NEW w \in Watchers, UNCHANGED <<collectVars, watchChan, overrun, subs>>,
         deleting' \subseteq Watchers,
         NEW y, NEW o, NEW q,
         watch' = [watch EXCEPT ![w] = y],
         out' = [out EXCEPT ![w] = o],
         sub' = [sub EXCEPT ![w] = q],
         y.step # "off",
         WatcherRight(y, o, q, InFlight, Range(history), w \in subs \ overrun)
  PROVE  WatchInv'
<1>1. /\ watch = [v \in Watchers |-> watch[v]]
      /\ out = [v \in Watchers |-> out[v]]
      /\ sub = [v \in Watchers |-> sub[v]]
      /\ subs \subseteq Watchers
  BY Zenon, OfWatcher
<1>2. /\ watch' = [v \in Watchers |-> watch'[v]] /\ watch'[w] = y
      /\ \A v \in Watchers \ {w} : watch'[v] = watch[v]
  BY Zenon, <1>1
<1>3. /\ out' = [v \in Watchers |-> out'[v]] /\ out'[w] = o
      /\ \A v \in Watchers \ {w} : out'[v] = out[v]
  BY Zenon, <1>1
<1>4. /\ sub' = [v \in Watchers |-> sub'[v]] /\ sub'[w] = q
      /\ \A v \in Watchers \ {w} : sub'[v] = sub[v]
  BY Zenon, <1>1
<1>5. subs' = subs
  OBVIOUS
<1>6. WatcherRight(watch'[w], out'[w], sub'[w], InFlight, Range(history), w \in subs' \ overrun)
  BY Zenon, <1>2, <1>3, <1>4, <1>5
<1>7. UNCHANGED <<collectVars, watchChan, overrun>>
  OBVIOUS
<1>8. subs' \subseteq Watchers
  BY Zenon, <1>1, <1>5
<1>9. \A v \in Watchers \ {w} :
        /\ watch'[v] = watch[v] /\ out'[v] = out[v]
        /\ sub'[v] = sub[v] /\ (v \in subs' <=> v \in subs)
  BY Zenon, <1>2, <1>3, <1>4, <1>5
<1>10. watch'[w].step # "off"
  BY Zenon, <1>2
<1> HIDE <1>5
<1> QED BY Zenon, <1>2, <1>3, <1>4, <1>6, <1>7, <1>8, <1>9, <1>10, OneWatcher

\* The record of a watch is updated.
LEMMA ServeRecord ==
  ASSUME NEW w \in Watchers, watch \in [Watchers -> WatchRecords], NEW f \in Nat, Serve(w, f)
  PROVE  \E y \in WatchRecords :
           /\ y.step = "serving" /\ y.req = watch[w].req /\ y.from = f
           /\ watch' = [watch EXCEPT ![w] = y]
<1>1. PICK x \in WatchRecords : x = watch[w]
  BY Zenon
<1>2. PICK y : y = [x EXCEPT !.step = "serving", !.from = f]
  BY Zenon
<1>3. y \in WatchRecords /\ y.step = "serving" /\ y.req = x.req /\ y.from = f
  BY <1>2 DEF WatchRecords
<1>4. watch' = [watch EXCEPT ![w] = y]
  BY <1>1, <1>2 DEF Serve
<1> QED BY Zenon, <1>1, <1>3, <1>4

\* A step of Watch that changes where a request stands and nothing else of it.
LEMMA StepRecord ==
  ASSUME NEW w \in Watchers, watch \in [Watchers -> WatchRecords],
         NEW s \in {"empty", "refused", "closed"}, watch' = [watch EXCEPT ![w].step = s]
  PROVE  \E y \in WatchRecords :
           /\ y.step = s /\ y.req = watch[w].req
           /\ watch' = [watch EXCEPT ![w] = y]
<1>1. PICK x \in WatchRecords : x = watch[w]
  BY Zenon
<1>2. PICK y : y = [x EXCEPT !.step = s]
  BY Zenon
<1>3. y \in WatchRecords /\ y.step = s /\ y.req = x.req
  BY <1>2 DEF WatchRecords
<1>4. watch' = [watch EXCEPT ![w] = y]
  BY <1>1, <1>2
<1> QED BY Zenon, <1>1, <1>3, <1>4

\* AddWatcher.
LEMMA StepAddWatcher ==
  ASSUME WatchInv, NEW w \in Watchers, NEW r \in Requests, AddWatcher(w, r)
  PROVE  WatchInv'
<1>1. /\ watch[w].step = "off" /\ subs' = subs \cup {w}
      /\ watch' = [watch EXCEPT ![w] = [step |-> "added", req |-> r, from |-> r]]
      /\ UNCHANGED <<watchChan, sub, deleting, overrun, out, collectVars>>
  BY Zenon DEF AddWatcher
<1>2. PICK y : y = [step |-> "added", req |-> r, from |-> r]
  BY Zenon
<1>3. y \in WatchRecords /\ y.step = "added" /\ y.step # "off"
  BY <1>2, WatchAssumption DEF WatchRecords
<1>4. PICK x, o, q, P, H, live :
        /\ x = watch[w] /\ o = out[w] /\ q = sub[w] /\ P = InFlight /\ H = Range(history)
        /\ live = (w \in subs \ overrun)
  BY Zenon
<1>5. WatcherRight(x, o, q, P, H, live) /\ Upward(P, H)
  BY Zenon, <1>4, OfWatcher
<1>6. PICK now : now = (w \in subs' \ overrun)
  BY Zenon
<1>7. WatcherRight(y, o, q, P, H, now)
  BY Zenon, <1>1, <1>3, <1>4, <1>5, RightAdded
<1>8. watch' = [watch EXCEPT ![w] = y] /\ out' = out /\ sub' = sub
  BY Zenon, <1>1, <1>2
<1>9. /\ watch = [v \in Watchers |-> watch[v]]
      /\ out = [v \in Watchers |-> out[v]]
      /\ sub = [v \in Watchers |-> sub[v]]
      /\ subs \subseteq Watchers /\ deleting \subseteq Watchers
  BY Zenon, OfWatcher
<1>10. /\ watch' = [v \in Watchers |-> watch'[v]] /\ watch'[w] = y
       /\ \A v \in Watchers \ {w} : watch'[v] = watch[v]
  BY Zenon, <1>8, <1>9
<1>11. WatcherRight(watch'[w], out'[w], sub'[w], InFlight, Range(history), w \in subs' \ overrun)
  BY Zenon, <1>4, <1>6, <1>7, <1>8, <1>10
<1>12. subs' \subseteq Watchers /\ deleting' \subseteq Watchers
  BY Zenon, <1>1, <1>9
<1>13. /\ out' = [v \in Watchers |-> out'[v]]
       /\ sub' = [v \in Watchers |-> sub'[v]]
  BY Zenon, <1>8, <1>9
<1>14. \A v \in Watchers \ {w} :
         /\ watch'[v] = watch[v] /\ out'[v] = out[v]
         /\ sub'[v] = sub[v] /\ (v \in subs' <=> v \in subs)
  BY Zenon, <1>1, <1>8, <1>10
<1>15. watch'[w].step # "off"
  BY Zenon, <1>3, <1>10
<1>16. UNCHANGED <<collectVars, watchChan, overrun>>
  BY Zenon, <1>1
<1> QED BY Zenon, <1>10, <1>11, <1>12, <1>13, <1>14, <1>15, <1>16, OneWatcher

\* A step of one watcher that gives its client nothing.
LEMMA OnlyWatch ==
  ASSUME WatchInv, NEW w \in Watchers,
         UNCHANGED <<collectVars, watchChan, overrun, subs, sub, out>>,
         deleting' \subseteq Watchers,
         NEW y, watch' = [watch EXCEPT ![w] = y], y.step # "off",
         WatcherRight(y, out[w], sub[w], InFlight, Range(history), w \in subs \ overrun)
  PROVE  WatchInv'
<1>1. PICK o, q : o = out[w] /\ q = sub[w]
  BY Zenon
<1>2. out' = [out EXCEPT ![w] = o]
  <2>1. out = [out EXCEPT ![w] = out[w]]
    <3>1. out = [v \in Watchers |-> out[v]]
      BY Zenon, OfWatcher
    <3> QED BY <3>1
  <2> QED BY Zenon, <1>1, <2>1
<1>3. sub' = [sub EXCEPT ![w] = q]
  <2>1. sub = [sub EXCEPT ![w] = sub[w]]
    <3>1. sub = [v \in Watchers |-> sub[v]]
      BY Zenon, OfWatcher
    <3> QED BY <3>1
  <2> QED BY Zenon, <1>1, <2>1
<1>4. UNCHANGED <<collectVars, watchChan, overrun, subs>>
  BY Zenon
<1>5. WatcherRight(y, o, q, InFlight, Range(history), w \in subs \ overrun)
  BY Zenon, <1>1
<1> QED BY Zenon, <1>2, <1>3, <1>4, <1>5, OneClient

\* What the answers of the cache mean.
LEMMA CacheAnswer ==
  ASSUME NEW r, NEW h \in Seq(Nat), CacheRight(r, h), Asc(h), NEW rev \in Nat,
         NEW ret, ret = FindEvents(r, rev)
  PROVE  /\ ret.kind = "high" => \A e \in Range(h) : ~(e >= rev)
         /\ ret.kind = "found" =>
              /\ ret.events \in Seq(Nat) /\ Asc(ret.events)
              /\ Range(ret.events) = {e \in Range(h) : e >= rev}
              /\ Newest(r) \in Range(h) /\ Newest(r) \in Nat /\ rev <= Newest(r)
              /\ \A e \in Range(h) : e <= Newest(r)
<1>1. PICK none : none = <<>>
  BY Zenon
<1>2. CASE h = <<>>
  <2>1. ret = [kind |-> "empty", events |-> none]
    BY Zenon, <1>1, <1>2, CacheFind
  <2>2. ret.kind # "high" /\ ret.kind # "found"
    BY <2>1
  <2> QED BY Zenon, <2>2
<1>3. CASE h # <<>>
  <2>1. PICK l \in Nat : l = Len(h)
    BY Zenon, InRange
  <2>2. PICK s : s = r.s + 1
    BY Zenon
  <2>3. /\ s \in 1 .. l /\ Newest(r) = h[l]
        /\ rev > h[l] => ret = [kind |-> "high", events |-> none]
        /\ ~(rev > h[l]) /\ rev < h[s] => ret = [kind |-> "low", events |-> none]
        /\ ~(rev > h[l]) /\ ~(rev < h[s])
             => \E m \in 1 .. l :
                  /\ FirstFrom(h, s, rev, m)
                  /\ ret = [kind |-> "found", events |-> SubSeq(h, m, l)]
    BY Zenon, <1>1, <1>3, <2>1, <2>2, CacheFind
  <2>4. \A i, j \in 1 .. l : i < j => h[i] < h[j]
    <3>1. DOMAIN h = 1 .. l
      BY Zenon, <2>1, InRange
    <3> QED BY Zenon, <3>1 DEF Asc
  <2>5. \A i \in 1 .. l : h[i] \in Nat
    BY <2>1
  <2>6. l \in 1 .. l
    BY <2>3
  <2>7. ASSUME NEW e \in Range(h)
        PROVE  e <= h[l] /\ e \in Nat
    <3>1. PICK i \in 1 .. l : h[i] = e
      BY Zenon, <2>1, InRange
    <3>2. i = l \/ i < l
      OBVIOUS
    <3>3. e = h[l] \/ e < h[l]
      BY Zenon, <3>1, <3>2, <2>4, <2>6
    <3>4. e \in Nat /\ h[l] \in Nat
      BY Zenon, <3>1, <2>5, <2>6
    <3> QED BY <3>3, <3>4
  <2>8. h[l] \in Nat /\ h[l] \in Range(h)
    BY Zenon, <2>1, <2>5, <2>6, InRange
  <2>9. CASE rev > h[l]
    <3>1. ret.kind # "found"
      BY <2>3, <2>9
    <3>2. \A e \in Range(h) : ~(e >= rev)
      BY <2>7, <2>8, <2>9
    <3> QED BY Zenon, <3>1, <3>2
  <2>10. CASE ~(rev > h[l]) /\ rev < h[s]
    <3>1. ret = [kind |-> "low", events |-> none]
      BY Zenon, <2>3, <2>10
    <3>2. ret.kind # "found" /\ ret.kind # "high"
      BY <3>1
    <3> QED BY Zenon, <3>2
  <2>11. CASE ~(rev > h[l]) /\ ~(rev < h[s])
    <3>1. PICK m \in 1 .. l : /\ FirstFrom(h, s, rev, m)
                              /\ ret = [kind |-> "found", events |-> SubSeq(h, m, l)]
      BY Zenon, <2>3, <2>11
    <3>2. ret.kind # "high" /\ ret.events = SubSeq(h, m, Len(h))
      <4>1. PICK u : u = SubSeq(h, m, Len(h))
        BY Zenon
      <4>2. ret = [kind |-> "found", events |-> u]
        BY Zenon, <3>1, <4>1, <2>1
      <4>3. ret.kind # "high" /\ ret.events = u
        BY <4>2
      <4> QED BY Zenon, <4>1, <4>3
    <3>3. /\ ret.events \in Seq(Nat) /\ Asc(ret.events)
          /\ Range(ret.events) = {e \in Range(h) : e >= h[m]}
      BY Zenon, <3>2, <2>1, SuffixRange
    <3>4. rev <= h[l]
      BY <2>8, <2>11
    <3>5. h[m] >= rev /\ \A n \in s .. l : h[n] >= rev => m <= n
      BY Zenon, <3>1, <2>1 DEF FirstFrom
    <3>6. ASSUME NEW e \in Range(h)
          PROVE  e >= h[m] <=> e >= rev
      <4>1. e \in Nat /\ h[m] \in Nat /\ h[s] \in Nat
        BY Zenon, <2>5, <2>3, <2>7
      <4>2. e >= h[m] => e >= rev
        BY <4>1, <3>5
      <4>3. ASSUME e >= rev
            PROVE  e >= h[m]
        <5>1. PICK n \in 1 .. l : h[n] = e
          BY Zenon, <2>1, InRange
        <5>2. ~(n < s)
          <6>1. ~(e < h[s])
            BY <4>1, <4>3, <2>11
          <6> QED BY Zenon, <6>1, <5>1, <2>3, <2>4
        <5>3. n \in s .. l
          BY <5>2, <2>3
        <5>4. m <= n
          BY Zenon, <5>1, <5>3, <4>3, <3>5
        <5>5. m = n \/ m < n
          BY <5>4
        <5>6. h[m] = e \/ h[m] < e
          BY Zenon, <5>1, <5>5, <2>4
        <5> QED BY <5>6, <4>1
      <4> QED BY Zenon, <4>2, <4>3
    <3>7. Range(ret.events) = {e \in Range(h) : e >= rev}
      BY Zenon, <3>3, <3>6
    <3> QED BY Zenon, <3>2, <3>3, <3>4, <3>7, <2>3, <2>7, <2>8
  <2> QED BY Zenon, <2>9, <2>10, <2>11
<1> QED BY Zenon, <1>2, <1>3

\* A request whose events are all still to come goes on with the live ones.
LEMMA RightAhead ==
  ASSUME NEW x, NEW o, NEW q, NEW P, NEW H \in SUBSET Nat, NEW live,
         WatcherRight(x, o, q, P, H, live),
         x.step = "added" \/ x.step = "empty", P \subseteq H,
         NEW y \in WatchRecords, y.step = "serving", y.req = x.req, y.from = x.req, y.req > 0,
         \A e \in H : ~(e >= x.req)
  PROVE  WatcherRight(y, o, q, P, H, live)
<1>1. o = <<>> /\ o \in Seq(Nat)
  BY DEF WatcherRight
<1>2. Range(o) = {} /\ Asc(o)
  BY Zenon, <1>1, EmptyRange
<1>3. Range(o) = AskedFor(x, H)
  BY Zenon, <1>2 DEF AskedFor
<1>4. y.from >= y.req /\ y.from = y.req
  BY DEF WatchRecords
<1>5. \A e \in H : e >= y.from => ~HasPrefix(e)
  BY Zenon
<1> QED BY Zenon, <1>1, <1>2, <1>3, <1>4, <1>5, RightKnown

\* A request is answered from the cache.
LEMMA RightCached ==
  ASSUME NEW x, NEW o, NEW q, NEW P, NEW H \in SUBSET Nat, NEW live,
         WatcherRight(x, o, q, P, H, live),
         P \subseteq H, x.req # 0,
         NEW c \in Seq(Nat), Asc(c), Range(c) = {e \in H : e >= x.req},
         NEW n \in Nat, n \in H, x.req <= n, \A e \in H : e <= n,
         NEW g, g = WithPrefix(c),
         NEW y \in WatchRecords, y.step = "serving", y.req = x.req,
         y.from = IF g = <<>> THEN x.req ELSE n + 1
  PROVE  WatcherRight(y, g, q, P, H, live)
<1>1. g \in Seq(Nat) /\ Asc(g) /\ Range(g) = {e \in Range(c) : HasPrefix(e)}
  BY Zenon, PrefixRange
<1>2. Range(g) = AskedFor(x, H)
  BY Zenon, <1>1 DEF AskedFor
<1>3. y.req \in Nat /\ y.from \in Nat /\ x.req \in Nat /\ y.req > 0
  BY DEF WatchRecords
<1>4. CASE g = <<>>
  <2>1. y.from = y.req /\ y.from >= y.req
    BY <1>3, <1>4
  <2>2. AskedFor(x, H) = {}
    BY Zenon, <1>2, <1>4, EmptyRange
  <2>3. \A e \in H : e >= y.from => ~HasPrefix(e)
    BY Zenon, <2>1, <2>2 DEF AskedFor
  <2> QED BY Zenon, <1>1, <1>2, <1>3, <2>1, <2>3, RightKnown
<1>5. CASE g # <<>>
  <2>1. y.from = n + 1 /\ y.from >= y.req
    BY <1>3, <1>5
  <2>2. \A e \in H : ~(e >= y.from)
    BY <2>1
  <2>3. \E e \in H : y.from = e + 1
    BY Zenon, <2>1
  <2> QED BY Zenon, <1>1, <1>2, <1>3, <2>1, <2>2, <2>3, RightKnown
<1> QED BY Zenon, <1>4, <1>5

\* The request is refused, whether the cache does not reach back far enough or
\* the revision is already committed.
LEMMA StepRefuse ==
  ASSUME WatchInv, NEW w \in Watchers, Refuse(w),
         UNCHANGED <<collectVars, watchChan, overrun, subs, sub, out>>
  PROVE  WatchInv'
<1>1. watch' = [watch EXCEPT ![w].step = "refused"] /\ deleting' = deleting \cup {w}
  BY Zenon DEF Refuse
<1>2. watch \in [Watchers -> WatchRecords] /\ deleting \subseteq Watchers
  BY Zenon, OfWatcher
<1>3. PICK s \in {"empty", "refused", "closed"} : s = "refused"
  OBVIOUS
<1>4. PICK y \in WatchRecords :
        y.step = s /\ y.req = watch[w].req /\ watch' = [watch EXCEPT ![w] = y]
  BY Zenon, <1>1, <1>2, <1>3, StepRecord
<1>5. PICK x, o, q, P, H, live :
        /\ x = watch[w] /\ o = out[w] /\ q = sub[w] /\ P = InFlight /\ H = Range(history)
        /\ live = (w \in subs \ overrun)
  BY Zenon
<1>6. WatcherRight(x, o, q, P, H, live)
  BY Zenon, <1>5, OfWatcher
<1>7. y.step \in {"refused", "closed"} /\ y.step # "off"
  BY <1>3, <1>4
<1>8. WatcherRight(y, o, q, P, H, live)
  BY Zenon, <1>4, <1>5, <1>6, <1>7, RightStep
<1>9. WatcherRight(y, out[w], sub[w], InFlight, Range(history), w \in subs \ overrun)
  BY Zenon, <1>5, <1>8
<1>10. deleting' \subseteq Watchers
  BY Zenon, <1>1, <1>2
<1> QED BY Zenon, <1>4, <1>7, <1>9, <1>10, OnlyWatch

\* The request goes on with the live events from its own revision.
LEMMA StepServe ==
  ASSUME WatchInv, NEW w \in Watchers, Serve(w, watch[w].req),
         UNCHANGED <<collectVars, watchChan, overrun, subs, sub, out, deleting>>,
         \/ watch[w].step = "added" /\ watch[w].req = 0
         \/ /\ watch[w].step = "added" \/ watch[w].step = "empty"
            /\ watch[w].req # 0 /\ \A e \in Range(history) : ~(e >= watch[w].req)
  PROVE  WatchInv'
<1>1. PICK x, o, q, P, H, live :
        /\ x = watch[w] /\ o = out[w] /\ q = sub[w] /\ P = InFlight /\ H = Range(history)
        /\ live = (w \in subs \ overrun)
  BY Zenon
<1>2. WatcherRight(x, o, q, P, H, live) /\ P \subseteq H /\ H \in SUBSET Nat
  BY Zenon, <1>1, OfWatcher
<1>3. watch \in [Watchers -> WatchRecords] /\ deleting \subseteq Watchers
  BY Zenon, OfWatcher
<1>4. PICK f \in Nat : f = x.req
  BY <1>1, <1>3 DEF WatchRecords
<1>5. PICK y \in WatchRecords :
        /\ y.step = "serving" /\ y.req = x.req /\ y.from = f
        /\ watch' = [watch EXCEPT ![w] = y]
  <2>1. Serve(w, f)
    BY Zenon, <1>1, <1>4
  <2>2. PICK y \in WatchRecords :
          /\ y.step = "serving" /\ y.req = watch[w].req /\ y.from = f
          /\ watch' = [watch EXCEPT ![w] = y]
    BY Zenon, <1>3, <2>1, ServeRecord
  <2> QED BY Zenon, <1>1, <2>2
<1>6. WatcherRight(y, o, q, P, H, live)
  <2>1. CASE watch[w].step = "added" /\ watch[w].req = 0
    <3>1. x.step = "added" /\ x.req = 0 /\ y.req = 0 /\ y.from = 0
      BY Zenon, <2>1, <1>1, <1>4, <1>5
    <3> QED BY Zenon, <3>1, <1>2, <1>5, RightNow
  <2>2. CASE /\ watch[w].step = "added" \/ watch[w].step = "empty"
             /\ watch[w].req # 0 /\ \A e \in Range(history) : ~(e >= watch[w].req)
    <3>1. /\ x.step = "added" \/ x.step = "empty"
          /\ x.req # 0 /\ \A e \in H : ~(e >= x.req)
      BY Zenon, <2>2, <1>1
    <3>2. y.req > 0 /\ y.from = x.req
      BY <3>1, <1>4, <1>5
    <3> QED BY Zenon, <3>1, <3>2, <1>2, <1>5, RightAhead
  <2> QED BY Zenon, <2>1, <2>2
<1>7. WatcherRight(y, out[w], sub[w], InFlight, Range(history), w \in subs \ overrun)
  BY Zenon, <1>1, <1>6
<1>8. deleting' \subseteq Watchers /\ UNCHANGED <<collectVars, watchChan, overrun, subs, sub, out>>
  BY Zenon, <1>3
<1>9. y.step # "off"
  BY <1>5
<1> QED BY Zenon, <1>5, <1>7, <1>8, <1>9, OnlyWatch

\* FindCached.
LEMMA StepFindCached ==
  ASSUME WatchInv, NEW w \in Watchers, FindCached(w)
  PROVE  WatchInv'
<1>1. PICK x, o, q, P, H, live :
        /\ x = watch[w] /\ o = out[w] /\ q = sub[w] /\ P = InFlight /\ H = Range(history)
        /\ live = (w \in subs \ overrun)
  BY Zenon
<1>2. WatcherRight(x, o, q, P, H, live) /\ P \subseteq H /\ H \in SUBSET Nat
  BY Zenon, <1>1, OfWatcher
<1>3. watch \in [Watchers -> WatchRecords] /\ deleting \subseteq Watchers
  BY Zenon, OfWatcher
<1>4. PICK ret : ret = FindEvents(cache, x.req)
  BY Zenon
<1>5. /\ x.step = "added"
      /\ \/ /\ x.req = 0 \/ ret.kind = "high"
            /\ Serve(w, x.req)
            /\ UNCHANGED <<out, deleting>>
         \/ /\ x.req # 0 /\ ret.kind = "empty"
            /\ watch' = [watch EXCEPT ![w].step = "empty"]
            /\ UNCHANGED <<out, deleting>>
         \/ /\ x.req # 0 /\ ret.kind = "low"
            /\ Refuse(w)
            /\ UNCHANGED out
         \/ /\ x.req # 0 /\ ret.kind = "found"
            /\ FromCache(w, WithPrefix(ret.events))
            /\ UNCHANGED deleting
      /\ UNCHANGED <<watchChan, sub, subs, overrun, collectVars>>
  BY Zenon, <1>1, <1>4 DEF FindCached
<1>6. UNCHANGED watchChan /\ UNCHANGED sub /\ UNCHANGED subs /\ UNCHANGED overrun
      /\ UNCHANGED collectVars
  BY Zenon, <1>5
<1>7. x.req \in Nat
  BY <1>2 DEF WatcherRight, WatchRecords
<1>8. PICK h, r : h = history /\ r = cache /\ h \in Seq(Nat)
  BY Zenon DEF WatchInv, CollectRight
<1>9. /\ ret.kind = "high" => \A e \in H : ~(e >= x.req)
      /\ ret.kind = "found" =>
           /\ ret.events \in Seq(Nat) /\ Asc(ret.events)
           /\ Range(ret.events) = {e \in H : e >= x.req}
           /\ Newest(r) \in H /\ Newest(r) \in Nat /\ x.req <= Newest(r)
           /\ \A e \in H : e <= Newest(r)
  <2>1. CacheRight(r, h) /\ Asc(h) /\ ret = FindEvents(r, x.req) /\ H = Range(h)
    BY Zenon, <1>1, <1>4, <1>8 DEF WatchInv, CollectRight
  <2> QED BY Zenon, <2>1, <1>7, <1>8, CacheAnswer
<1>10. CASE /\ x.req = 0 \/ ret.kind = "high"
            /\ Serve(w, x.req)
            /\ UNCHANGED <<out, deleting>>
  <2>1. UNCHANGED <<collectVars, watchChan, overrun, subs, sub, out, deleting>>
    BY Zenon, <1>6, <1>10
  <2>2. Serve(w, watch[w].req)
    BY Zenon, <1>1, <1>10
  <2>3. \/ watch[w].step = "added" /\ watch[w].req = 0
        \/ /\ watch[w].step = "added" \/ watch[w].step = "empty"
           /\ watch[w].req # 0 /\ \A e \in Range(history) : ~(e >= watch[w].req)
    BY Zenon, <1>1, <1>5, <1>9, <1>10
  <2> QED BY Zenon, <2>1, <2>2, <2>3, StepServe
<1>11. CASE /\ x.req # 0 /\ ret.kind = "empty"
            /\ watch' = [watch EXCEPT ![w].step = "empty"]
            /\ UNCHANGED <<out, deleting>>
  <2>1. PICK s \in {"empty", "refused", "closed"} : s = "empty"
    OBVIOUS
  <2>2. PICK y \in WatchRecords :
          y.step = s /\ y.req = watch[w].req /\ watch' = [watch EXCEPT ![w] = y]
    BY Zenon, <1>3, <1>11, <2>1, StepRecord
  <2>3. y.step = "empty" /\ y.step # "off"
    BY <2>1, <2>2
  <2>4. WatcherRight(y, o, q, P, H, live)
    BY Zenon, <1>1, <1>2, <1>5, <2>2, <2>3, RightStep
  <2>5. WatcherRight(y, out[w], sub[w], InFlight, Range(history), w \in subs \ overrun)
    BY Zenon, <1>1, <2>4
  <2>6. deleting' \subseteq Watchers
        /\ UNCHANGED <<collectVars, watchChan, overrun, subs, sub, out>>
    BY Zenon, <1>3, <1>6, <1>11
  <2> QED BY Zenon, <2>2, <2>3, <2>5, <2>6, OnlyWatch
<1>12. CASE /\ x.req # 0 /\ ret.kind = "low"
            /\ Refuse(w)
            /\ UNCHANGED out
  <2>1. UNCHANGED <<collectVars, watchChan, overrun, subs, sub, out>>
    BY Zenon, <1>6, <1>12
  <2> QED BY Zenon, <2>1, <1>12, StepRefuse
<1>13. CASE /\ x.req # 0 /\ ret.kind = "found"
            /\ FromCache(w, WithPrefix(ret.events))
            /\ UNCHANGED deleting
  <2>1. PICK c, n : c = ret.events /\ n = Newest(r)
    BY Zenon
  <2>2. /\ c \in Seq(Nat) /\ Asc(c) /\ Range(c) = {e \in H : e >= x.req}
        /\ n \in Nat /\ n \in H /\ x.req <= n /\ \A e \in H : e <= n
    BY Zenon, <2>1, <1>9, <1>13
  <2>3. PICK g : g = WithPrefix(c)
    BY Zenon
  <2>4. PICK f : f = IF g = <<>> THEN x.req ELSE n + 1
    BY Zenon
  <2>5. Serve(w, f) /\ out' = [out EXCEPT ![w] = g]
    BY Zenon, <1>1, <1>8, <1>13, <2>1, <2>3, <2>4 DEF FromCache
  <2>6. f \in Nat
    BY <1>7, <2>2, <2>4
  <2>7. PICK y \in WatchRecords :
          /\ y.step = "serving" /\ y.req = x.req /\ y.from = f
          /\ watch' = [watch EXCEPT ![w] = y]
    BY Zenon, <1>1, <1>3, <2>5, <2>6, ServeRecord
  <2>8. y.from = IF g = <<>> THEN x.req ELSE n + 1
    BY Zenon, <2>4, <2>7
  <2>9. x.req # 0
    BY Zenon, <1>13
  <2>10. WatcherRight(y, g, q, P, H, live)
    BY Zenon, <1>2, <2>2, <2>3, <2>7, <2>8, <2>9, RightCached
  <2>11. WatcherRight(y, g, q, InFlight, Range(history), w \in subs \ overrun)
    BY Zenon, <1>1, <2>10
  <2>12. sub' = [sub EXCEPT ![w] = q]
    <3>1. sub = [v \in Watchers |-> sub[v]]
      BY Zenon, OfWatcher
    <3>2. sub = [sub EXCEPT ![w] = sub[w]]
      BY <3>1
    <3> QED BY Zenon, <3>2, <1>1, <1>6
  <2>13. deleting' \subseteq Watchers /\ UNCHANGED <<collectVars, watchChan, overrun, subs>>
    BY Zenon, <1>3, <1>6, <1>13
  <2>14. y.step # "off"
    BY <2>7
  <2> QED BY Zenon, <2>5, <2>7, <2>11, <2>12, <2>13, <2>14, OneClient
<1> QED BY Zenon, <1>5, <1>10, <1>11, <1>12, <1>13

\* CheckRevision.
LEMMA StepCheckRevision ==
  ASSUME WatchInv, NEW w \in Watchers, CheckRevision(w)
  PROVE  WatchInv'
<1>1. /\ watch[w].step = "empty"
      /\ UNCHANGED watchChan /\ UNCHANGED sub /\ UNCHANGED subs /\ UNCHANGED overrun
      /\ UNCHANGED out /\ UNCHANGED collectVars
  BY Zenon DEF CheckRevision
<1>2. CASE watch[w].req > committed
  <2>1. Serve(w, watch[w].req) /\ UNCHANGED deleting
    BY Zenon, <1>2 DEF CheckRevision
  <2>2. UNCHANGED <<collectVars, watchChan, overrun, subs, sub, out, deleting>>
    BY Zenon, <1>1, <2>1
  <2>3. committed \in Nat /\ \A e \in Range(history) : e \in 1 .. committed
    BY Zenon DEF WatchInv, CollectRight
  <2>4. watch[w].req \in Nat
    <3>1. watch \in [Watchers -> WatchRecords]
      BY Zenon, OfWatcher
    <3> QED BY <3>1 DEF WatchRecords
  <2>5. watch[w].req # 0 /\ \A e \in 1 .. committed : ~(e >= watch[w].req)
    BY <1>2, <2>3, <2>4
  <2>6. \A e \in Range(history) : ~(e >= watch[w].req)
    BY Zenon, <2>3, <2>5
  <2> QED BY Zenon, <1>1, <2>1, <2>2, <2>5, <2>6, StepServe
<1>3. CASE ~(watch[w].req > committed)
  <2>1. Refuse(w)
    BY Zenon, <1>3 DEF CheckRevision
  <2>2. UNCHANGED <<collectVars, watchChan, overrun, subs, sub, out>>
    BY Zenon, <1>1
  <2> QED BY Zenon, <2>1, <2>2, StepRefuse
<1> QED BY Zenon, <1>2, <1>3

\* ProcessEvents.
LEMMA StepProcessEvents ==
  ASSUME WatchInv, NEW w \in Watchers, ProcessEvents(w)
  PROVE  WatchInv'
<1>1. PICK x, o, q, P, H, live :
        /\ x = watch[w] /\ o = out[w] /\ q = sub[w] /\ P = InFlight /\ H = Range(history)
        /\ live = (w \in subs \ overrun)
  BY Zenon
<1>2. WatcherRight(x, o, q, P, H, live) /\ P \subseteq H /\ H \in SUBSET Nat
  BY Zenon, <1>1, OfWatcher
<1>3. /\ watch = [v \in Watchers |-> watch[v]]
      /\ out = [v \in Watchers |-> out[v]]
      /\ sub = [v \in Watchers |-> sub[v]]
      /\ deleting \subseteq Watchers
  BY Zenon, OfWatcher
<1>4. PICK g : g = WithPrefix(FilterByRevision(Head(q), x.from))
  BY Zenon
<1>5. /\ x.step = "serving" /\ q # <<>>
      /\ sub' = [sub EXCEPT ![w] = Tail(@)]
      /\ out' = [out EXCEPT ![w] = @ \o g]
      /\ UNCHANGED <<watchChan, subs, deleting, overrun, watch, collectVars>>
  BY Zenon, <1>1, <1>4 DEF ProcessEvents
<1>6. PICK t, u : t = Tail(q) /\ u = o \o g
  BY Zenon
<1>7. sub' = [sub EXCEPT ![w] = t] /\ out' = [out EXCEPT ![w] = u]
  BY <1>1, <1>5, <1>6
<1>8. WatcherRight(x, u, t, P, H, live)
  BY Zenon, <1>2, <1>4, <1>5, <1>6, RightProcess
<1>9. watch' = [watch EXCEPT ![w] = x]
  <2>1. watch = [watch EXCEPT ![w] = watch[w]]
    BY <1>3
  <2> QED BY Zenon, <1>1, <1>5, <2>1
<1>10. deleting' \subseteq Watchers /\ UNCHANGED <<collectVars, watchChan, overrun, subs>>
  BY Zenon, <1>3, <1>5
<1>11. WatcherRight(x, u, t, InFlight, Range(history), w \in subs \ overrun)
  BY Zenon, <1>1, <1>8
<1>12. x.step # "off"
  BY <1>5
<1> QED BY Zenon, <1>7, <1>9, <1>10, <1>11, <1>12, OneClient

\* CloseResult.
LEMMA StepCloseResult ==
  ASSUME WatchInv, NEW w \in Watchers, CloseResult(w)
  PROVE  WatchInv'
<1>1. /\ watch' = [watch EXCEPT ![w].step = "closed"]
      /\ UNCHANGED <<watchChan, sub, subs, deleting, overrun>> /\ UNCHANGED out
      /\ UNCHANGED collectVars
  BY Zenon DEF CloseResult, hubVars
<1>2. PICK s \in {"empty", "refused", "closed"} : s = "closed"
  OBVIOUS
<1>3. watch \in [Watchers -> WatchRecords] /\ deleting \subseteq Watchers
  BY Zenon, OfWatcher
<1>4. PICK y \in WatchRecords :
        y.step = s /\ y.req = watch[w].req /\ watch' = [watch EXCEPT ![w] = y]
  BY Zenon, <1>1, <1>2, <1>3, StepRecord
<1>5. PICK x, o, q, P, H, live :
        /\ x = watch[w] /\ o = out[w] /\ q = sub[w] /\ P = InFlight /\ H = Range(history)
        /\ live = (w \in subs \ overrun)
  BY Zenon
<1>6. WatcherRight(x, o, q, P, H, live)
  BY Zenon, <1>5, OfWatcher
<1>7. y.step \in {"refused", "closed"} /\ y.step # "off"
  BY <1>2, <1>4
<1>8. WatcherRight(y, o, q, P, H, live)
  BY Zenon, <1>4, <1>5, <1>6, <1>7, RightStep
<1>9. WatcherRight(y, out[w], sub[w], InFlight, Range(history), w \in subs \ overrun)
  BY Zenon, <1>5, <1>8
<1>10. deleting' \subseteq Watchers /\ UNCHANGED <<collectVars, watchChan, overrun, subs, sub, out>>
  BY Zenon, <1>1, <1>3
<1> QED BY Zenon, <1>4, <1>7, <1>9, <1>10, OnlyWatch

\* Cancel.
LEMMA StepCancel ==
  ASSUME WatchInv, NEW w \in Watchers, Cancel(w)
  PROVE  WatchInv'
<1>1. /\ deleting' = deleting \cup {w}
      /\ UNCHANGED watchChan /\ UNCHANGED sub /\ UNCHANGED subs /\ UNCHANGED overrun
      /\ UNCHANGED clientVars /\ UNCHANGED collectVars
  BY Zenon DEF Cancel
<1>2. watch' = watch /\ out' = out
  BY Zenon, <1>1 DEF clientVars
<1>3. CollectRight'
  BY Zenon, <1>1 DEF WatchInv, CollectRight, collectVars
<1>4. InFlight' = InFlight /\ Range(history)' = Range(history)
  BY Zenon, <1>1 DEF InFlight, collectVars
<1>5. ChanRight'
  BY Zenon, <1>1, <1>4 DEF WatchInv, ChanRight, collectVars
<1>6. HubRight'
  BY Zenon, <1>1, <1>2, <1>4 DEF WatchInv, HubRight
<1> QED BY Zenon, <1>3, <1>5, <1>6 DEF WatchInv

\* The invariant holds at the start.
LEMMA WatchInitInv == WatchInit => WatchInv
<1> SUFFICES ASSUME WatchInit
             PROVE  WatchInv
  BY Zenon
<1>1. <<>> \in Seq(Nat) /\ <<>> \in Seq(Seq(Nat)) /\ Len(<<>>) = 0
  OBVIOUS
<1>2. CollectRight
  <2>1. committed \in Nat /\ adding \in Nat /\ ~(adding # 0)
    BY WatchAssumption DEF WatchInit
  <2>2. CacheRight(NewRing, <<>>)
    BY CacheAssumption, <1>1 DEF CacheRight, NewRing, Rings
  <2>3. history = <<>> /\ cache = NewRing
    BY Zenon DEF WatchInit
  <2> QED BY Zenon, <1>1, <2>1, <2>2, <2>3, EmptyRange DEF CollectRight
<1>3. InFlight = {}
  BY Zenon, EmptyRange DEF InFlight, WatchInit
<1>4. ChanRight
  <2>1. Upward({}, Range(history)) /\ Below({}, {})
    BY Zenon DEF Upward, Below
  <2>2. batch = <<>> /\ watchChan = <<>>
    BY Zenon DEF WatchInit
  <2> QED BY Zenon, <1>1, <1>3, <2>1, <2>2, EmptyRange DEF ChanRight
<1>5. HubRight
  <2>1. ASSUME NEW w \in Watchers
        PROVE  WatcherRight(watch[w], out[w], sub[w], InFlight, Range(history),
                            w \in subs \ overrun)
    <3>1. PICK x : x = [step |-> "off", req |-> 0, from |-> 0]
      BY Zenon
    <3>2. x \in WatchRecords /\ x.step = "off"
      BY <3>1 DEF WatchRecords
    <3>3. watch[w] = x /\ out[w] = <<>> /\ sub[w] = <<>>
      BY Zenon, <3>1 DEF WatchInit
    <3>4. (w \in subs \ overrun) = FALSE
      <4>1. w \notin subs
        BY Zenon DEF WatchInit
      <4> QED BY SMT, <4>1
    <3>5. PICK H : H = Range(history)
      BY Zenon
    <3>6. WatcherRight(x, <<>>, <<>>, {}, H, FALSE)
      <4>1. Below({}, {})
        BY Zenon DEF Below
      <4>2. ~(x.step = "serving")
        BY <3>2
      <4>3. Range(<<>>) \subseteq AskedFor(x, H) /\ Queued(<<>>) \subseteq H
            /\ Below(Queued(<<>>), {})
        BY Zenon, <4>1, EmptyRange
      <4> QED BY Zenon, <1>1, <3>2, <4>2, <4>3, EmptyRange DEF WatcherRight
    <3> QED BY Zenon, <1>3, <3>3, <3>4, <3>5, <3>6
  <2>2. /\ watch = [w \in Watchers |-> watch[w]]
        /\ out = [w \in Watchers |-> out[w]]
        /\ sub = [w \in Watchers |-> sub[w]]
    BY Zenon DEF WatchInit
  <2>3. subs = {} /\ deleting = {} /\ overrun = {}
    BY Zenon DEF WatchInit
  <2> QED BY Zenon, <2>1, <2>2, <2>3 DEF HubRight
<1> QED BY Zenon, <1>2, <1>4, <1>5 DEF WatchInv

\* Every step keeps it.
LEMMA WatchNextInv == WatchInv /\ [WatchNext]_watchVars => WatchInv'
<1> SUFFICES ASSUME WatchInv, [WatchNext]_watchVars
             PROVE  WatchInv'
  BY Zenon
<1>1. CASE UNCHANGED watchVars
  <2>1. UNCHANGED collectVars /\ UNCHANGED hubVars /\ UNCHANGED clientVars
    BY Zenon, <1>1 DEF watchVars
  <2>2. UNCHANGED <<watchChan, sub, subs, deleting, overrun>> /\ UNCHANGED watch /\ UNCHANGED out
    BY Zenon, <2>1 DEF hubVars, clientVars
  <2>3. CollectRight'
    BY Zenon, <2>1 DEF WatchInv, CollectRight, collectVars
  <2>4. InFlight' = InFlight /\ Range(history)' = Range(history)
    BY Zenon, <2>1, <2>2 DEF InFlight, collectVars
  <2>5. ChanRight'
    BY Zenon, <2>1, <2>2, <2>4 DEF WatchInv, ChanRight, collectVars
  <2>6. HubRight'
    BY Zenon, <2>2, <2>4 DEF WatchInv, HubRight
  <2> QED BY Zenon, <2>3, <2>5, <2>6 DEF WatchInv
<1>2. CASE CommitInvalid \/ CommitValid \/ AddEvent \/ SendBatch \/ Stream
  BY Zenon, <1>2, StepCommitInvalid, StepCommitValid, StepAddEvent, StepSendBatch, StepStream
<1>3. ASSUME NEW w \in Watchers, NEW r \in Requests, AddWatcher(w, r)
      PROVE  WatchInv'
  BY Zenon, <1>3, StepAddWatcher
<1>4. ASSUME NEW w \in Watchers,
             DeleteWatcher(w) \/ FindCached(w) \/ CheckRevision(w)
      PROVE  WatchInv'
  BY Zenon, <1>4, StepDeleteWatcher, StepFindCached, StepCheckRevision
<1>5. ASSUME NEW w \in Watchers,
             ProcessEvents(w) \/ CloseResult(w) \/ Cancel(w)
      PROVE  WatchInv'
  BY Zenon, <1>5, StepProcessEvents, StepCloseResult, StepCancel
<1> QED BY Zenon, <1>1, <1>2, <1>3, <1>4, <1>5 DEF WatchNext

\* The variables have their types.
LEMMA InvWatchTypes == WatchInv => WatchTypeOK
<1> SUFFICES ASSUME WatchInv
             PROVE  WatchTypeOK
  BY Zenon
<1>1. committed \in Nat /\ adding \in Nat /\ history \in Seq(Nat) /\ cache \in Rings
  BY Zenon DEF WatchInv, CollectRight, CacheRight
<1>2. batch \in Seq(Nat) /\ watchChan \in Seq(Seq(Nat))
  BY Zenon DEF WatchInv, ChanRight
<1>3. \A w \in Watchers : watch[w] \in WatchRecords /\ out[w] \in Seq(Nat)
      /\ sub[w] \in Seq(Seq(Nat))
  BY Zenon DEF WatchInv, HubRight, WatcherRight
<1>4. /\ subs \subseteq Watchers /\ deleting \subseteq Watchers /\ overrun \subseteq Watchers
      /\ watch = [w \in Watchers |-> watch[w]]
      /\ out = [w \in Watchers |-> out[w]]
      /\ sub = [w \in Watchers |-> sub[w]]
  BY Zenon DEF WatchInv, HubRight
<1>5. watch \in [Watchers -> WatchRecords] /\ out \in [Watchers -> Seq(Nat)]
      /\ sub \in [Watchers -> Seq(Seq(Nat))]
  BY Zenon, <1>3, <1>4
<1> QED BY Zenon, <1>1, <1>2, <1>4, <1>5 DEF WatchTypeOK, Rings, WatchRecords

\* Nothing is missed.
LEMMA InvNothingMissed == WatchInv => NothingMissed
<1> SUFFICES ASSUME WatchInv, NEW w \in subs \ overrun, watch[w].step = "serving"
             PROVE  /\ \A e \in Range(out[w]), f \in Upcoming(w) : e < f
                    /\ IF watch[w].req > 0 THEN Range(out[w]) \cup Upcoming(w) = Expected(w)
                       ELSE /\ Range(out[w]) \cup Upcoming(w) \subseteq Expected(w)
                            /\ \A e \in Range(out[w]) \cup Upcoming(w), f \in Expected(w) :
                                 e <= f => f \in Range(out[w]) \cup Upcoming(w)
  BY Zenon DEF NothingMissed
<1>1. w \in Watchers
  BY Zenon DEF WatchInv, HubRight
<1>2. PICK x, o, q, P, H :
        x = watch[w] /\ o = out[w] /\ q = sub[w] /\ P = InFlight /\ H = Range(history)
  BY Zenon
<1>3. (w \in subs \ overrun) = TRUE
  BY SMT
<1>4. WatcherRight(x, o, q, P, H, TRUE) /\ P \subseteq H
  BY Zenon, <1>1, <1>2, <1>3, OfWatcher
<1>5. PICK F : F = Queued(q) \cup P
  BY Zenon
<1>6. /\ Below(Range(o), Wants(x, F)) /\ GotRight(x, o, F, H) /\ x.from >= x.req
      /\ Range(o) \subseteq AskedFor(x, H) /\ F \subseteq H /\ x \in WatchRecords
  BY Zenon, <1>2, <1>4, <1>5 DEF WatcherRight
<1>7. Upcoming(w) = Wants(x, F)
  BY Zenon, <1>2, <1>5 DEF Upcoming, Wants, InFlight
<1>8. Expected(w) = AskedFor(x, H)
  BY Zenon, <1>2 DEF Expected, AskedFor
<1>9. Wants(x, F) \subseteq AskedFor(x, H)
  <2>1. H \subseteq Nat
    BY Zenon, <1>1, <1>2, OfWatcher
  <2>2. x.req \in Nat /\ x.from \in Nat
    BY <1>6 DEF WatchRecords
  <2>3. \A e \in H : e >= x.from => e >= x.req
    <3>1. PICK a \in Nat, b \in Nat : a = x.req /\ b = x.from
      BY Zenon, <2>2
    <3>2. b >= a
      BY Zenon, <3>1, <1>6
    <3>3. \A e \in Nat : e >= b => e >= a
      BY <3>2
    <3> QED BY Zenon, <2>1, <3>1, <3>3
  <2> QED BY Zenon, <2>3, <1>6 DEF Wants, AskedFor
<1>10. \A e \in Range(out[w]), f \in Upcoming(w) : e < f
  BY Zenon, <1>2, <1>6, <1>7 DEF Below
<1>11. CASE watch[w].req > 0
  BY Zenon, <1>2, <1>6, <1>7, <1>8, <1>10, <1>11 DEF GotRight
<1>12. CASE ~(watch[w].req > 0)
  <2>1. Upward(Range(o) \cup Wants(x, F), AskedFor(x, H))
    BY Zenon, <1>2, <1>6, <1>12 DEF GotRight
  <2> QED BY Zenon, <2>1, <1>2, <1>6, <1>7, <1>8, <1>9, <1>10, <1>12 DEF Upward
<1> QED BY Zenon, <1>11, <1>12

\* What a client got is in order.
LEMMA InvInOrder == WatchInv => InOrder
<1> SUFFICES ASSUME WatchInv, NEW w \in Watchers
             PROVE  /\ \A i \in DOMAIN out[w] : out[w][i] >= watch[w].req /\ HasPrefix(out[w][i])
                    /\ \A i \in 2 .. Len(out[w]) : out[w][i - 1] < out[w][i]
  BY Zenon DEF InOrder
<1>1. PICK x, o, H : x = watch[w] /\ o = out[w] /\ H = Range(history)
  BY Zenon
<1>2. o \in Seq(Nat) /\ Asc(o) /\ Range(o) \subseteq AskedFor(x, H)
  BY Zenon, <1>1, OfWatcher DEF WatcherRight
<1>3. DOMAIN o = 1 .. Len(o) /\ Len(o) \in Nat
  BY Zenon, <1>2, InRange
<1>4. ASSUME NEW i \in DOMAIN o
      PROVE  o[i] >= x.req /\ HasPrefix(o[i])
  <2>1. o[i] \in Range(o)
    BY Zenon, <1>2, <1>3, InRange
  <2> QED BY Zenon, <2>1, <1>2 DEF AskedFor
<1>5. ASSUME NEW i \in 2 .. Len(o)
      PROVE  o[i - 1] < o[i]
  <2>1. i \in 1 .. Len(o) /\ i - 1 \in 1 .. Len(o) /\ i - 1 < i
    BY <1>3
  <2> QED BY Zenon, <2>1, <1>2, <1>3 DEF Asc
<1> QED BY Zenon, <1>1, <1>4, <1>5

\* The cache answers as it should.
LEMMA InvFindEventsCorrect == WatchInv => FindEventsCorrect
<1> DEFINE oldest == Max({1, Len(history) - CacheSize + 1})
           later(r) == {n \in oldest .. Len(history) : history[n] >= r}
           answer(r) ==
             IF history = <<>> THEN [kind |-> "empty", events |-> <<>>]
             ELSE IF later(r) = {} THEN [kind |-> "high", events |-> <<>>]
             ELSE IF r < history[oldest] THEN [kind |-> "low", events |-> <<>>]
             ELSE [kind |-> "found", events |-> SubSeq(history, Min(later(r)), Len(history))]
<1> SUFFICES ASSUME WatchInv, NEW rev \in 1 .. (LastRevision + 1)
             PROVE  FindEvents(cache, rev) = answer(rev)
  BY Zenon DEF FindEventsCorrect
<1>1. rev \in Nat
  BY WatchAssumption
<1>2. PICK h, r : h = history /\ r = cache
  BY Zenon
<1>3. h \in Seq(Nat) /\ Asc(h) /\ CacheRight(r, h)
  BY Zenon, <1>2 DEF WatchInv, CollectRight
<1>4. PICK l \in Nat : l = Len(h)
  BY Zenon, <1>3, InRange
<1>5. r.s = (IF l > CacheSize THEN l - CacheSize ELSE 0) /\ r.s \in Nat
  BY <1>3, <1>4 DEF CacheRight, Rings
<1>6. oldest = r.s + 1
  <2>1. PICK S : S = {1, l - CacheSize + 1}
    BY Zenon
  <2>2. r.s + 1 \in S /\ \A y \in S : y <= r.s + 1
    BY <2>1, <1>5, CacheAssumption
  <2>3. \A m \in S : (\A y \in S : y <= m) => m = r.s + 1
    BY <2>1, <2>2, <1>5, CacheAssumption
  <2>4. Max(S) = r.s + 1
    BY Zenon, <2>2, <2>3 DEF Max
  <2> QED BY Zenon, <2>1, <2>4, <1>2, <1>4
<1>7. PICK s : s = r.s + 1
  BY Zenon
<1>8. PICK L : L = {n \in s .. l : h[n] >= rev}
  BY Zenon
<1>9. PICK none : none = <<>>
  BY Zenon
<1>10. answer(rev) = IF h = none THEN [kind |-> "empty", events |-> none]
                     ELSE IF L = {} THEN [kind |-> "high", events |-> none]
                     ELSE IF rev < h[s] THEN [kind |-> "low", events |-> none]
                     ELSE [kind |-> "found", events |-> SubSeq(h, Min(L), l)]
  BY Zenon, <1>2, <1>4, <1>6, <1>7, <1>8, <1>9
<1> HIDE DEF answer
<1>11. CASE h = none
  BY Zenon, <1>1, <1>2, <1>3, <1>9, <1>10, <1>11, CacheFind
<1>12. CASE h # none
  <2>1. /\ s \in 1 .. l
        /\ rev > h[l] => FindEvents(r, rev) = [kind |-> "high", events |-> none]
        /\ ~(rev > h[l]) /\ rev < h[s] => FindEvents(r, rev) = [kind |-> "low", events |-> none]
        /\ ~(rev > h[l]) /\ ~(rev < h[s])
             => \E m \in 1 .. l :
                  /\ FirstFrom(h, s, rev, m)
                  /\ FindEvents(r, rev) = [kind |-> "found", events |-> SubSeq(h, m, l)]
    BY Zenon, <1>1, <1>3, <1>4, <1>7, <1>9, <1>12, CacheFind
  <2>2. \A i \in 1 .. l : h[i] \in Nat
    BY <1>3, <1>4
  <2>3. \A i, j \in 1 .. l : i < j => h[i] < h[j]
    <3>1. DOMAIN h = 1 .. l
      BY Zenon, <1>3, <1>4, InRange
    <3> QED BY Zenon, <3>1, <1>3 DEF Asc
  <2>4. l \in 1 .. l /\ l \in s .. l /\ s .. l \subseteq 1 .. l
    BY <2>1
  <2>5. L = {} <=> rev > h[l]
    <3>1. ASSUME rev > h[l], NEW n \in L
          PROVE  FALSE
      <4>1. n \in 1 .. l /\ h[n] >= rev
        BY Zenon, <1>8, <2>4
      <4>2. n = l \/ n < l
        BY <4>1
      <4>3. h[n] = h[l] \/ h[n] < h[l]
        BY Zenon, <4>1, <4>2, <2>3, <2>4
      <4>4. h[n] \in Nat /\ h[l] \in Nat
        BY Zenon, <4>1, <2>2, <2>4
      <4> QED BY <3>1, <4>1, <4>3, <4>4, <1>1
    <3>2. ASSUME ~(rev > h[l])
          PROVE  l \in L
      <4>1. h[l] \in Nat
        BY Zenon, <2>2, <2>4
      <4>2. h[l] >= rev
        BY <3>2, <4>1, <1>1
      <4> QED BY Zenon, <4>2, <1>8, <2>4
    <3> QED BY Zenon, <3>1, <3>2
  <2>6. CASE rev > h[l]
    BY Zenon, <2>1, <2>5, <2>6, <1>2, <1>10, <1>12
  <2>7. CASE ~(rev > h[l]) /\ rev < h[s]
    BY Zenon, <2>1, <2>5, <2>7, <1>2, <1>10, <1>12
  <2>8. CASE ~(rev > h[l]) /\ ~(rev < h[s])
    <3>1. PICK m \in 1 .. l :
            /\ FirstFrom(h, s, rev, m)
            /\ FindEvents(r, rev) = [kind |-> "found", events |-> SubSeq(h, m, l)]
      BY Zenon, <2>1, <2>8
    <3>2. m \in L /\ \A n \in L : m <= n
      BY Zenon, <3>1, <1>4, <1>8 DEF FirstFrom
    <3>3. L \in SUBSET Nat /\ L # {}
      <4>1. s .. l \subseteq Nat
        BY <2>1
      <4> QED BY Zenon, <4>1, <3>2, <1>8
    <3>4. PICK k : k = Min(L)
      BY Zenon
    <3>5. k \in L /\ \A n \in L : k <= n
      BY Zenon, <3>3, <3>4, MinIs
    <3>6. k = m
      BY <3>2, <3>3, <3>5
    <3>7. FindEvents(r, rev) = [kind |-> "found", events |-> SubSeq(h, Min(L), l)]
      BY Zenon, <3>1, <3>4, <3>6
    <3>8. L # {} /\ ~(rev < h[s])
      BY Zenon, <3>3, <2>8
    <3> QED BY Zenon, <3>7, <3>8, <1>2, <1>10, <1>12
  <2> QED BY Zenon, <2>6, <2>7, <2>8
<1> QED BY Zenon, <1>11, <1>12

\* Whatever the collector, the hub, the deletions and the requests do and in
\* whatever order, the cache holds the last events, the queues are sorted, and
\* what a watcher got and what is on its way to it fit together.
THEOREM WatchInvariant == WatchSpec => []WatchInv
BY WatchInitInv, WatchNextInv, PTL DEF WatchSpec

\* The variables of Watch have their types: cache positions, queues, requests.
THEOREM WatchTypes == WatchSpec => []WatchTypeOK
BY WatchInvariant, InvWatchTypes, PTL

\* A registered watcher the hub has dropped no batch for misses no event, gets none
\* twice and gets them in order, from the cache and from its channel together,
\* for every size of cache, batch and buffer (Watch, processEvents, Stream).
THEOREM WatchersMissNothing == WatchSpec => []NothingMissed
BY WatchInvariant, InvNothingMissed, PTL

\* Every client, of a dropped or closed watcher too, got only events it asked for,
\* in ascending order (FilterByRevision, FilterByPrefix, processEvents).
THEOREM ClientsGetInOrder == WatchSpec => []InOrder
BY WatchInvariant, InvInOrder, PTL

\* The event cache answers every request as a list of the last CacheSize events
\* would, wherever its positions stand in the array (Ring.Add, Ring.FindEvents).
THEOREM CacheAnswersRight == WatchSpec => []FindEventsCorrect
BY WatchInvariant, InvFindEventsCorrect, PTL
=============================================================================
