---------------------------- MODULE EtcdKVProofs -----------------------------
(***************************************************************************)
(* Proofs about EtcdKV, for any clients, keys, limit and revisions: the    *)
(* answer to a Txn is one etcd gives, a Get can be followed by a watch,    *)
(* and the pages of a List are one snapshot, whatever writes are between.  *)
(*                                                                         *)
(* What is right of a client is stated of values (its call q, its answer   *)
(* a, the kvs S seen, the versions V and the committed revision com), so   *)
(* that every lemma about an action is about one client.                   *)
(***************************************************************************)
EXTENDS EtcdKV, FiniteSetTheorems, WellFoundedInduction, TLAPS

-----------------------------------------------------------------------------
(* The inductive invariant.                                                *)

VersionRecords == [rev : Nat, live : BOOLEAN]
TxnSteps == {"put", "look", "read", "deal", "commit", "reread"}
PendingSteps == {"put", "look", "commit"}
AnswerKinds == {"none", "txn", "get", "list", "compact", "unsupported"}

Branches == {<<>>, <<"put">>, <<"range">>, <<"delete">>, <<"range", "delete">>}
Txns == [compare : {"mod", "none", "version"}, rev : Nat, success : Branches, failure : Branches]
TxnCalls == [step : TxnSteps, txn : Txns, key : RawKeys, rev : Nat, from : VersionRecords]
GetCalls == [step : {"get"}, key : RawKeys, rev : Nat]
ListCalls == [step : {"list"}, key : Nat, rev : Nat, kvs : SUBSET (Nat \X Nat)]
CallRecords == {Idle} \cup TxnCalls \cup GetCalls \cup ListCalls

Live(r) == [rev |-> r, live |-> TRUE]
Current(vs) == NewestOf(vs, MaxRevision)
\* What is carried out as a create.
Creating(t) == isCreate(t) \/ (isUpdate(t) /\ t.rev = 0)
\* A key that has had version r live has another one now: a request that
\* compares with r fails, now and later.
Passed(vs, r) == \E v \in vs : v.rev >= r /\ v # Live(r)
\* The key was there at some moment of the request; S is what was seen of it.
SomeSeen(S) == \E kv \in S : kv # 0

\* A delete that has read: what it read is a version of the key, and was seen.
\* If it is not what the client expects, that is gone.
DealRight(q, S, vs) ==
  /\ q.from.rev \in S
  /\ q.from.rev # 0 => q.from \in vs /\ q.from.live
  /\ q.txn.rev \notin {0, q.from.rev} => Passed(vs, q.txn.rev)

\* A batch compares with a version older than its own: a create with the
\* tombstone it found, unless the key has been written since; an update with what
\* the client expects; a delete with what it read.
CommitRight(q, S, vs) ==
  /\ q.from.rev < q.rev
  /\ \/ /\ Creating(q.txn)
        /\ ~q.from.live
        /\ Current(vs) = q.from \/ SomeSeen(S)
     \/ /\ isUpdate(q.txn)
        /\ q.txn.rev # 0
        /\ q.from = Live(q.txn.rev)
     \/ /\ isDelete(q.txn)
        /\ q.from.live
        /\ q.from \in vs
        /\ q.from.rev \in S \ {0}
        /\ q.txn.rev \in {0, q.from.rev}

\* A request whose compare has failed: it was right to fail.
RereadRight(q, S, vs) ==
  /\ isUpdate(q.txn) \/ isDelete(q.txn)
  /\ q.txn.rev # 0 => Passed(vs, q.txn.rev)
  /\ isUpdate(q.txn) /\ q.txn.rev = 0 => SomeSeen(S)
  /\ isDelete(q.txn) => q.from.rev \in S \ {0}

\* A Txn in progress: a client expects a version the key has had, and what the
\* key shows now is among what was seen.
AskedRight(q, S, vs) ==
  /\ q.txn.rev # 0 => \E v \in vs : v.rev = q.txn.rev
  /\ Shown(Current(vs)) \in S
  /\ q.step \in {"put", "look"} =>
       /\ Creating(q.txn)
       /\ (\E v \in vs : v.rev > q.rev) => SomeSeen(S)
  /\ q.step \in {"read", "deal"} => isDelete(q.txn)
  /\ q.step = "deal" => DealRight(q, S, vs)
  /\ q.step = "commit" => CommitRight(q, S, vs)
  /\ q.step = "reread" => RereadRight(q, S, vs)

\* The live keys of a store at a revision.
Snapshot(V, rev) ==
  {<<k, NewestOf(V[k], rev).rev>> : k \in {j \in RawKeys : NewestOf(V[j], rev).live}}

\* A List in progress has the snapshot up to the key it goes on from.
ListingRight(q, V, com) ==
  /\ q.rev <= com
  /\ q.kvs \subseteq Snapshot(V, q.rev)
  /\ \A p \in Snapshot(V, q.rev) : p[1] < q.key => p \in q.kvs

\* The answers, as TxnAsEtcd, GetThenWatch and PagesAreOneSnapshot have them,
\* of values.  A Get answers with a revision collected, or with that of a version.
TxnRight(a, S) ==
  LET some == {EtcdAnswer(a.txn, kv) : kv \in S} IN
  (a.txn.compare = "mod" /\ (isDelete(a.txn) => a.txn.rev # 0)) =>
     \/ \E e \in some : e.succeeded = a.succeeded
                        /\ (e.responses = a.responses \/ e.responses = <<>>)
     \/ /\ 0 \in S /\ ~a.succeeded
        /\ \E e \in some : ~e.succeeded
        /\ a.responses[1].kv \in S

GetRight(a, V, com) ==
  /\ a.key \in RawKeys
  /\ a.header \in Nat
  /\ a.header <= com \/ \E v \in V[a.key] : a.header <= v.rev
  /\ (\A v \in V[a.key] : v.rev <= a.header) => a.kv = Shown(Current(V[a.key]))

ListRight(a, V, com) == a.header \in Nat /\ a.header <= com /\ a.kvs = Snapshot(V, a.header)

\* A client: its call, its answer and what was seen, of a store and a committed
\* revision.
ClientRight(q, a, S, V, com) ==
  /\ q.step \in TxnSteps => AskedRight(q, S, V[q.key])
  /\ q.step = "list" => ListingRight(q, V, com)
  /\ q.step = "get" => q.rev <= com
  /\ q.step # "idle" => a = NoAnswer
  /\ a.of = "txn" => TxnRight(a, S)
  /\ a.of = "get" => GetRight(a, V, com)
  /\ a.of = "list" => ListRight(a, V, com)

\* The versions of a key: dealt, and one for a revision.
KeyRight(vs, deal) ==
  /\ \A v \in vs : v.rev \in 1 .. deal
  /\ \A u, v \in vs : u.rev = v.rev => u = v

StoreRight ==
  /\ versions \in [RawKeys -> SUBSET VersionRecords]
  /\ kvDeal \in 1 .. MaxRevision
  /\ kvCommitted \in 1 .. kvDeal
  /\ settled \subseteq kvCommitted + 1 .. kvDeal
  /\ \A k \in RawKeys : KeyRight(versions[k], kvDeal)

ClientTypes ==
  /\ call \in [EtcdClients -> CallRecords]
  /\ answer = [c \in EtcdClients |-> answer[c]]
  /\ \A c \in EtcdClients : answer[c].of \in AnswerKinds
  /\ seen \in [EtcdClients -> SUBSET (0 .. kvDeal)]

\* A revision dealt to a request, not notified yet, that no version has.
Fresh(rev) ==
  /\ rev \in kvCommitted + 1 .. kvDeal
  /\ rev \notin settled
  /\ \A k \in RawKeys : \A v \in versions[k] : v.rev # rev

\* No two requests are dealt the same.
Dealt ==
  \A c \in EtcdClients : call[c].step \in PendingSteps =>
    /\ Fresh(call[c].rev)
    /\ \A d \in EtcdClients \ {c} : call[d].step \in PendingSteps => call[d].rev # call[c].rev

EachRight == \A c \in EtcdClients : ClientRight(call[c], answer[c], seen[c], versions, kvCommitted)

KvInv == StoreRight /\ ClientTypes /\ Dealt /\ EachRight

-----------------------------------------------------------------------------
(* Sets of numbers, and the first keys of a set.                           *)

\* Induction over the natural numbers, for a set of them.
LEMMA NatSet ==
  ASSUME NEW S, 0 \in S, \A n \in Nat : n \in S => n + 1 \in S
  PROVE  \A n \in Nat : n \in S
<1> SUFFICES ASSUME NEW m \in Nat, m \notin S
             PROVE  FALSE
  BY Zenon
<1> DEFINE T == Nat \ S
           R == OpToRel(<, Nat)
<1>1. IsWellFoundedOn(R, Nat)
  BY Zenon, NatLessThanWellFounded
<1>2. T \subseteq Nat /\ T # {}
  BY Zenon
<1> HIDE DEF R, T
<1>3. PICK x \in T : \A y \in T : ~(<<y, x>> \in R)
  BY Zenon, <1>1, <1>2, WFMin
<1>4. \A y, z \in Nat : y < z => <<y, z>> \in R
  BY DEF R, OpToRel
<1>5. x \in Nat /\ x \notin S
  BY Zenon DEF T
<1>6. x # 0
  BY Zenon, <1>5
<1>7. x - 1 \in Nat /\ x - 1 < x /\ x - 1 + 1 = x
  BY <1>5, <1>6
<1>8. x - 1 \notin T
  BY Zenon, <1>3, <1>4, <1>5, <1>7
<1>9. x - 1 \in S
  BY Zenon, <1>7, <1>8 DEF T
<1> QED BY Zenon, <1>5, <1>7, <1>9

\* A set of numbers that is bounded has a greatest one.
LEMMA GreatestOf ==
  ASSUME NEW S \in SUBSET Nat, S # {}, NEW m \in Nat, \A x \in S : x <= m
  PROVE  \E g \in S : \A x \in S : x <= g
<1> DEFINE A == {n \in Nat : (\E y \in S : y + n >= m) => \E g \in S : \A x \in S : x <= g}
<1> SUFFICES \A n \in Nat : n \in A
  <2>1. PICK y \in S : TRUE
    BY Zenon
  <2>2. m \in A
    BY Zenon
  <2>3. y + m >= m
    BY <2>1
  <2> QED BY Zenon, <2>1, <2>2, <2>3
<1>1. 0 \in A
  <2> SUFFICES ASSUME NEW y \in S, y + 0 >= m
               PROVE  \A x \in S : x <= y
    BY Zenon
  <2> QED OBVIOUS
<1>2. ASSUME NEW n \in Nat, n \in A
      PROVE  n + 1 \in A
  <2> SUFFICES ASSUME NEW y \in S, y + (n + 1) >= m
               PROVE  \E g \in S : \A x \in S : x <= g
    <3>1. n + 1 \in Nat
      OBVIOUS
    <3> QED BY Zenon, <3>1
  <2>1. CASE \A x \in S : x <= y
    BY Zenon, <2>1
  <2>2. CASE ~\A x \in S : x <= y
    <3>1. PICK x \in S : ~(x <= y)
      BY Zenon, <2>2
    <3>2. x + n >= m
      BY <3>1
    <3> QED BY Zenon, <1>2, <3>1, <3>2
  <2> QED BY Zenon, <2>1, <2>2
<1> HIDE DEF A
<1> QED BY Zenon, <1>1, <1>2, NatSet

\* A set of numbers has a least one.
LEMMA LeastOf ==
  ASSUME NEW S \in SUBSET Nat, S # {}
  PROVE  \E x \in S : \A y \in S : x <= y
<1> DEFINE R == OpToRel(<, Nat)
<1>1. IsWellFoundedOn(R, Nat)
  BY Zenon, NatLessThanWellFounded
<1>2. \A y, z \in Nat : y < z => <<y, z>> \in R
  BY DEF OpToRel
<1> HIDE DEF R
<1>3. S \subseteq Nat
  OBVIOUS
<1>4. PICK x \in S : \A y \in S : ~(<<y, x>> \in R)
  BY Zenon, <1>1, <1>3, WFMin
<1>5. \A y \in S : ~(y < x)
  BY Zenon, <1>2, <1>3, <1>4
<1>6. \A y \in S : x <= y
  BY <1>3, <1>5
<1> QED BY Zenon, <1>6

\* A finite set of numbers has a greatest one.
LEMMA FiniteGreatest ==
  ASSUME NEW S \in SUBSET Nat, IsFiniteSet(S), S # {}
  PROVE  \E g \in S : \A x \in S : x <= g
<1> DEFINE Has(T) == T = {} \/ \E g \in T : \A x \in T : x <= g
           A == {n \in Nat : \A T \in SUBSET S : Cardinality(T) = n => Has(T)}
<1>1. \A T \in SUBSET S : IsFiniteSet(T) /\ Cardinality(T) \in Nat
  BY Zenon, FS_Subset, FS_CardinalityType
<1>2. 0 \in A
  <2>1. \A T \in SUBSET S : Cardinality(T) = 0 => T = {}
    BY Zenon, <1>1, FS_EmptySet
  <2> QED BY Zenon, <2>1
<1>3. ASSUME NEW n \in Nat, n \in A
      PROVE  n + 1 \in A
  <2> SUFFICES ASSUME NEW T \in SUBSET S, Cardinality(T) = n + 1
               PROVE  Has(T)
    <3>1. n + 1 \in Nat
      OBVIOUS
    <3> QED BY Zenon, <3>1
  <2>1. CASE T = {}
    BY Zenon, <2>1
  <2>2. CASE T # {}
    <3>1. PICK y \in T : TRUE
      BY Zenon, <2>2
    <3>2. PICK U \in SUBSET S : U = T \ {y}
      BY Zenon
    <3>3. Cardinality(U) = Cardinality(T) - 1
      BY Zenon, <1>1, <3>1, <3>2, FS_RemoveElement
    <3>4. Cardinality(U) = n
      BY <3>3
    <3>5. Has(U)
      BY Zenon, <1>3, <3>4
    <3>6. y \in Nat /\ U \subseteq Nat /\ T \subseteq U \cup {y}
      BY Zenon, <3>1, <3>2
    <3>7. CASE U = {}
      <4>1. \A x \in T : x = y
        BY Zenon, <3>2, <3>7
      <4>2. \A x \in T : x <= y
        BY <3>6, <4>1
      <4> QED BY Zenon, <3>1, <4>2
    <3>8. CASE U # {}
      <4>1. PICK g \in U : \A x \in U : x <= g
        BY Zenon, <3>5, <3>8
      <4>2. CASE y <= g
        <5>1. \A x \in T : x <= g
          BY Zenon, <3>6, <4>1, <4>2
        <5> QED BY Zenon, <3>2, <4>1, <5>1
      <4>3. CASE ~(y <= g)
        <5>1. \A x \in U : x <= y
          BY <3>6, <4>1, <4>3
        <5>2. y <= y
          BY <3>6
        <5>3. \A x \in T : x <= y
          BY Zenon, <3>6, <5>1, <5>2
        <5> QED BY Zenon, <3>1, <5>3
      <4> QED BY Zenon, <4>2, <4>3
    <3> QED BY Zenon, <3>7, <3>8
  <2> QED BY Zenon, <2>1, <2>2
<1>4. PICK n \in Nat : n = Cardinality(S)
  BY Zenon, <1>1
<1>5. n \in A
  <2> HIDE DEF A
  <2> QED BY Zenon, <1>2, <1>3, NatSet
<1>6. S \in SUBSET S
  OBVIOUS
<1> QED BY Zenon, <1>4, <1>5, <1>6

\* Max of a finite set of numbers.
LEMMA MaxIs ==
  ASSUME NEW S \in SUBSET Nat, IsFiniteSet(S), S # {}
  PROVE  Max(S) \in S /\ \A x \in S : x <= Max(S)
<1>1. PICK g \in S : \A x \in S : x <= g
  BY Zenon, FiniteGreatest
<1>2. \E m \in S : \A x \in S : m >= x
  BY <1>1
<1>3. Max(S) \in S /\ \A x \in S : Max(S) >= x
  BY Zenon, <1>2 DEF Max
<1> QED BY <1>3

\* Min of a set of numbers.
LEMMA MinIs ==
  ASSUME NEW S \in SUBSET Nat, S # {}
  PROVE  Min(S) \in S /\ \A x \in S : Min(S) <= x
<1>1. \E m \in S : \A x \in S : m <= x
  BY Zenon, LeastOf
<1> QED BY Zenon, <1>1 DEF Min

\* The first keys of a set are keys of it, and what is below one of them is one of them.
LEMMA FirstClosed ==
  ASSUME NEW S \in SUBSET Nat, IsFiniteSet(S), NEW n \in Nat
  PROVE  /\ First(n, S) \subseteq S /\ IsFiniteSet(First(n, S))
         /\ \A k \in First(n, S), j \in S : j <= k => j \in First(n, S)
<1>1. First(n, S) \subseteq S
  BY Zenon DEF First
<1>2. IsFiniteSet(First(n, S))
  BY Zenon, <1>1, FS_Subset
<1>3. ASSUME NEW k \in First(n, S), NEW j \in S, j <= k
      PROVE  j \in First(n, S)
  <2>1. PICK J, K : J = {i \in S : i <= j} /\ K = {i \in S : i <= k}
    BY Zenon
  <2>2. k \in S /\ Cardinality(K) <= n
    BY Zenon, <2>1 DEF First
  <2>3. J \subseteq K
    <3>1. \A i \in S : i <= j => i <= k
      BY <1>3, <2>2
    <3> QED BY Zenon, <2>1, <3>1
  <2>4. IsFiniteSet(K) /\ IsFiniteSet(J) /\ Cardinality(J) <= Cardinality(K)
    <3>1. K \in SUBSET S
      BY Zenon, <2>1
    <3>2. IsFiniteSet(K)
      BY Zenon, <3>1, FS_Subset
    <3> QED BY Zenon, <2>3, <3>2, FS_Subset
  <2>5. Cardinality(J) \in Nat /\ Cardinality(K) \in Nat
    BY Zenon, <2>4, FS_CardinalityType
  <2>6. Cardinality(J) <= n
    BY <2>2, <2>4, <2>5
  <2> QED BY Zenon, <2>1, <2>6 DEF First
<1> QED BY Zenon, <1>1, <1>2, <1>3

\* If there are not more than n of the first n + 1, they are all there are.
LEMMA FirstAll ==
  ASSUME NEW S \in SUBSET Nat, IsFiniteSet(S), NEW n \in Nat,
         Cardinality(First(n + 1, S)) <= n
  PROVE  First(n + 1, S) = S /\ First(n, S) = S
<1>1. PICK F : F = First(n + 1, S)
  BY Zenon
<1>2. F \subseteq S /\ IsFiniteSet(F) /\ Cardinality(F) \in Nat /\ n + 1 \in Nat
  <2>1. n + 1 \in Nat
    OBVIOUS
  <2>2. F \subseteq S /\ IsFiniteSet(F)
    BY Zenon, <1>1, <2>1, FirstClosed
  <2> QED BY Zenon, <2>1, <2>2, FS_CardinalityType
<1>3. F = S
  <2> SUFFICES ASSUME S \ F # {}
               PROVE  FALSE
    BY Zenon, <1>2
  <2>1. S \ F \in SUBSET Nat
    OBVIOUS
  <2>2. PICK k \in S \ F : \A j \in S \ F : k <= j
    BY Zenon, <2>1, LeastOf
  <2>3. PICK K : K = {j \in S : j <= k}
    BY Zenon
  <2>4. K \in SUBSET S /\ IsFiniteSet(K) /\ k \in K /\ Cardinality(K) \in Nat
    <3>1. K \in SUBSET S
      BY Zenon, <2>3
    <3>2. k <= k
      BY <2>2
    <3>3. k \in K
      BY Zenon, <2>2, <2>3, <3>2
    <3>4. IsFiniteSet(K)
      BY Zenon, <3>1, FS_Subset
    <3> QED BY Zenon, <3>1, <3>3, <3>4, FS_CardinalityType
  <2>5. ~(Cardinality(K) <= n + 1)
    BY Zenon, <1>1, <2>2, <2>3 DEF First
  <2>6. K \ {k} \subseteq F
    <3> SUFFICES ASSUME NEW j \in S, j <= k, j # k, j \notin F
                 PROVE  FALSE
      BY Zenon, <2>3
    <3>1. k <= j
      BY Zenon, <2>2
    <3>2. j \in Nat /\ k \in Nat
      BY Zenon, <2>2
    <3> QED BY <3>1, <3>2
  <2>7. Cardinality(K \ {k}) = Cardinality(K) - 1
    BY Zenon, <2>4, FS_RemoveElement
  <2>8. Cardinality(K \ {k}) <= Cardinality(F)
    BY Zenon, <1>2, <2>6, FS_Subset
  <2>9. Cardinality(F) <= n
    BY Zenon, <1>1
  <2> QED BY <1>2, <2>4, <2>5, <2>7, <2>8, <2>9
<1>4. Cardinality(S) <= n /\ Cardinality(S) \in Nat
  BY Zenon, <1>1, <1>2, <1>3
<1>5. ASSUME NEW k \in S
      PROVE  k \in First(n, S)
  <2>1. PICK K : K = {j \in S : j <= k}
    BY Zenon
  <2>2. K \in SUBSET S
    BY Zenon, <2>1
  <2>3. IsFiniteSet(K) /\ Cardinality(K) <= Cardinality(S)
    BY Zenon, <2>2, FS_Subset
  <2>4. Cardinality(K) \in Nat
    BY Zenon, <2>3, FS_CardinalityType
  <2>5. Cardinality(K) <= n
    BY <1>4, <2>3, <2>4
  <2> QED BY Zenon, <2>1, <2>5 DEF First
<1>6. First(n, S) \subseteq S
  BY Zenon DEF First
<1> QED BY Zenon, <1>1, <1>3, <1>5, <1>6

-----------------------------------------------------------------------------
(* The newest version.                                                     *)

\* The newest of some versions not above a revision is one of them and no other is newer.
LEMMA NewestIs ==
  ASSUME NEW vs \in SUBSET VersionRecords, NEW rev \in Nat,
         \E v \in vs : v.rev <= rev
  PROVE  /\ NewestOf(vs, rev) \in vs
         /\ NewestOf(vs, rev).rev <= rev
         /\ \A u \in vs : u.rev <= rev => u.rev <= NewestOf(vs, rev).rev
<1>1. PICK below : below = {v \in vs : v.rev <= rev}
  BY Zenon
<1>2. PICK R : R = {v.rev : v \in below}
  BY Zenon
<1>3. below # {} /\ R # {}
  BY Zenon, <1>1, <1>2
<1>4. R \in SUBSET Nat /\ \A r \in R : r <= rev
  <2>1. \A v \in vs : v.rev \in Nat
    BY Zenon DEF VersionRecords
  <2> QED BY Zenon, <1>1, <1>2, <2>1
<1>5. PICK g \in R : \A r \in R : r <= g
  BY Zenon, <1>3, <1>4, GreatestOf
<1>6. \E v \in below : \A u \in below : u.rev <= v.rev
  BY Zenon, <1>2, <1>5
<1>7. NewestOf(vs, rev) = CHOOSE v \in below : \A u \in below : u.rev <= v.rev
  BY Zenon, <1>1, <1>3 DEF NewestOf
<1>8. NewestOf(vs, rev) \in below /\ \A u \in below : u.rev <= NewestOf(vs, rev).rev
  BY Zenon, <1>6, <1>7
<1> QED BY Zenon, <1>1, <1>8

\* Without a version there is none to show.
LEMMA NewestNone ==
  ASSUME NEW vs, NEW rev, ~ \E v \in vs : v.rev <= rev
  PROVE  NewestOf(vs, rev) = NoVersion
<1>1. {v \in vs : v.rev <= rev} = {}
  BY Zenon
<1> QED BY Zenon, <1>1 DEF NewestOf

\* NoVersion has revision 0 and is not live.
LEMMA NoVersionIs ==
  NoVersion \in VersionRecords /\ NoVersion.rev = 0 /\ NoVersion.live = FALSE
BY DEF NoVersion, VersionRecords

\* What NewestOf returns is a version record.
LEMMA NewestType ==
  ASSUME NEW vs \in SUBSET VersionRecords, NEW rev \in Nat
  PROVE  NewestOf(vs, rev) \in VersionRecords
<1>1. CASE \E v \in vs : v.rev <= rev
  BY Zenon, <1>1, NewestIs
<1>2. CASE ~ \E v \in vs : v.rev <= rev
  BY Zenon, <1>2, NewestNone, NoVersionIs
<1> QED BY Zenon, <1>1, <1>2

\* A version record is told by its two fields.
LEMMA VersionFields ==
  ASSUME NEW v \in VersionRecords
  PROVE  v.rev \in Nat /\ v.live \in BOOLEAN /\ (v.live => v = Live(v.rev))
         /\ Live(v.rev).live = TRUE /\ Live(v.rev).rev = v.rev
<1>1. v.rev \in Nat /\ v.live \in BOOLEAN
  BY Zenon DEF VersionRecords
<1>2. v = [rev |-> v.rev, live |-> v.live]
  BY Zenon DEF VersionRecords
<1>3. v.live => v.live = TRUE
  BY Zenon, <1>1
<1>4. v.live => v = Live(v.rev)
  BY Zenon, <1>2, <1>3 DEF Live
<1>5. Live(v.rev).live = TRUE /\ Live(v.rev).rev = v.rev
  BY Zenon DEF Live
<1> QED BY Zenon, <1>1, <1>4, <1>5

\* The newest version of a key.
LEMMA CurrentIs ==
  ASSUME NEW vs \in SUBSET VersionRecords, NEW deal \in 1 .. MaxRevision, KeyRight(vs, deal)
  PROVE  /\ Current(vs) \in VersionRecords
         /\ vs = {} => Current(vs) = NoVersion
         /\ vs # {} => Current(vs) \in vs /\ \A u \in vs : u.rev <= Current(vs).rev
         /\ Current(vs).live => Current(vs) \in vs /\ Current(vs).rev # 0
<1>1. MaxRevision \in Nat
  BY EtcdKVAssumption
<1>2. \A v \in vs : v.rev \in Nat /\ v.rev # 0 /\ v.rev <= MaxRevision
  BY <1>1 DEF KeyRight
<1>3. Current(vs) \in VersionRecords
  BY Zenon, <1>1, NewestType DEF Current
<1>4. vs = {} => Current(vs) = NoVersion
  BY Zenon, NewestNone DEF Current
<1>5. vs # {} => Current(vs) \in vs /\ \A u \in vs : u.rev <= Current(vs).rev
  <2> SUFFICES ASSUME vs # {}
               PROVE  Current(vs) \in vs /\ \A u \in vs : u.rev <= Current(vs).rev
    BY Zenon
  <2>1. \E v \in vs : v.rev <= MaxRevision
    BY Zenon, <1>2
  <2> QED BY Zenon, <1>1, <1>2, <2>1, NewestIs DEF Current
<1>6. Current(vs).live => vs # {}
  BY Zenon, <1>4, NoVersionIs
<1> QED BY Zenon, <1>2, <1>3, <1>4, <1>5, <1>6

\* A version above all others of its key is the newest.
LEMMA AddedNewest ==
  ASSUME NEW vs \in SUBSET VersionRecords, NEW v \in VersionRecords,
         v.rev <= MaxRevision, \A u \in vs : u.rev < v.rev
  PROVE  Current(vs \cup {v}) = v
<1>1. MaxRevision \in Nat /\ v.rev \in Nat /\ \A u \in vs : u.rev \in Nat
  BY EtcdKVAssumption DEF VersionRecords
<1>2. PICK ws : ws = vs \cup {v}
  BY Zenon
<1>3. ws \in SUBSET VersionRecords /\ v \in ws /\ vs \subseteq ws
  BY Zenon, <1>2
<1>4. PICK n : n = Current(ws)
  BY Zenon
<1>5. n \in ws /\ \A u \in ws : u.rev <= MaxRevision => u.rev <= n.rev
  <2>1. \E u \in ws : u.rev <= MaxRevision
    BY Zenon, <1>3
  <2> QED BY Zenon, <1>1, <1>3, <1>4, <2>1, NewestIs DEF Current
<1>6. v.rev <= n.rev
  BY Zenon, <1>3, <1>5
<1>7. n \notin vs
  BY <1>1, <1>6
<1> QED BY Zenon, <1>2, <1>4, <1>5, <1>7

\* What shows at a revision depends on the versions not above it.
LEMMA NewestBelow ==
  ASSUME NEW vs, NEW ws, NEW rev, {u \in vs : u.rev <= rev} = {u \in ws : u.rev <= rev}
  PROVE  NewestOf(vs, rev) = NewestOf(ws, rev)
<1>1. PICK below : below = {u \in vs : u.rev <= rev} /\ below = {u \in ws : u.rev <= rev}
  BY Zenon
<1>2. CASE below = {}
  BY Zenon, <1>1, <1>2 DEF NewestOf
<1>3. CASE below # {}
  <2>1. NewestOf(vs, rev) = CHOOSE v \in below : \A u \in below : u.rev <= v.rev
    BY Zenon, <1>1, <1>3 DEF NewestOf
  <2>2. NewestOf(ws, rev) = CHOOSE v \in below : \A u \in below : u.rev <= v.rev
    BY Zenon, <1>1, <1>3 DEF NewestOf
  <2> QED BY Zenon, <2>1, <2>2
<1> QED BY Zenon, <1>2, <1>3

\* A version above a revision does not show at it.
LEMMA AddedAbove ==
  ASSUME NEW vs \in SUBSET VersionRecords, NEW v \in VersionRecords, NEW rev \in Nat, rev < v.rev
  PROVE  NewestOf(vs \cup {v}, rev) = NewestOf(vs, rev)
<1>1. ~(v.rev <= rev)
  BY DEF VersionRecords
<1>2. {u \in vs \cup {v} : u.rev <= rev} = {u \in vs : u.rev <= rev}
  BY Zenon, <1>1
<1> QED BY Zenon, <1>2, NewestBelow

\* Nor does it change a snapshot at that revision.
LEMMA SnapshotKept ==
  ASSUME NEW V \in [RawKeys -> SUBSET VersionRecords], NEW k \in RawKeys,
         NEW v \in VersionRecords, NEW rev \in Nat, rev < v.rev,
         NEW W, W[k] = V[k] \cup {v}, \A j \in RawKeys \ {k} : W[j] = V[j]
  PROVE  Snapshot(W, rev) = Snapshot(V, rev)
<1>2. \A j \in RawKeys : NewestOf(W[j], rev) = NewestOf(V[j], rev)
  <2> TAKE j \in RawKeys
  <2>1. V[j] \in SUBSET VersionRecords
    BY Zenon
  <2>2. CASE j = k
    <3>1. NewestOf(V[j] \cup {v}, rev) = NewestOf(V[j], rev)
      BY Zenon, <2>1, AddedAbove
    <3> QED BY Zenon, <2>2, <3>1
  <2>3. CASE j # k
    BY Zenon, <2>3
  <2> QED BY Zenon, <2>2, <2>3
<1>3. {j \in RawKeys : NewestOf(W[j], rev).live} = {j \in RawKeys : NewestOf(V[j], rev).live}
  BY Zenon, <1>2
<1>4. PICK J : J = {j \in RawKeys : NewestOf(V[j], rev).live}
  BY Zenon
<1>5. {<<j, NewestOf(W[j], rev).rev>> : j \in J} = {<<j, NewestOf(V[j], rev).rev>> : j \in J}
  <2>1. \A j \in J : <<j, NewestOf(W[j], rev).rev>> = <<j, NewestOf(V[j], rev).rev>>
    BY Zenon, <1>2, <1>4
  <2> QED BY Zenon, <2>1
<1> QED BY Zenon, <1>3, <1>4, <1>5 DEF Snapshot

-----------------------------------------------------------------------------
(* The answers to a Txn.                                                   *)

\* A request is of one kind.
LEMMA OneKind ==
  ASSUME NEW t
  PROVE  /\ isCreate(t) => ~isUpdate(t) /\ ~isDelete(t)
         /\ isUpdate(t) => ~isDelete(t)
         /\ Creating(t) => ~isDelete(t) /\ t.rev = 0
         /\ isCompact(t) => ~isCreate(t) /\ ~isUpdate(t) /\ ~isDelete(t)
<1>1. /\ <<>> # <<"range">> /\ <<"put">> # <<"delete">> /\ <<"put">> # <<"range", "delete">>
      /\ "mod" # "version" /\ "none" # "version" /\ "none" # "mod"
  OBVIOUS
<1> QED BY Zenon, <1>1 DEF isCreate, isUpdate, isDelete, isCompact, Creating

\* The responses of a branch of one operation.
LEMMA OneResponse ==
  ASSUME NEW op, NEW kv
  PROVE  [i \in DOMAIN <<op>> |-> EtcdResponse(<<op>>[i], kv)] = <<EtcdResponse(op, kv)>>
<1>1. PICK r : r = EtcdResponse(op, kv)
  BY Zenon
<1>2. DOMAIN <<op>> = {1} /\ <<op>>[1] = op /\ DOMAIN <<r>> = {1} /\ <<r>>[1] = r
  OBVIOUS
<1>3. [i \in {1} |-> EtcdResponse(<<op>>[i], kv)] = [i \in {1} |-> r]
  BY Zenon, <1>1, <1>2
<1>4. [i \in {1} |-> r] = <<r>>
  OBVIOUS
<1> QED BY Zenon, <1>1, <1>2, <1>3, <1>4

\* The responses of an empty branch.
LEMMA NoResponse ==
  ASSUME NEW kv
  PROVE  [i \in DOMAIN <<>> |-> EtcdResponse(<<>>[i], kv)] = <<>>
OBVIOUS

\* What etcd answers when the compare holds.
LEMMA EtcdSucceeds ==
  ASSUME NEW t, NEW op, t.compare = "mod", t.success = <<op>>
  PROVE  /\ EtcdAnswer(t, t.rev).succeeded = TRUE
         /\ EtcdAnswer(t, t.rev).responses = <<EtcdResponse(op, t.rev)>>
<1>1. EtcdAnswer(t, t.rev).succeeded = TRUE
  BY Zenon DEF EtcdAnswer
<1>2. EtcdAnswer(t, t.rev).responses = [i \in DOMAIN <<op>> |-> EtcdResponse(<<op>>[i], t.rev)]
  BY Zenon DEF EtcdAnswer
<1> QED BY Zenon, <1>1, <1>2, OneResponse

\* What it answers when the compare fails.
LEMMA EtcdFails ==
  ASSUME NEW t, NEW kv, t.compare = "mod", kv # t.rev
  PROVE  /\ EtcdAnswer(t, kv).succeeded = FALSE
         /\ \A op : t.failure = <<op>> => EtcdAnswer(t, kv).responses = <<EtcdResponse(op, kv)>>
         /\ t.failure = <<>> => EtcdAnswer(t, kv).responses = <<>>
<1>1. t.compare # "none"
  OBVIOUS
<1>2. EtcdAnswer(t, kv).succeeded = FALSE
  BY Zenon, <1>1 DEF EtcdAnswer
<1>3. EtcdAnswer(t, kv).responses = [i \in DOMAIN t.failure |-> EtcdResponse(t.failure[i], kv)]
  BY Zenon, <1>1 DEF EtcdAnswer
<1>4. ASSUME NEW op, t.failure = <<op>>
      PROVE  EtcdAnswer(t, kv).responses = <<EtcdResponse(op, kv)>>
  BY Zenon, <1>3, <1>4, OneResponse
<1>5. ASSUME t.failure = <<>>
      PROVE  EtcdAnswer(t, kv).responses = <<>>
  BY Zenon, <1>3, <1>5, NoResponse
<1> QED BY Zenon, <1>2, <1>4, <1>5

\* An answer that etcd gives at a kv seen is right.
LEMMA RightAt ==
  ASSUME NEW a, NEW S, NEW kv \in S,
         EtcdAnswer(a.txn, kv).succeeded = a.succeeded,
         \/ EtcdAnswer(a.txn, kv).responses = a.responses
         \/ EtcdAnswer(a.txn, kv).responses = <<>>
  PROVE  TxnRight(a, S)
BY Zenon DEF TxnRight

\* So is a failure, and a kv, each true of a moment at which or after which the key was gone.
LEMMA RightWhenGone ==
  ASSUME NEW a, NEW S, NEW kv \in S, 0 \in S, ~a.succeeded,
         ~EtcdAnswer(a.txn, kv).succeeded, a.responses[1].kv \in S
  PROVE  TxnRight(a, S)
BY Zenon DEF TxnRight

\* A create of a key that was not there, or an update of the version expected.
LEMMA PutRight ==
  ASSUME NEW a, NEW S, isCreate(a.txn) \/ isUpdate(a.txn), a.txn.rev \in S,
         a.succeeded = TRUE, a.responses = <<[op |-> "put"]>>
  PROVE  TxnRight(a, S)
<1>1. PICK t : t = a.txn
  BY Zenon
<1>2. t.compare = "mod" /\ t.success = <<"put">>
  BY Zenon, <1>1 DEF isCreate, isUpdate
<1>3. EtcdResponse("put", t.rev) = [op |-> "put"]
  BY Zenon DEF EtcdResponse
<1>4. EtcdAnswer(t, t.rev).succeeded = TRUE /\ EtcdAnswer(t, t.rev).responses = <<[op |-> "put"]>>
  BY Zenon, <1>2, <1>3, EtcdSucceeds
<1> QED BY Zenon, <1>1, <1>4, RightAt

\* A delete of the version expected.
LEMMA DeleteRight ==
  ASSUME NEW a, NEW S, NEW kv \in S, isDelete(a.txn), a.txn.rev \in {0, kv},
         a.succeeded = TRUE, a.responses = <<[op |-> "delete", kv |-> kv]>>
  PROVE  TxnRight(a, S)
<1>1. CASE a.txn.compare = "mod" /\ a.txn.rev # 0
  <2>1. PICK t : t = a.txn
    BY Zenon
  <2>2. t.compare = "mod" /\ kv = t.rev /\ t.success = <<"delete">>
    <3>1. "mod" # "none"
      OBVIOUS
    <3> QED BY Zenon, <1>1, <2>1, <3>1 DEF isDelete
  <2>3. EtcdResponse("delete", t.rev) = [op |-> "delete", kv |-> t.rev]
    BY DEF EtcdResponse
  <2>4. EtcdAnswer(t, t.rev).succeeded = TRUE
        /\ EtcdAnswer(t, t.rev).responses = <<[op |-> "delete", kv |-> t.rev]>>
    <3>1. t.compare = "mod" /\ t.success = <<"delete">>
      BY Zenon, <2>2
    <3> QED BY Zenon, <2>3, <3>1, EtcdSucceeds
  <2>5. t.rev \in S /\ a.responses = <<[op |-> "delete", kv |-> t.rev]>>
    BY <2>2
  <2> QED BY Zenon, <2>1, <2>4, <2>5, RightAt
<1>2. CASE ~(a.txn.compare = "mod" /\ a.txn.rev # 0)
  BY Zenon, <1>2 DEF TxnRight
<1> QED BY Zenon, <1>1, <1>2

\* A create of a key that was there.
LEMMA CreateFailedRight ==
  ASSUME NEW a, NEW S, isCreate(a.txn), SomeSeen(S), a.succeeded = FALSE
  PROVE  TxnRight(a, S)
<1>1. PICK t : t = a.txn
  BY Zenon
<1>2. PICK kv \in S : kv # 0
  BY Zenon DEF SomeSeen
<1>3. t.compare = "mod" /\ kv # t.rev /\ t.failure = <<>>
  BY Zenon, <1>1, <1>2 DEF isCreate
<1>4. EtcdAnswer(t, kv).succeeded = FALSE /\ EtcdAnswer(t, kv).responses = <<>>
  BY Zenon, <1>3, EtcdFails
<1> QED BY Zenon, <1>1, <1>4, RightAt

\* A failure with a kv seen that is not the one expected.
LEMMA RangeRight ==
  ASSUME NEW a, NEW S, NEW kv \in S, isUpdate(a.txn) \/ isDelete(a.txn), kv # a.txn.rev,
         a.succeeded = FALSE, a.responses = <<[op |-> "range", kv |-> kv]>>
  PROVE  TxnRight(a, S)
<1>1. CASE a.txn.compare = "mod"
  <2>1. PICK t : t = a.txn
    BY Zenon
  <2>2. t.compare = "mod" /\ kv # t.rev /\ t.failure = <<"range">>
    <3>1. "mod" # "none"
      OBVIOUS
    <3> QED BY Zenon, <1>1, <2>1, <3>1 DEF isDelete, isUpdate
  <2>3. EtcdResponse("range", kv) = [op |-> "range", kv |-> kv]
    BY DEF EtcdResponse
  <2>4. EtcdAnswer(t, kv).succeeded = FALSE
        /\ EtcdAnswer(t, kv).responses = <<[op |-> "range", kv |-> kv]>>
    BY Zenon, <2>2, <2>3, EtcdFails
  <2> QED BY Zenon, <2>1, <2>4, RightAt
<1>2. CASE a.txn.compare # "mod"
  BY Zenon, <1>2 DEF TxnRight
<1> QED BY Zenon, <1>1, <1>2

\* A failure and a kv seen, when the key was gone at some moment.
LEMMA GoneRight ==
  ASSUME NEW a, NEW S, NEW kv \in S, NEW other \in S, 0 \in S, other # a.txn.rev,
         a.succeeded = FALSE, a.responses = <<[op |-> "range", kv |-> kv]>>
  PROVE  TxnRight(a, S)
<1>1. CASE a.txn.compare = "mod"
  <2>1. PICK t : t = a.txn
    BY Zenon
  <2>2. EtcdAnswer(t, other).succeeded = FALSE
    BY Zenon, <1>1, <2>1, EtcdFails
  <2>3. PICK r : r = [op |-> "range", kv |-> kv]
    BY Zenon
  <2>4. r.kv = kv /\ <<r>>[1] = r
    BY <2>3
  <2>5. a.responses[1].kv \in S
    BY Zenon, <2>3, <2>4
  <2> QED BY Zenon, <2>1, <2>2, <2>5, RightWhenGone
<1>2. CASE a.txn.compare # "mod"
  BY Zenon, <1>2 DEF TxnRight
<1> QED BY Zenon, <1>1, <1>2

-----------------------------------------------------------------------------
(* Clients.                                                                *)

\* The calls, by their steps.
LEMMA CallShapes ==
  ASSUME NEW q \in CallRecords
  PROVE  /\ q.step \in TxnSteps => q \in TxnCalls
         /\ q.step = "get" => q \in GetCalls
         /\ q.step = "list" => q \in ListCalls
         /\ q.step \in TxnSteps \cup {"idle", "get", "list"}
         /\ q.step \in TxnSteps <=> q.step \notin {"idle", "get", "list"}
<1>1. "idle" \notin TxnSteps /\ "get" \notin TxnSteps /\ "list" \notin TxnSteps
      /\ "idle" # "get" /\ "idle" # "list" /\ "get" # "list"
  BY DEF TxnSteps
<1>2. CASE q = Idle
  <2>1. q.step = "idle"
    BY Zenon, <1>2 DEF Idle
  <2> QED BY Zenon, <1>1, <2>1
<1>3. CASE q \in TxnCalls
  <2>1. q.step \in TxnSteps
    BY Zenon, <1>3 DEF TxnCalls
  <2> QED BY Zenon, <1>1, <1>3, <2>1
<1>4. CASE q \in GetCalls
  <2>1. q.step = "get"
    BY Zenon, <1>4 DEF GetCalls
  <2> QED BY Zenon, <1>1, <1>4, <2>1
<1>5. CASE q \in ListCalls
  <2>1. q.step = "list"
    BY Zenon, <1>5 DEF ListCalls
  <2> QED BY Zenon, <1>1, <1>5, <2>1
<1> QED BY Zenon, <1>2, <1>3, <1>4, <1>5 DEF CallRecords

\* The fields of a Txn in progress.
LEMMA TxnFields ==
  ASSUME NEW q \in TxnCalls
  PROVE  /\ q.step \in TxnSteps /\ q.txn \in Txns /\ q.key \in RawKeys /\ q.rev \in Nat
         /\ q.from \in VersionRecords /\ q.from.rev \in Nat /\ q.txn.rev \in Nat
<1>1. q.step \in TxnSteps /\ q.txn \in Txns /\ q.key \in RawKeys /\ q.rev \in Nat
      /\ q.from \in VersionRecords
  BY Zenon DEF TxnCalls
<1>2. q.from.rev \in Nat
  BY Zenon, <1>1 DEF VersionRecords
<1>3. q.txn.rev \in Nat
  BY Zenon, <1>1 DEF Txns
<1> QED BY Zenon, <1>1, <1>2, <1>3

\* NoAnswer is none of the answers.
LEMMA NoAnswerIs ==
  NoAnswer.of = "none" /\ NoAnswer.of \in AnswerKinds
  /\ NoAnswer.of # "txn" /\ NoAnswer.of # "get" /\ NoAnswer.of # "list"
BY DEF NoAnswer, AnswerKinds

\* A client that waits is right if its call is.
LEMMA WaitingRight ==
  ASSUME NEW q, NEW S, NEW V, NEW com,
         q.step \in TxnSteps => AskedRight(q, S, V[q.key]),
         q.step = "list" => ListingRight(q, V, com),
         q.step = "get" => q.rev <= com
  PROVE  ClientRight(q, NoAnswer, S, V, com)
BY Zenon, NoAnswerIs DEF ClientRight

\* A client that was answered is right if the answer is.
LEMMA AnsweredRight ==
  ASSUME NEW a, NEW S, NEW V, NEW com,
         a.of = "txn" => TxnRight(a, S),
         a.of = "get" => GetRight(a, V, com),
         a.of = "list" => ListRight(a, V, com)
  PROVE  ClientRight(Idle, a, S, V, com)
<1>1. Idle.step = "idle" /\ Idle.step \notin TxnSteps /\ Idle.step # "list" /\ Idle.step # "get"
  BY DEF Idle, TxnSteps
<1> QED BY Zenon, <1>1 DEF ClientRight

\* The collector goes on.
LEMMA ClientCommits ==
  ASSUME NEW q \in CallRecords, NEW a, NEW S, NEW V, NEW com \in Nat, NEW com2 \in Nat, com <= com2,
         ClientRight(q, a, S, V, com)
  PROVE  ClientRight(q, a, S, V, com2)
<1>1. ASSUME q.step = "list"
      PROVE  ListingRight(q, V, com2)
  <2>1. ListingRight(q, V, com) /\ q.rev \in Nat
    BY Zenon, <1>1, CallShapes DEF ClientRight, ListCalls
  <2>2. q.rev <= com
    BY Zenon, <2>1 DEF ListingRight
  <2>3. q.rev <= com2
    BY <2>1, <2>2
  <2> QED BY Zenon, <2>1, <2>3 DEF ListingRight
<1>2. ASSUME q.step = "get"
      PROVE  q.rev <= com2
  <2>1. q.rev <= com /\ q.rev \in Nat
    BY Zenon, <1>2, CallShapes DEF ClientRight, GetCalls
  <2> QED BY <2>1
<1>3. ASSUME a.of = "get"
      PROVE  GetRight(a, V, com2)
  <2>1. GetRight(a, V, com)
    BY Zenon, <1>3 DEF ClientRight
  <2>2. a.header \in Nat
    BY Zenon, <2>1 DEF GetRight
  <2>3. a.header <= com => a.header <= com2
    BY <2>2
  <2> QED BY Zenon, <2>1, <2>3 DEF GetRight
<1>4. ASSUME a.of = "list"
      PROVE  ListRight(a, V, com2)
  <2>1. ListRight(a, V, com)
    BY Zenon, <1>4 DEF ClientRight
  <2>2. a.header \in Nat
    BY Zenon, <2>1 DEF ListRight
  <2>3. a.header <= com => a.header <= com2
    BY <2>2
  <2> QED BY Zenon, <2>1, <2>3 DEF ListRight
<1> QED BY Zenon, <1>1, <1>2, <1>3, <1>4 DEF ClientRight

\* A Txn in progress on a key while a version of the key is written: the version is above all
\* others, and a tombstone is put only over a live one.
LEMMA AskedWrites ==
  ASSUME NEW vs \in SUBSET VersionRecords, NEW deal \in 1 .. MaxRevision, KeyRight(vs, deal),
         NEW v \in VersionRecords, v.rev \in 1 .. MaxRevision, \A u \in vs : u.rev < v.rev,
         v.live \/ Shown(Current(vs)) # 0,
         NEW q \in TxnCalls, NEW S, AskedRight(q, S, vs)
  PROVE  AskedRight(q, S \cup {Shown(v)}, vs \cup {v})
<1>1. PICK ws, T : ws = vs \cup {v} /\ T = S \cup {Shown(v)}
  BY Zenon
<1>2. vs \subseteq ws /\ S \subseteq T /\ Shown(v) \in T
  BY Zenon, <1>1
<1>3. Current(ws) = v
  <2>1. v.rev <= MaxRevision
    BY EtcdKVAssumption
  <2> QED BY Zenon, <1>1, <2>1, AddedNewest
<1>4. SomeSeen(T)
  <2>1. CASE v.live
    <3>1. Shown(v) = v.rev
      BY Zenon, <2>1 DEF Shown
    <3>2. v.rev # 0
      OBVIOUS
    <3> QED BY Zenon, <1>2, <3>1, <3>2 DEF SomeSeen
  <2>2. CASE Shown(Current(vs)) # 0
    <3>1. Shown(Current(vs)) \in S
      BY Zenon DEF AskedRight
    <3> QED BY Zenon, <1>2, <2>2, <3>1 DEF SomeSeen
  <2> QED BY Zenon, <2>1, <2>2
<1>5. \A r : Passed(vs, r) => Passed(ws, r)
  BY Zenon, <1>2 DEF Passed
<1>6. ASSUME q.step = "deal"
      PROVE  DealRight(q, T, ws)
  <2>1. DealRight(q, S, vs)
    BY Zenon, <1>6 DEF AskedRight
  <2> QED BY Zenon, <1>2, <1>5, <2>1 DEF DealRight
<1>7. ASSUME q.step = "commit"
      PROVE  CommitRight(q, T, ws)
  <2>1. CommitRight(q, S, vs)
    BY Zenon, <1>7 DEF AskedRight
  <2> QED BY Zenon, <1>2, <1>4, <2>1 DEF CommitRight
<1>8. ASSUME q.step = "reread"
      PROVE  RereadRight(q, T, ws)
  <2>1. RereadRight(q, S, vs)
    BY Zenon, <1>8 DEF AskedRight
  <2> QED BY Zenon, <1>2, <1>4, <1>5, <2>1 DEF RereadRight
<1>9. AskedRight(q, T, ws)
  <2>1. q.txn.rev # 0 => \E u \in ws : u.rev = q.txn.rev
    BY Zenon, <1>2 DEF AskedRight
  <2>2. Shown(Current(ws)) \in T
    BY Zenon, <1>2, <1>3
  <2>3. q.step \in {"put", "look"} => Creating(q.txn)
    BY Zenon DEF AskedRight
  <2>4. q.step \in {"read", "deal"} => isDelete(q.txn)
    BY Zenon DEF AskedRight
  <2> QED BY Zenon, <1>4, <1>6, <1>7, <1>8, <2>1, <2>2, <2>3, <2>4 DEF AskedRight
<1> QED BY Zenon, <1>1, <1>9

\* A version above the committed revision changes no snapshot at a committed one.
LEMMA SnapshotsKept ==
  ASSUME NEW V \in [RawKeys -> SUBSET VersionRecords], NEW k \in RawKeys, NEW com \in Nat,
         NEW v \in VersionRecords, com < v.rev,
         NEW W, W[k] = V[k] \cup {v}, \A j \in RawKeys \ {k} : W[j] = V[j]
  PROVE  \A rev \in Nat : rev <= com => Snapshot(W, rev) = Snapshot(V, rev)
<1> SUFFICES ASSUME NEW rev \in Nat, rev <= com
             PROVE  Snapshot(W, rev) = Snapshot(V, rev)
  BY Zenon
<1>1. rev < v.rev
  BY DEF VersionRecords
<1> QED BY <1>1, SnapshotKept

\* Another client while a version is written.
LEMMA ClientWrites ==
  ASSUME NEW V \in [RawKeys -> SUBSET VersionRecords], NEW k \in RawKeys,
         NEW deal \in 1 .. MaxRevision, KeyRight(V[k], deal), NEW com \in Nat,
         NEW v \in VersionRecords, v.rev \in 1 .. MaxRevision, com < v.rev,
         \A u \in V[k] : u.rev < v.rev,
         v.live \/ Shown(Current(V[k])) # 0,
         NEW q \in CallRecords, NEW a, NEW S, ClientRight(q, a, S, V, com),
         NEW W, W[k] = V[k] \cup {v}, \A j \in RawKeys \ {k} : W[j] = V[j],
         NEW T, T = IF q.step \notin {"idle", "get", "list"} /\ q.key = k
                    THEN S \cup {Shown(v)} ELSE S
  PROVE  ClientRight(q, a, T, W, com)
<1>4. ASSUME q.step \in TxnSteps
      PROVE  AskedRight(q, T, W[q.key])
  <2>1. q \in TxnCalls /\ q.step \notin {"idle", "get", "list"}
    BY Zenon, <1>4, CallShapes
  <2>2. q.key \in RawKeys /\ AskedRight(q, S, V[q.key])
    BY Zenon, <1>4, <2>1, TxnFields DEF ClientRight
  <2>3. CASE q.key = k
    <3>1. T = S \cup {Shown(v)}
      BY Zenon, <2>1, <2>3
    <3>2. AskedRight(q, S, V[k]) /\ V[k] \in SUBSET VersionRecords
      BY Zenon, <2>2, <2>3
    <3>3. AskedRight(q, S \cup {Shown(v)}, V[k] \cup {v})
      BY Zenon, <2>1, <3>2, AskedWrites
    <3> QED BY Zenon, <2>3, <3>1, <3>3
  <2>4. CASE q.key # k
    <3>1. T = S /\ W[q.key] = V[q.key]
      BY Zenon, <2>2, <2>4
    <3> QED BY Zenon, <2>2, <3>1
  <2> QED BY Zenon, <2>3, <2>4
<1>5. \A rev \in Nat : rev <= com => Snapshot(W, rev) = Snapshot(V, rev)
  BY SnapshotsKept
<1>6. ASSUME q.step = "list"
      PROVE  ListingRight(q, W, com)
  <2>1. ListingRight(q, V, com) /\ q.rev \in Nat
    BY Zenon, <1>6, CallShapes DEF ClientRight, ListCalls
  <2>2. Snapshot(W, q.rev) = Snapshot(V, q.rev)
    BY Zenon, <1>5, <2>1 DEF ListingRight
  <2> QED BY Zenon, <2>1, <2>2 DEF ListingRight
<1>7. ASSUME a.of = "list"
      PROVE  ListRight(a, W, com)
  <2>1. ListRight(a, V, com)
    BY Zenon, <1>7 DEF ClientRight
  <2>2. Snapshot(W, a.header) = Snapshot(V, a.header)
    BY Zenon, <1>5, <2>1 DEF ListRight
  <2> QED BY Zenon, <2>1, <2>2 DEF ListRight
<1>8. ASSUME a.of = "get"
      PROVE  GetRight(a, W, com)
  <2>1. GetRight(a, V, com)
    BY Zenon, <1>8 DEF ClientRight
  <2>2. a.key \in RawKeys /\ a.header \in Nat
    BY Zenon, <2>1 DEF GetRight
  <2>3. CASE a.key # k
    <3>1. W[a.key] = V[a.key]
      BY Zenon, <2>2, <2>3
    <3> QED BY Zenon, <2>1, <3>1 DEF GetRight
  <2>4. CASE a.key = k
    <3>1. a.header < v.rev
      <4>1. CASE a.header <= com
        BY <2>2, <4>1
      <4>2. CASE \E u \in V[k] : a.header <= u.rev
        <5>1. PICK u \in V[k] : a.header <= u.rev
          BY Zenon, <4>2
        <5>2. u.rev \in Nat /\ u.rev < v.rev
          <6>1. u \in VersionRecords
            BY Zenon
          <6> QED BY Zenon, <6>1 DEF VersionRecords
        <5> QED BY <2>2, <5>1, <5>2
      <4> QED BY Zenon, <2>1, <2>4, <4>1, <4>2 DEF GetRight
    <3>2. v \in W[k]
      BY Zenon
    <3>3. a.header <= v.rev /\ ~(v.rev <= a.header)
      BY <2>2, <3>1
    <3> QED BY Zenon, <2>2, <2>4, <3>2, <3>3 DEF GetRight
  <2> QED BY Zenon, <2>3, <2>4
<1>9. ASSUME a.of = "txn"
      PROVE  TxnRight(a, T)
  <2>1. q.step = "idle"
    BY Zenon, <1>9, NoAnswerIs DEF ClientRight
  <2>2. T = S
    BY Zenon, <2>1
  <2> QED BY Zenon, <1>9, <2>2 DEF ClientRight
<1> QED BY Zenon, <1>4, <1>6, <1>7, <1>8, <1>9 DEF ClientRight

-----------------------------------------------------------------------------
(* The pages of a List.                                                    *)

\* The keys of a page and what follows it: the page holds the first live keys, all of them
\* up to its last key, or all there are when it has none.
LEMMA FirstPage ==
  ASSUME NEW L \in SUBSET RawKeys
  PROVE  \E found, F :
           /\ found = First(Limit + 1, L) /\ F = First(Limit, found)
           /\ F \subseteq L
           /\ Cardinality(found) > Limit => Max(F) \in RawKeys /\ \A k \in L : k <= Max(F) => k \in F
           /\ ~(Cardinality(found) > Limit) => F = L
<1>0. PICK found, F : found = First(Limit + 1, L) /\ F = First(Limit, found)
  BY Zenon
<1>1. Limit \in Nat /\ Limit + 1 \in Nat /\ 1 <= Limit /\ RawKeys \subseteq Nat /\ IsFiniteSet(RawKeys)
  BY EtcdKVAssumption
<1>2. L \in SUBSET Nat /\ IsFiniteSet(L)
  BY Zenon, <1>1, FS_Subset
<1>3. /\ found \subseteq L /\ IsFiniteSet(found)
      /\ \A k \in found, j \in L : j <= k => j \in found
  BY Zenon, <1>0, <1>1, <1>2, FirstClosed
<1>4. found \in SUBSET Nat /\ Cardinality(found) \in Nat
  BY Zenon, <1>2, <1>3, FS_CardinalityType
<1>5. /\ F \subseteq found /\ IsFiniteSet(F)
      /\ \A k \in F, j \in found : j <= k => j \in F
  BY Zenon, <1>0, <1>1, <1>3, <1>4, FirstClosed
<1>6. ASSUME Cardinality(found) > Limit
      PROVE  Max(F) \in RawKeys /\ \A k \in L : k <= Max(F) => k \in F
  <2>1. found # {}
    <3>1. Cardinality(found) # 0
      BY <1>1, <1>4, <1>6
    <3> QED BY Zenon, <3>1, FS_EmptySet
  <2>2. PICK k \in found : \A j \in found : k <= j
    BY Zenon, <1>4, <2>1, LeastOf
  <2>3. {j \in found : j <= k} = {k}
    <3>1. \A j \in found : j <= k => j = k
      BY <1>4, <2>2
    <3>2. k <= k
      BY <1>4
    <3> QED BY Zenon, <3>1, <3>2
  <2>4. Cardinality({j \in found : j <= k}) = 1
    BY Zenon, <2>3, FS_Singleton
  <2>5. k \in F
    BY Zenon, <1>0, <1>1, <2>4 DEF First
  <2>6. F \in SUBSET Nat /\ F # {}
    BY Zenon, <1>4, <1>5, <2>5
  <2>7. Max(F) \in F
    BY Zenon, <1>5, <2>6, MaxIs
  <2> QED BY Zenon, <1>3, <1>5, <2>7
<1>7. ASSUME ~(Cardinality(found) > Limit)
      PROVE  F = L
  <2>1. Cardinality(First(Limit + 1, L)) <= Limit
    BY <1>0, <1>1, <1>4, <1>7
  <2>2. First(Limit + 1, L) = L /\ First(Limit, L) = L
    BY Zenon, <1>1, <1>2, <2>1, FirstAll
  <2> QED BY Zenon, <1>0, <2>2
<1>8. F \subseteq L
  BY Zenon, <1>3, <1>5
<1> QED BY Zenon, <1>0, <1>6, <1>7, <1>8

\* Page, of the versions of a store.
PageIs(V, rev, from, found, kvs, last) ==
  /\ found = First(Limit + 1, {k \in RawKeys : k >= from /\ NewestOf(V[k], rev).live})
  /\ kvs = {<<k, NewestOf(V[k], rev).rev>> : k \in First(Limit, found)}
  /\ last = IF Cardinality(found) > Limit THEN Max(First(Limit, found)) ELSE 0

\* A page of a List is part of the snapshot, and has all of it that lies between its
\* first key and its last.
LEMMA PageRight ==
  ASSUME NEW V \in [RawKeys -> SUBSET VersionRecords], NEW rev \in Nat, NEW from \in Nat,
         NEW found, NEW kvs, NEW last, PageIs(V, rev, from, found, kvs, last)
  PROVE  /\ kvs \subseteq Snapshot(V, rev)
         /\ last \in Nat
         /\ last = 0 => \A p \in Snapshot(V, rev) : p[1] >= from => p \in kvs
         /\ last # 0 => \A p \in Snapshot(V, rev) : p[1] >= from /\ p[1] <= last => p \in kvs
<1> USE DEF PageIs
<1>0. PICK L : L = {k \in RawKeys : k >= from /\ NewestOf(V[k], rev).live}
  BY Zenon
<1>2. L \in SUBSET RawKeys /\ found = First(Limit + 1, L)
  BY Zenon, <1>0
<1>1. PICK F : F = First(Limit, found) /\ L = {k \in RawKeys : k >= from /\ NewestOf(V[k], rev).live}
  BY Zenon, <1>0
<1>3. /\ F \subseteq L
      /\ Cardinality(found) > Limit => Max(F) \in RawKeys /\ \A k \in L : k <= Max(F) => k \in F
      /\ ~(Cardinality(found) > Limit) => F = L
  <2>1. PICK g, G : /\ g = First(Limit + 1, L) /\ G = First(Limit, g)
                    /\ G \subseteq L
                    /\ Cardinality(g) > Limit => Max(G) \in RawKeys /\ \A k \in L : k <= Max(G) => k \in G
                    /\ ~(Cardinality(g) > Limit) => G = L
    BY Zenon, <1>2, FirstPage
  <2>2. g = found /\ G = F
    BY <1>1, <1>2, <2>1
  <2> QED BY Zenon, <2>1, <2>2
<1>4. \A k \in RawKeys : k \in Nat /\ k # 0
  BY Zenon, EtcdKVAssumption
<1>5. kvs = {<<k, NewestOf(V[k], rev).rev>> : k \in F}
  BY Zenon, <1>1
<1>6. kvs \subseteq Snapshot(V, rev)
  <2>1. \A k \in F : k \in RawKeys /\ NewestOf(V[k], rev).live
    BY Zenon, <1>1, <1>3
  <2> QED BY Zenon, <1>5, <2>1 DEF Snapshot
<1>7. \A p \in Snapshot(V, rev) : p[1] \in RawKeys /\ p = <<p[1], NewestOf(V[p[1]], rev).rev>>
                                  /\ (p[1] >= from => p[1] \in L)
  <2> SUFFICES ASSUME NEW k \in RawKeys, NewestOf(V[k], rev).live,
                      NEW p, p = <<k, NewestOf(V[k], rev).rev>>
               PROVE  p[1] \in RawKeys /\ p = <<p[1], NewestOf(V[p[1]], rev).rev>>
                      /\ (p[1] >= from => p[1] \in L)
    BY Zenon DEF Snapshot
  <2>1. p[1] = k
    OBVIOUS
  <2> QED BY Zenon, <1>1, <2>1
<1>8. \A p \in Snapshot(V, rev) : p[1] \in F => p \in kvs
  BY Zenon, <1>5, <1>7
<1>9. CASE Cardinality(found) > Limit
  <2>1. last = Max(F)
    BY Zenon, <1>1, <1>9
  <2>2. last \in Nat /\ last # 0
    BY Zenon, <1>3, <1>4, <1>9, <2>1
  <2>3. \A p \in Snapshot(V, rev) : p[1] >= from /\ p[1] <= last => p \in kvs
    BY Zenon, <1>3, <1>7, <1>8, <1>9, <2>1
  <2> QED BY Zenon, <1>6, <2>2, <2>3
<1>10. CASE ~(Cardinality(found) > Limit)
  <2>1. last = 0 /\ last \in Nat
    BY <1>10
  <2>2. \A p \in Snapshot(V, rev) : p[1] >= from => p \in kvs
    BY Zenon, <1>3, <1>7, <1>8, <1>10
  <2> QED BY Zenon, <1>6, <2>1, <2>2
<1> QED BY Zenon, <1>9, <1>10

\* The snapshot is a set of pairs of numbers.
LEMMA SnapshotType ==
  ASSUME NEW V \in [RawKeys -> SUBSET VersionRecords], NEW rev \in Nat
  PROVE  Snapshot(V, rev) \in SUBSET (Nat \X Nat) /\ \A p \in Snapshot(V, rev) : p[1] \in Nat
<1> SUFFICES ASSUME NEW k \in RawKeys, NEW p, p = <<k, NewestOf(V[k], rev).rev>>
             PROVE  p \in Nat \X Nat /\ p[1] \in Nat
  BY Zenon DEF Snapshot
<1>1. k \in Nat
  BY Zenon, EtcdKVAssumption
<1>2. NewestOf(V[k], rev) \in VersionRecords
  <2>1. V[k] \in SUBSET VersionRecords
    BY Zenon
  <2> QED BY Zenon, <2>1, NewestType
<1>3. NewestOf(V[k], rev).rev \in Nat
  BY Zenon, <1>2 DEF VersionRecords
<1>4. p \in Nat \X Nat
  BY Zenon, <1>1, <1>3
<1> QED BY <1>1, <1>4

-----------------------------------------------------------------------------
(* A step of a client keeps the invariant.                                 *)

\* A step of a client that writes no version.
LEMMA ClientStep ==
  ASSUME KvInv, NEW c \in EtcdClients, NEW q \in CallRecords, NEW a, NEW S,
         versions' = versions, kvCommitted' = kvCommitted,
         kvDeal' \in {kvDeal, kvDeal + 1}, kvDeal' <= MaxRevision,
         call' = [call EXCEPT ![c] = q],
         answer' = [answer EXCEPT ![c] = a], a.of \in AnswerKinds,
         seen' = [seen EXCEPT ![c] = S], S \in SUBSET (0 .. kvDeal),
         \/ settled' = settled
         \/ settled' = settled \cup {kvDeal + 1} /\ kvDeal' = kvDeal + 1
         \/ settled' = settled \cup {call[c].rev} /\ call[c].step \in PendingSteps,
         q.step \in PendingSteps =>
           /\ settled' = settled
           /\ \/ q.rev = kvDeal + 1 /\ kvDeal' = kvDeal + 1
              \/ q.rev = call[c].rev /\ call[c].step \in PendingSteps,
         ClientRight(q, a, S, versions, kvCommitted)
  PROVE  KvInv'
<1>1. /\ versions \in [RawKeys -> SUBSET VersionRecords]
      /\ kvDeal \in 1 .. MaxRevision
      /\ kvCommitted \in 1 .. kvDeal
      /\ settled \subseteq kvCommitted + 1 .. kvDeal
      /\ \A k \in RawKeys : KeyRight(versions[k], kvDeal)
  BY Zenon DEF KvInv, StoreRight
<1>2. /\ call \in [EtcdClients -> CallRecords]
      /\ answer = [d \in EtcdClients |-> answer[d]]
      /\ \A d \in EtcdClients : answer[d].of \in AnswerKinds
      /\ seen \in [EtcdClients -> SUBSET (0 .. kvDeal)]
  BY Zenon DEF KvInv, ClientTypes
<1>3. MaxRevision \in Nat
  BY EtcdKVAssumption
<1>4. kvDeal' \in 1 .. MaxRevision /\ kvCommitted \in 1 .. kvDeal' /\ 1 .. kvDeal \subseteq 1 .. kvDeal'
      /\ 0 .. kvDeal \subseteq 0 .. kvDeal' /\ kvCommitted + 1 .. kvDeal \subseteq kvCommitted + 1 .. kvDeal'
  BY <1>1, <1>3
<1>5. \A d \in EtcdClients : call[d].step \in PendingSteps =>
        /\ call[d].rev \in kvCommitted + 1 .. kvDeal
        /\ call[d].rev \notin settled
        /\ \A k \in RawKeys : \A v \in versions[k] : v.rev # call[d].rev
        /\ \A e \in EtcdClients \ {d} : call[e].step \in PendingSteps => call[e].rev # call[d].rev
  BY Zenon DEF KvInv, Dealt, Fresh
<1>6. settled' \subseteq kvCommitted + 1 .. kvDeal'
  <2>1. CASE settled' = settled
    BY Zenon, <1>1, <1>4, <2>1
  <2>2. CASE settled' = settled \cup {kvDeal + 1} /\ kvDeal' = kvDeal + 1
    <3>1. kvDeal + 1 \in kvCommitted + 1 .. kvDeal'
      BY <1>1, <2>2
    <3> QED BY Zenon, <1>1, <1>4, <2>2, <3>1
  <2>3. CASE settled' = settled \cup {call[c].rev} /\ call[c].step \in PendingSteps
    BY Zenon, <1>1, <1>4, <1>5, <2>3
  <2> QED BY Zenon, <2>1, <2>2, <2>3
<1>7. StoreRight'
  <2>1. \A k \in RawKeys : KeyRight(versions[k], kvDeal')
    BY Zenon, <1>1, <1>4 DEF KeyRight
  <2> QED BY Zenon, <1>1, <1>4, <1>6, <2>1 DEF StoreRight
<1>8. /\ call' \in [EtcdClients -> CallRecords] /\ call'[c] = q
      /\ \A d \in EtcdClients \ {c} : call'[d] = call[d]
  BY Zenon, <1>2
<1>9. /\ answer' = [d \in EtcdClients |-> answer'[d]] /\ answer'[c] = a
      /\ \A d \in EtcdClients \ {c} : answer'[d] = answer[d]
  BY Zenon, <1>2
<1>10. /\ seen' \in [EtcdClients -> SUBSET (0 .. kvDeal')] /\ seen'[c] = S
       /\ \A d \in EtcdClients \ {c} : seen'[d] = seen[d]
  <2>1. seen \in [EtcdClients -> SUBSET (0 .. kvDeal')] /\ S \in SUBSET (0 .. kvDeal')
    BY Zenon, <1>2, <1>4
  <2> QED BY Zenon, <2>1
<1>11. ClientTypes'
  <2>1. \A d \in EtcdClients : answer'[d].of \in AnswerKinds
    BY Zenon, <1>2, <1>9
  <2> QED BY Zenon, <1>8, <1>9, <1>10, <2>1 DEF ClientTypes
<1>12. EachRight'
  <2>1. ASSUME NEW d \in EtcdClients
        PROVE  ClientRight(call'[d], answer'[d], seen'[d], versions, kvCommitted)
    <3>1. CASE d = c
      BY Zenon, <1>8, <1>9, <1>10, <3>1
    <3>2. CASE d # c
      BY Zenon, <1>8, <1>9, <1>10, <3>2 DEF KvInv, EachRight
    <3> QED BY Zenon, <3>1, <3>2
  <2> QED BY Zenon, <2>1 DEF EachRight
<1>13. \A v \in UNION {versions[k] : k \in RawKeys} : v.rev # kvDeal + 1
  <2> SUFFICES ASSUME NEW k \in RawKeys, NEW v \in versions[k]
               PROVE  v.rev # kvDeal + 1
    BY Zenon
  <2>1. v.rev \in 1 .. kvDeal
    BY Zenon, <1>1 DEF KeyRight
  <2> QED BY <1>1, <2>1
<1>14. \A d \in EtcdClients \ {c} : call[d].step \in PendingSteps =>
         call[d].rev \notin settled' /\ call[d].rev # kvDeal + 1 /\ call[d].rev \in kvCommitted + 1 .. kvDeal'
  <2> SUFFICES ASSUME NEW d \in EtcdClients \ {c}, call[d].step \in PendingSteps
               PROVE  call[d].rev \notin settled' /\ call[d].rev # kvDeal + 1
                      /\ call[d].rev \in kvCommitted + 1 .. kvDeal'
    BY Zenon
  <2>1. call[d].rev \in kvCommitted + 1 .. kvDeal /\ call[d].rev \notin settled
    BY Zenon, <1>5
  <2>2. call[d].rev # kvDeal + 1
    BY <1>1, <2>1
  <2>3. call[c].step \in PendingSteps => call[d].rev # call[c].rev
    BY Zenon, <1>5
  <2>4. call[d].rev \notin settled'
    <3>1. CASE settled' = settled
      BY Zenon, <2>1, <3>1
    <3>2. CASE settled' = settled \cup {kvDeal + 1}
      BY Zenon, <2>1, <2>2, <3>2
    <3>3. CASE settled' = settled \cup {call[c].rev} /\ call[c].step \in PendingSteps
      BY Zenon, <2>1, <2>3, <3>3
    <3> QED BY Zenon, <3>1, <3>2, <3>3
  <2> QED BY Zenon, <1>4, <2>1, <2>2, <2>4
<1>15. q.step \in PendingSteps =>
         /\ q.rev \in kvCommitted + 1 .. kvDeal' /\ q.rev \notin settled'
         /\ \A k \in RawKeys : \A v \in versions[k] : v.rev # q.rev
         /\ \A d \in EtcdClients \ {c} : call[d].step \in PendingSteps => call[d].rev # q.rev
  <2> SUFFICES ASSUME q.step \in PendingSteps
               PROVE  /\ q.rev \in kvCommitted + 1 .. kvDeal' /\ q.rev \notin settled'
                      /\ \A k \in RawKeys : \A v \in versions[k] : v.rev # q.rev
                      /\ \A d \in EtcdClients \ {c} : call[d].step \in PendingSteps => call[d].rev # q.rev
    BY Zenon
  <2>1. CASE q.rev = kvDeal + 1 /\ kvDeal' = kvDeal + 1
    <3>1. q.rev \in kvCommitted + 1 .. kvDeal' /\ q.rev \notin settled
      BY <1>1, <2>1
    <3> QED BY Zenon, <1>13, <1>14, <2>1, <3>1
  <2>2. CASE q.rev = call[c].rev /\ call[c].step \in PendingSteps
    BY Zenon, <1>4, <1>5, <2>2
  <2> QED BY Zenon, <2>1, <2>2
<1>16. Dealt'
  <2>1. ASSUME NEW d \in EtcdClients, call'[d].step \in PendingSteps
        PROVE  /\ call'[d].rev \in kvCommitted + 1 .. kvDeal' /\ call'[d].rev \notin settled'
               /\ \A k \in RawKeys : \A v \in versions[k] : v.rev # call'[d].rev
               /\ \A e \in EtcdClients \ {d} : call'[e].step \in PendingSteps => call'[e].rev # call'[d].rev
    <3>1. CASE d = c
      BY Zenon, <1>8, <1>15, <2>1, <3>1
    <3>2. CASE d # c
      <4>1. call'[d] = call[d] /\ call[d].step \in PendingSteps
        BY Zenon, <1>8, <2>1, <3>2
      <4>2. call[d].rev \in kvCommitted + 1 .. kvDeal' /\ call[d].rev \notin settled'
            /\ \A k \in RawKeys : \A v \in versions[k] : v.rev # call[d].rev
        BY Zenon, <1>5, <1>14, <3>2, <4>1
      <4>3. ASSUME NEW e \in EtcdClients \ {d}, call'[e].step \in PendingSteps
            PROVE  call'[e].rev # call[d].rev
        <5>1. CASE e = c
          BY Zenon, <1>8, <1>15, <3>2, <4>1, <4>3, <5>1
        <5>2. CASE e # c
          <6>1. call'[e] = call[e]
            BY Zenon, <1>8, <5>2
          <6> QED BY Zenon, <1>5, <4>1, <4>3, <6>1
        <5> QED BY Zenon, <5>1, <5>2
      <4> QED BY Zenon, <4>1, <4>2, <4>3
    <3> QED BY Zenon, <3>1, <3>2
  <2> QED BY Zenon, <2>1 DEF Dealt, Fresh
<1> QED BY Zenon, <1>7, <1>11, <1>12, <1>16 DEF KvInv

\* A step of a client that writes a version and answers: the version is above all versions
\* of its key, and a tombstone is put over a live version only.
LEMMA WriteStep ==
  ASSUME KvInv, NEW c \in EtcdClients, NEW k \in RawKeys, NEW v \in VersionRecords, NEW a,
         call[c].step \in PendingSteps, call[c].key = k, v.rev = call[c].rev,
         \A u \in versions[k] : u.rev < v.rev,
         v.live \/ Shown(Current(versions[k])) # 0,
         versions' = [versions EXCEPT ![k] = @ \cup {v}],
         seen' = [d \in EtcdClients |-> IF Calls(d, k) THEN seen[d] \cup {Shown(v)} ELSE seen[d]],
         settled' = settled \cup {call[c].rev},
         call' = [call EXCEPT ![c] = Idle],
         answer' = [answer EXCEPT ![c] = a], a.of = "txn", TxnRight(a, seen[c] \cup {Shown(v)}),
         kvDeal' = kvDeal, kvCommitted' = kvCommitted
  PROVE  KvInv'
<1>1. /\ versions \in [RawKeys -> SUBSET VersionRecords]
      /\ kvDeal \in 1 .. MaxRevision
      /\ kvCommitted \in 1 .. kvDeal
      /\ settled \subseteq kvCommitted + 1 .. kvDeal
      /\ \A j \in RawKeys : KeyRight(versions[j], kvDeal)
  BY Zenon DEF KvInv, StoreRight
<1>2. /\ call \in [EtcdClients -> CallRecords]
      /\ answer = [d \in EtcdClients |-> answer[d]]
      /\ \A d \in EtcdClients : answer[d].of \in AnswerKinds
      /\ seen \in [EtcdClients -> SUBSET (0 .. kvDeal)]
  BY Zenon DEF KvInv, ClientTypes
<1>3. MaxRevision \in Nat
  BY EtcdKVAssumption
<1>4. \A d \in EtcdClients : call[d].step \in PendingSteps =>
        /\ call[d].rev \in kvCommitted + 1 .. kvDeal
        /\ call[d].rev \notin settled
        /\ \A j \in RawKeys : \A u \in versions[j] : u.rev # call[d].rev
        /\ \A e \in EtcdClients \ {d} : call[e].step \in PendingSteps => call[e].rev # call[d].rev
  BY Zenon DEF KvInv, Dealt, Fresh
<1>5. v.rev \in kvCommitted + 1 .. kvDeal
  BY Zenon, <1>4
<1>6. v.rev \in 1 .. kvDeal /\ v.rev \in 1 .. MaxRevision /\ kvCommitted < v.rev /\ kvCommitted \in Nat
  BY <1>1, <1>3, <1>5
<1>7. /\ versions' \in [RawKeys -> SUBSET VersionRecords]
      /\ versions'[k] = versions[k] \cup {v}
      /\ \A j \in RawKeys \ {k} : versions'[j] = versions[j]
  <2>1. versions[k] \cup {v} \in SUBSET VersionRecords
    BY Zenon, <1>1
  <2> QED BY Zenon, <1>1, <2>1
<1>8. StoreRight'
  <2>1. settled' \subseteq kvCommitted + 1 .. kvDeal
    BY Zenon, <1>1, <1>5
  <2>2. \A j \in RawKeys : KeyRight(versions'[j], kvDeal)
    <3> TAKE j \in RawKeys
    <3>1. KeyRight(versions[j], kvDeal)
      BY Zenon, <1>1
    <3>2. CASE j # k
      BY Zenon, <1>7, <3>1, <3>2
    <3>3. CASE j = k
      <4>1. PICK ws : ws = versions[k] \cup {v}
        BY Zenon
      <4>2. \A u \in versions[k] : u.rev # v.rev
        BY Zenon, <1>4
      <4>3. KeyRight(ws, kvDeal)
        BY Zenon, <1>6, <3>1, <3>3, <4>1, <4>2 DEF KeyRight
      <4> QED BY Zenon, <1>7, <3>3, <4>1, <4>3
    <3> QED BY Zenon, <3>2, <3>3
  <2> QED BY Zenon, <1>1, <1>7, <2>1, <2>2 DEF StoreRight
<1>9. /\ call' \in [EtcdClients -> CallRecords] /\ call'[c] = Idle
      /\ \A d \in EtcdClients \ {c} : call'[d] = call[d]
  <2>1. Idle \in CallRecords
    BY Zenon DEF CallRecords
  <2> QED BY Zenon, <1>2, <2>1
<1>10. /\ answer' = [d \in EtcdClients |-> answer'[d]] /\ answer'[c] = a
       /\ \A d \in EtcdClients \ {c} : answer'[d] = answer[d]
  BY Zenon, <1>2
<1>11. \A d \in EtcdClients :
         /\ seen'[d] = IF call[d].step \notin {"idle", "get", "list"} /\ call[d].key = k
                       THEN seen[d] \cup {Shown(v)} ELSE seen[d]
         /\ seen'[d] \in SUBSET (0 .. kvDeal)
  <2>1. Shown(v) \in 0 .. kvDeal
    <3>1. 0 \in 0 .. kvDeal /\ v.rev \in 0 .. kvDeal
      BY <1>1, <1>6
    <3> QED BY Zenon, <3>1 DEF Shown
  <2> TAKE d \in EtcdClients
  <2>2. seen'[d] = IF call[d].step \notin {"idle", "get", "list"} /\ call[d].key = k
                   THEN seen[d] \cup {Shown(v)} ELSE seen[d]
    BY Zenon DEF Calls
  <2>3. seen[d] \in SUBSET (0 .. kvDeal)
    BY Zenon, <1>2
  <2> QED BY Zenon, <2>1, <2>2, <2>3
<1>12. ClientTypes'
  <2>1. \A d \in EtcdClients : answer'[d].of \in AnswerKinds
    <3>1. "txn" \in AnswerKinds
      BY DEF AnswerKinds
    <3> QED BY Zenon, <1>2, <1>10, <3>1
  <2>2. seen' \in [EtcdClients -> SUBSET (0 .. kvDeal)]
    BY Zenon, <1>11
  <2> QED BY Zenon, <1>9, <1>10, <2>1, <2>2 DEF ClientTypes
<1>13. EachRight'
  <2>1. ASSUME NEW d \in EtcdClients
        PROVE  ClientRight(call'[d], answer'[d], seen'[d], versions', kvCommitted)
    <3>1. CASE d = c
      <4>1. seen'[c] = seen[c] \cup {Shown(v)}
        <5>1. call[c].step \notin {"idle", "get", "list"}
          BY DEF PendingSteps
        <5> QED BY Zenon, <1>11, <5>1
      <4>2. PICK S, W, com : S = seen'[c] /\ W = versions' /\ com = kvCommitted
        BY Zenon
      <4>3. TxnRight(a, S) /\ a.of # "get" /\ a.of # "list"
        BY <4>1, <4>2
      <4>4. ClientRight(Idle, a, S, W, com)
        BY Zenon, <4>3, AnsweredRight
      <4> QED BY Zenon, <1>9, <1>10, <3>1, <4>2, <4>4
    <3>2. CASE d # c
      <4>1. PICK V, W, com, deal, q, S, T, b :
               /\ V = versions /\ W = versions' /\ com = kvCommitted /\ deal = kvDeal
               /\ q = call[d] /\ S = seen[d] /\ T = seen'[d] /\ b = answer[d]
        BY Zenon
      <4>2. /\ V \in [RawKeys -> SUBSET VersionRecords] /\ deal \in 1 .. MaxRevision
            /\ KeyRight(V[k], deal) /\ com \in Nat /\ com < v.rev
            /\ v.live \/ Shown(Current(V[k])) # 0
            /\ \A u \in V[k] : u.rev < v.rev
        BY Zenon, <1>1, <1>6, <4>1
      <4>3. q \in CallRecords /\ ClientRight(q, b, S, V, com)
        BY Zenon, <1>2, <4>1 DEF KvInv, EachRight
      <4>4. W[k] = V[k] \cup {v} /\ \A j \in RawKeys \ {k} : W[j] = V[j]
        BY Zenon, <1>7, <4>1
      <4>5. T = IF q.step \notin {"idle", "get", "list"} /\ q.key = k
                THEN S \cup {Shown(v)} ELSE S
        BY Zenon, <1>11, <4>1
      <4>6. ClientRight(q, b, T, W, com)
        BY <1>6, <4>2, <4>3, <4>4, <4>5, ClientWrites
      <4>7. call'[d] = q /\ answer'[d] = b /\ seen'[d] = T /\ versions' = W /\ kvCommitted = com
        BY Zenon, <1>9, <1>10, <3>2, <4>1
      <4> QED BY Zenon, <4>6, <4>7
    <3> QED BY Zenon, <3>1, <3>2
  <2> QED BY Zenon, <2>1 DEF EachRight
<1>14. Dealt'
  <2>1. ASSUME NEW d \in EtcdClients, call'[d].step \in PendingSteps
        PROVE  /\ call'[d].rev \in kvCommitted + 1 .. kvDeal /\ call'[d].rev \notin settled'
               /\ \A j \in RawKeys : \A u \in versions'[j] : u.rev # call'[d].rev
               /\ \A e \in EtcdClients \ {d} : call'[e].step \in PendingSteps => call'[e].rev # call'[d].rev
    <3>1. Idle.step \notin PendingSteps
      BY DEF Idle, PendingSteps
    <3>2. d # c /\ call'[d] = call[d] /\ call[d].step \in PendingSteps
      BY Zenon, <1>9, <2>1, <3>1
    <3>3. call[d].rev # call[c].rev
      BY Zenon, <1>4, <3>2
    <3>4. call[d].rev \in kvCommitted + 1 .. kvDeal /\ call[d].rev \notin settled'
      BY Zenon, <1>4, <3>2, <3>3
    <3>5. ASSUME NEW j \in RawKeys, NEW u \in versions'[j]
          PROVE  u.rev # call[d].rev
      <4>1. CASE u \in versions[j]
        BY Zenon, <1>4, <3>2, <4>1
      <4>2. CASE u \notin versions[j]
        <5>1. u = v
          BY Zenon, <1>7, <3>5, <4>2
        <5> QED BY Zenon, <3>3, <5>1
      <4> QED BY Zenon, <4>1, <4>2
    <3>6. ASSUME NEW e \in EtcdClients \ {d}, call'[e].step \in PendingSteps
          PROVE  call'[e].rev # call[d].rev
      <4>1. e # c /\ call'[e] = call[e]
        BY Zenon, <1>9, <3>1, <3>6
      <4> QED BY Zenon, <1>4, <3>2, <3>6, <4>1
    <3> QED BY Zenon, <3>2, <3>4, <3>5, <3>6
  <2> QED BY Zenon, <2>1 DEF Dealt, Fresh
<1> QED BY Zenon, <1>8, <1>12, <1>13, <1>14 DEF KvInv

\* The collector.
LEMMA CollectStep ==
  ASSUME KvInv, CollectNext
  PROVE  KvInv'
<1>1. /\ versions \in [RawKeys -> SUBSET VersionRecords]
      /\ kvDeal \in 1 .. MaxRevision
      /\ kvCommitted \in 1 .. kvDeal
      /\ settled \subseteq kvCommitted + 1 .. kvDeal
      /\ \A j \in RawKeys : KeyRight(versions[j], kvDeal)
  BY Zenon DEF KvInv, StoreRight
<1>2. /\ kvCommitted + 1 \in settled
      /\ kvCommitted' = kvCommitted + 1
      /\ settled' = settled \ {kvCommitted + 1}
      /\ versions' = versions /\ kvDeal' = kvDeal /\ call' = call /\ answer' = answer /\ seen' = seen
  BY Zenon DEF CollectNext
<1>3. kvCommitted + 1 \in kvCommitted + 1 .. kvDeal
  BY Zenon, <1>1, <1>2
<1>4. MaxRevision \in Nat
  BY EtcdKVAssumption
<1>5. /\ kvCommitted' \in 1 .. kvDeal /\ kvCommitted' \in Nat /\ kvCommitted \in Nat /\ kvCommitted <= kvCommitted'
      /\ \A r \in kvCommitted + 1 .. kvDeal : r # kvCommitted + 1 => r \in kvCommitted' + 1 .. kvDeal
  BY <1>1, <1>2, <1>3, <1>4
<1>6. StoreRight'
  <2>1. settled' \subseteq kvCommitted' + 1 .. kvDeal
    BY Zenon, <1>1, <1>2, <1>5
  <2> QED BY Zenon, <1>1, <1>2, <1>5, <2>1 DEF StoreRight
<1>7. ClientTypes'
  BY Zenon, <1>2 DEF KvInv, ClientTypes
<1>8. Dealt'
  <2>1. ASSUME NEW d \in EtcdClients, call[d].step \in PendingSteps
        PROVE  call[d].rev \in kvCommitted' + 1 .. kvDeal /\ call[d].rev \notin settled'
    <3>1. call[d].rev \in kvCommitted + 1 .. kvDeal /\ call[d].rev \notin settled
      BY Zenon, <2>1 DEF KvInv, Dealt, Fresh
    <3> QED BY Zenon, <1>2, <1>5, <3>1
  <2> QED BY Zenon, <1>2, <2>1 DEF KvInv, Dealt, Fresh
<1>9. EachRight'
  <2>1. ASSUME NEW d \in EtcdClients
        PROVE  ClientRight(call[d], answer[d], seen[d], versions, kvCommitted')
    <3>1. PICK q, b, S, V, com, com2 : /\ q = call[d] /\ b = answer[d] /\ S = seen[d]
                                       /\ V = versions /\ com = kvCommitted /\ com2 = kvCommitted'
      BY Zenon
    <3>2. q \in CallRecords /\ com \in Nat /\ com2 \in Nat /\ com <= com2 /\ ClientRight(q, b, S, V, com)
      BY Zenon, <1>5, <3>1 DEF KvInv, ClientTypes, EachRight
    <3>3. ClientRight(q, b, S, V, com2)
      BY Zenon, <3>2, ClientCommits
    <3> QED BY Zenon, <3>1, <3>3
  <2> QED BY Zenon, <1>2, <2>1 DEF EachRight
<1> QED BY Zenon, <1>6, <1>7, <1>8, <1>9 DEF KvInv

-----------------------------------------------------------------------------
(* The steps of a Txn.                                                     *)

\* A step of a Txn that also keeps what was read, or the revision dealt.
\* How the record of a call changes.
NextCall(c, q) == call' = [call EXCEPT ![c] = q]
GotoFrom(c, s, v) == call' = [call EXCEPT ![c].step = s, ![c].from = v]
GotoRev(c, s, r) == call' = [call EXCEPT ![c].step = s, ![c].rev = r]

\* The next step of a Txn.
LEMMA CallGoes ==
  ASSUME call \in [EtcdClients -> CallRecords], NEW c \in EtcdClients, call[c] \in TxnCalls,
         NEW s \in TxnSteps, Goto(c, s)
  PROVE  \E p \in TxnCalls :
           /\ NextCall(c, p)
           /\ p.step = s /\ p.txn = call[c].txn /\ p.key = call[c].key /\ p.rev = call[c].rev /\ p.from = call[c].from
<1>1. PICK p : p = [call[c] EXCEPT !.step = s]
  BY Zenon
<1>2. p \in TxnCalls /\ p.step = s /\ p.txn = call[c].txn /\ p.key = call[c].key /\ p.rev = call[c].rev /\ p.from = call[c].from
  BY <1>1 DEF TxnCalls
<1>3. NextCall(c, p)
  BY <1>1 DEF NextCall, Goto
<1> QED BY Zenon, <1>2, <1>3

\* The next step with what was read.
LEMMA CallReads ==
  ASSUME call \in [EtcdClients -> CallRecords], NEW c \in EtcdClients, call[c] \in TxnCalls,
         NEW s \in TxnSteps, NEW v \in VersionRecords, GotoFrom(c, s, v)
  PROVE  \E p \in TxnCalls :
           /\ NextCall(c, p)
           /\ p.step = s /\ p.txn = call[c].txn /\ p.key = call[c].key /\ p.rev = call[c].rev /\ p.from = v
<1>1. PICK p : p = [call[c] EXCEPT !.step = s, !.from = v]
  BY Zenon
<1>2. p \in TxnCalls /\ p.step = s /\ p.txn = call[c].txn /\ p.key = call[c].key /\ p.rev = call[c].rev /\ p.from = v
  BY Zenon, <1>1 DEF TxnCalls
<1>3. NextCall(c, p)
  BY Zenon, <1>1 DEF NextCall, GotoFrom
<1> QED BY Zenon, <1>2, <1>3

\* The next step with the revision dealt.
LEMMA CallDeals ==
  ASSUME call \in [EtcdClients -> CallRecords], NEW c \in EtcdClients, call[c] \in TxnCalls,
         NEW s \in TxnSteps, NEW r \in Nat, GotoRev(c, s, r)
  PROVE  \E p \in TxnCalls :
           /\ NextCall(c, p)
           /\ p.step = s /\ p.txn = call[c].txn /\ p.key = call[c].key /\ p.rev = r /\ p.from = call[c].from
<1>1. PICK p : p = [call[c] EXCEPT !.step = s, !.rev = r]
  BY Zenon
<1>2. p \in TxnCalls /\ p.step = s /\ p.txn = call[c].txn /\ p.key = call[c].key /\ p.rev = r /\ p.from = call[c].from
  BY Zenon, <1>1 DEF TxnCalls
<1>3. NextCall(c, p)
  BY Zenon, <1>1 DEF NextCall, GotoRev
<1> QED BY Zenon, <1>2, <1>3

\* The operators of the model, on the versions of a key.
LEMMA NewestIsCurrent ==
  ASSUME NEW k
  PROVE  Newest(k) = Current(versions[k]) /\ get(k) = Shown(Current(versions[k]))
BY Zenon DEF get, Newest, NewestAt, Current

\* What the invariant says of a client.
LEMMA ClientFacts ==
  ASSUME KvInv, NEW c \in EtcdClients
  PROVE  /\ kvDeal \in 1 .. MaxRevision /\ kvCommitted \in 1 .. kvDeal /\ MaxRevision \in Nat
         /\ call \in [EtcdClients -> CallRecords] /\ call[c] \in CallRecords
         /\ answer = [answer EXCEPT ![c] = answer[c]] /\ answer[c].of \in AnswerKinds
         /\ seen = [seen EXCEPT ![c] = seen[c]] /\ seen[c] \in SUBSET (0 .. kvDeal)
         /\ ClientRight(call[c], answer[c], seen[c], versions, kvCommitted)
<1>1. kvDeal \in 1 .. MaxRevision /\ kvCommitted \in 1 .. kvDeal
  BY Zenon DEF KvInv, StoreRight
<1>2. MaxRevision \in Nat
  BY EtcdKVAssumption
<1>3. /\ call \in [EtcdClients -> CallRecords]
      /\ answer = [d \in EtcdClients |-> answer[d]] /\ answer[c].of \in AnswerKinds
      /\ seen \in [EtcdClients -> SUBSET (0 .. kvDeal)]
  BY Zenon DEF KvInv, ClientTypes
<1>4. answer = [answer EXCEPT ![c] = answer[c]]
  BY <1>3
<1>5. seen = [seen EXCEPT ![c] = seen[c]] /\ seen[c] \in SUBSET (0 .. kvDeal)
  BY Zenon, <1>3
<1>6. ClientRight(call[c], answer[c], seen[c], versions, kvCommitted)
  BY Zenon DEF KvInv, EachRight
<1>7. call[c] \in CallRecords
  BY Zenon, <1>3
<1> QED BY Zenon, <1>1, <1>2, <1>3, <1>4, <1>5, <1>6, <1>7

\* What it says of a client with a Txn in progress.
LEMMA CallerFacts ==
  ASSUME KvInv, NEW c \in EtcdClients, call[c].step \in TxnSteps
  PROVE  \E q \in TxnCalls, vs \in SUBSET VersionRecords :
           /\ q = call[c] /\ vs = versions[q.key] /\ q.key \in RawKeys
           /\ KeyRight(vs, kvDeal) /\ AskedRight(q, seen[c], vs) /\ answer[c] = NoAnswer
           /\ Newest(q.key) = Current(vs) /\ get(q.key) = Shown(Current(vs))
           /\ q.step \in PendingSteps => q.rev \in kvCommitted + 1 .. kvDeal /\ \A u \in vs : u.rev # q.rev
<1>1. call[c] \in CallRecords /\ ClientRight(call[c], answer[c], seen[c], versions, kvCommitted)
  BY Zenon, ClientFacts
<1>2. call[c] \in TxnCalls
  BY Zenon, <1>1, CallShapes
<1>3. PICK q \in TxnCalls : q = call[c]
  BY Zenon, <1>2
<1>4. q.key \in RawKeys
  BY Zenon, TxnFields
<1>5. PICK vs \in SUBSET VersionRecords : vs = versions[q.key]
  BY Zenon, <1>4 DEF KvInv, StoreRight
<1>6. KeyRight(vs, kvDeal)
  BY Zenon, <1>4, <1>5 DEF KvInv, StoreRight
<1>7. AskedRight(q, seen[c], vs)
  BY Zenon, <1>1, <1>3, <1>5 DEF ClientRight
<1>8. answer[c] = NoAnswer
  <2>1. call[c].step # "idle"
    BY DEF TxnSteps
  <2> QED BY Zenon, <1>1, <2>1 DEF ClientRight
<1>9. q.step \in PendingSteps => q.rev \in kvCommitted + 1 .. kvDeal /\ \A u \in vs : u.rev # q.rev
  BY Zenon, <1>3, <1>4, <1>5 DEF KvInv, Dealt, Fresh
<1>10. Newest(q.key) = Current(vs) /\ get(q.key) = Shown(Current(vs))
  BY Zenon, <1>5, NewestIsCurrent
<1> QED BY Zenon, <1>3, <1>4, <1>5, <1>6, <1>7, <1>8, <1>9, <1>10

\* The batch failed on its compare: a create answers, the others read the key again.
LEMMA CASFailedStep ==
  ASSUME KvInv, NEW c \in EtcdClients, call[c].step \in PendingSteps, CASFailed(c),
         isCreate(call[c].txn) => SomeSeen(seen[c]),
         ~isCreate(call[c].txn) => RereadRight(call[c], seen[c], versions[call[c].key])
  PROVE  KvInv'
<1>0. call[c].step \in TxnSteps
  BY DEF PendingSteps, TxnSteps
<1>1. PICK q \in TxnCalls, vs \in SUBSET VersionRecords :
        /\ q = call[c] /\ vs = versions[q.key] /\ q.key \in RawKeys
        /\ KeyRight(vs, kvDeal) /\ AskedRight(q, seen[c], vs) /\ answer[c] = NoAnswer
        /\ Newest(q.key) = Current(vs) /\ get(q.key) = Shown(Current(vs))
        /\ q.step \in PendingSteps => q.rev \in kvCommitted + 1 .. kvDeal /\ \A u \in vs : u.rev # q.rev
  BY Zenon, <1>0, CallerFacts
<1>2. /\ kvDeal \in 1 .. MaxRevision /\ kvCommitted \in 1 .. kvDeal /\ MaxRevision \in Nat
      /\ call \in [EtcdClients -> CallRecords] /\ call[c] \in CallRecords
      /\ answer = [answer EXCEPT ![c] = answer[c]]
      /\ seen = [seen EXCEPT ![c] = seen[c]] /\ seen[c] \in SUBSET (0 .. kvDeal)
  BY Zenon, ClientFacts
<1>3. /\ settled' = settled \cup {call[c].rev}
      /\ versions' = versions /\ kvDeal' = kvDeal /\ kvCommitted' = kvCommitted /\ seen' = seen
  BY Zenon DEF CASFailed, Notify
<1>4. kvDeal' \in {kvDeal, kvDeal + 1} /\ kvDeal' <= MaxRevision
  BY <1>2, <1>3
<1>5. PICK S \in SUBSET (0 .. kvDeal) : S = seen[c] /\ seen' = [seen EXCEPT ![c] = S]
  BY Zenon, <1>2, <1>3
<1>6. CASE isCreate(call[c].txn) /\ CreateAnswer(c, FALSE) /\ Respond(c)
  <2>1. PICK a : a = [of |-> "txn", txn |-> call[c].txn, key |-> call[c].key, header |-> call[c].rev,
                      succeeded |-> FALSE, responses |-> <<[op |-> "put"]>>]
    BY Zenon
  <2>2. a.of = "txn" /\ a.of # "get" /\ a.of # "list" /\ a.txn = q.txn /\ a.succeeded = FALSE
    BY <1>1, <2>1
  <2>3. answer' = [answer EXCEPT ![c] = a] /\ call' = [call EXCEPT ![c] = Idle]
    BY Zenon, <1>6, <2>1 DEF CreateAnswer, Answer, Respond
  <2>4. TxnRight(a, S)
    BY Zenon, <1>1, <1>5, <1>6, <2>2, CreateFailedRight
  <2>5. PICK V, com : V = versions /\ com = kvCommitted
    BY Zenon
  <2>6. ClientRight(Idle, a, S, V, com)
    BY Zenon, <2>2, <2>4, AnsweredRight
  <2>7. Idle \in CallRecords /\ Idle.step \notin PendingSteps /\ a.of \in AnswerKinds
    BY <2>2 DEF CallRecords, Idle, PendingSteps, AnswerKinds
  <2>8. PICK p \in CallRecords : p = Idle
    BY Zenon, <2>7
  <2> QED BY Zenon, <1>3, <1>4, <1>5, <2>3, <2>5, <2>6, <2>7, <2>8, ClientStep
<1>7. CASE ~isCreate(call[c].txn) /\ Goto(c, "reread") /\ answer' = answer
  <2>1. "reread" \in TxnSteps /\ Goto(c, "reread") /\ call[c] \in TxnCalls /\ call \in [EtcdClients -> CallRecords]
    BY Zenon, <1>1, <1>2, <1>7 DEF TxnSteps
  <2>2. PICK p \in TxnCalls :
          /\ NextCall(c, p)
          /\ p.step = "reread" /\ p.txn = call[c].txn /\ p.key = call[c].key
          /\ p.rev = call[c].rev /\ p.from = call[c].from
    BY Zenon, <2>1, CallGoes
  <2>3. call' = [call EXCEPT ![c] = p]
    BY Zenon, <2>2 DEF NextCall
  <2>4. p.step = "reread" /\ p.txn = q.txn /\ p.key = q.key /\ p.rev = q.rev /\ p.from = q.from
    BY Zenon, <1>1, <2>2
  <2>6. RereadRight(q, S, vs)
    BY Zenon, <1>1, <1>5, <1>7
  <2>7. RereadRight(p, S, vs)
    BY Zenon, <2>4, <2>6 DEF RereadRight
  <2>8. AskedRight(p, S, vs)
    <3>1. p.step \notin {"put", "look"} /\ p.step \notin {"read", "deal"} /\ p.step # "deal" /\ p.step # "commit"
      BY <2>4
    <3>2. /\ p.txn.rev # 0 => \E v \in vs : v.rev = p.txn.rev
          /\ Shown(Current(vs)) \in S
      BY Zenon, <1>1, <1>5, <2>4 DEF AskedRight
    <3> QED BY Zenon, <2>7, <3>1, <3>2 DEF AskedRight
  <2>9. PICK V, com : V = versions /\ com = kvCommitted
    BY Zenon
  <2>10. p.step # "list" /\ p.step # "get" /\ p.step \notin PendingSteps /\ p \in CallRecords
    BY <2>4 DEF PendingSteps, CallRecords
  <2>11. V[p.key] = vs
    BY Zenon, <1>1, <2>4, <2>9
  <2>12. ClientRight(p, NoAnswer, S, V, com)
    BY Zenon, <2>8, <2>10, <2>11, WaitingRight
  <2>13. PICK a : a = NoAnswer
    BY Zenon
  <2>14. answer' = [answer EXCEPT ![c] = a] /\ a.of \in AnswerKinds
    BY Zenon, <1>1, <1>2, <1>7, <2>13, NoAnswerIs
  <2> QED BY Zenon, <1>3, <1>4, <1>5, <2>3, <2>9, <2>10, <2>12, <2>13, <2>14, ClientStep
<1> QED BY Zenon, <1>6, <1>7 DEF CASFailed

\* naiveCreator.create.
LEMMA CreatePutStep ==
  ASSUME KvInv, NEW c \in EtcdClients, CreatePut(c)
  PROVE  KvInv'
<1>0. call[c].step = "put" /\ call[c].step \in TxnSteps /\ call[c].step \in PendingSteps
  BY DEF CreatePut, TxnSteps, PendingSteps
<1>1. PICK q \in TxnCalls, vs \in SUBSET VersionRecords :
        /\ q = call[c] /\ vs = versions[q.key] /\ q.key \in RawKeys
        /\ KeyRight(vs, kvDeal) /\ AskedRight(q, seen[c], vs) /\ answer[c] = NoAnswer
        /\ Newest(q.key) = Current(vs) /\ get(q.key) = Shown(Current(vs))
        /\ q.step \in PendingSteps => q.rev \in kvCommitted + 1 .. kvDeal /\ \A u \in vs : u.rev # q.rev
  BY Zenon, <1>0, CallerFacts
<1>2. /\ kvDeal \in 1 .. MaxRevision /\ kvCommitted \in 1 .. kvDeal /\ MaxRevision \in Nat
      /\ call \in [EtcdClients -> CallRecords] /\ call[c] \in CallRecords
      /\ answer = [answer EXCEPT ![c] = answer[c]]
      /\ seen = [seen EXCEPT ![c] = seen[c]] /\ seen[c] \in SUBSET (0 .. kvDeal)
  BY Zenon, ClientFacts
<1>3. Creating(q.txn) /\ q.txn.rev = 0 /\ (isCreate(q.txn) \/ isUpdate(q.txn)) /\ Shown(Current(vs)) \in seen[c]
  <2>1. Creating(q.txn) /\ Shown(Current(vs)) \in seen[c]
    BY Zenon, <1>0, <1>1 DEF AskedRight
  <2> QED BY Zenon, <2>1, OneKind DEF Creating
<1>4. kvDeal' = kvDeal /\ kvCommitted' = kvCommitted
  BY Zenon DEF CreatePut
<1>5. CASE /\ versions[call[c].key] = {} /\ Write(c, TRUE) /\ Notify(c)
           /\ IF isCreate(call[c].txn) THEN CreateAnswer(c, TRUE) ELSE UpdateAnswer(c, call[c].rev, TRUE, 0)
           /\ Respond(c)
  <2>1. PICK v : v = [rev |-> call[c].rev, live |-> TRUE]
    BY Zenon
  <2>2. v \in VersionRecords /\ v.rev = q.rev /\ v.live = TRUE
    <3>1. q.rev \in Nat
      BY Zenon, TxnFields
    <3> QED BY <1>1, <2>1, <3>1 DEF VersionRecords
  <2>3. /\ versions' = [versions EXCEPT ![q.key] = @ \cup {v}]
        /\ seen' = [d \in EtcdClients |-> IF Calls(d, q.key) THEN seen[d] \cup {Shown(v)} ELSE seen[d]]
    BY Zenon, <1>1, <1>5, <2>1 DEF Write
  <2>4. settled' = settled \cup {call[c].rev} /\ call' = [call EXCEPT ![c] = Idle]
    BY Zenon, <1>5 DEF Notify, Respond
  <2>5. PICK a : a = [of |-> "txn", txn |-> call[c].txn, key |-> call[c].key, header |-> call[c].rev,
                      succeeded |-> TRUE, responses |-> <<[op |-> "put"]>>]
    BY Zenon
  <2>6. a.of = "txn" /\ a.txn = q.txn /\ a.succeeded = TRUE /\ a.responses = <<[op |-> "put"]>>
    BY <1>1, <2>5
  <2>7. answer' = [answer EXCEPT ![c] = a]
    BY Zenon, <1>5, <2>5 DEF CreateAnswer, UpdateAnswer, Answer
  <2>8. 0 \in seen[c]
    <3>1. vs = {}
      BY Zenon, <1>1, <1>5
    <3>2. Current(vs) = NoVersion
      BY Zenon, <3>1, NewestNone DEF Current
    <3> QED BY Zenon, <1>3, <3>2, NoVersionIs DEF Shown
  <2>9. PICK S : S = seen[c] \cup {Shown(v)}
    BY Zenon
  <2>10. TxnRight(a, S)
    <3>1. a.txn.rev \in S /\ (isCreate(a.txn) \/ isUpdate(a.txn))
      BY Zenon, <1>3, <2>6, <2>8, <2>9
    <3> QED BY Zenon, <2>6, <3>1, PutRight
  <2>11. \A u \in versions[q.key] : u.rev < v.rev
    BY Zenon, <1>1, <1>5
  <2>12. PICK k \in RawKeys : k = q.key
    BY Zenon, <1>1
  <2>13. call[c].key = k /\ v.rev = call[c].rev /\ v.live
    BY Zenon, <1>1, <2>2, <2>12
  <2> QED BY Zenon, <1>0, <1>4, <2>2, <2>3, <2>4, <2>6, <2>7, <2>9, <2>10, <2>11, <2>12,
            <2>13, WriteStep
<1>6. CASE /\ versions[call[c].key] # {} /\ Goto(c, "look") /\ versions' = versions
           /\ settled' = settled /\ answer' = answer /\ seen' = seen
  <2>1. "look" \in TxnSteps /\ Goto(c, "look") /\ call[c] \in TxnCalls /\ call \in [EtcdClients -> CallRecords]
    BY Zenon, <1>1, <1>2, <1>6 DEF TxnSteps
  <2>2. PICK p \in TxnCalls :
          /\ NextCall(c, p)
          /\ p.step = "look" /\ p.txn = call[c].txn /\ p.key = call[c].key
          /\ p.rev = call[c].rev /\ p.from = call[c].from
    BY Zenon, <2>1, CallGoes
  <2>3. call' = [call EXCEPT ![c] = p]
    BY Zenon, <2>2 DEF NextCall
  <2>4. p.step = "look" /\ p.txn = q.txn /\ p.key = q.key /\ p.rev = q.rev /\ p.from = q.from
    BY Zenon, <1>1, <2>2
  <2>6. PICK S \in SUBSET (0 .. kvDeal) : S = seen[c] /\ seen' = [seen EXCEPT ![c] = S]
    BY Zenon, <1>2, <1>6
  <2>7. AskedRight(p, S, vs)
    <3>1. p.step \in {"put", "look"} /\ p.step \notin {"read", "deal"} /\ p.step # "deal"
          /\ p.step # "commit" /\ p.step # "reread"
      BY <2>4
    <3>2. /\ p.txn.rev # 0 => \E v \in vs : v.rev = p.txn.rev
          /\ Shown(Current(vs)) \in S
          /\ Creating(p.txn)
          /\ (\E v \in vs : v.rev > p.rev) => SomeSeen(S)
      BY Zenon, <1>0, <1>1, <2>4, <2>6 DEF AskedRight
    <3> QED BY Zenon, <3>1, <3>2 DEF AskedRight
  <2>8. PICK V, com : V = versions /\ com = kvCommitted
    BY Zenon
  <2>9. p.step # "list" /\ p.step # "get" /\ p \in CallRecords
    BY <2>4 DEF CallRecords
  <2>10. V[p.key] = vs
    BY Zenon, <1>1, <2>4, <2>8
  <2>11. ClientRight(p, NoAnswer, S, V, com)
    BY Zenon, <2>7, <2>9, <2>10, WaitingRight
  <2>12. PICK a : a = NoAnswer
    BY Zenon
  <2>13. answer' = [answer EXCEPT ![c] = a] /\ a.of \in AnswerKinds
    BY Zenon, <1>1, <1>2, <1>6, <2>12, NoAnswerIs
  <2>14. kvDeal' \in {kvDeal, kvDeal + 1} /\ kvDeal' <= MaxRevision /\ p.rev = call[c].rev
    BY <1>1, <1>2, <1>4, <2>4
  <2> QED BY Zenon, <1>0, <1>4, <1>6, <2>3, <2>6, <2>8, <2>9, <2>11, <2>12, <2>13,
            <2>14, ClientStep
<1> QED BY Zenon, <1>5, <1>6 DEF CreatePut

\* A Txn goes on, with nothing written.
LEMMA TxnGoesOn ==
  ASSUME KvInv, NEW c \in EtcdClients, NEW p \in TxnCalls, NextCall(c, p), NEW vs, vs = versions[p.key],
         call[c].step \in TxnSteps, AskedRight(p, seen[c], vs),
         versions' = versions, kvCommitted' = kvCommitted, answer' = answer, seen' = seen,
         kvDeal' \in {kvDeal, kvDeal + 1}, kvDeal' <= MaxRevision,
         \/ settled' = settled
         \/ settled' = settled \cup {kvDeal + 1} /\ kvDeal' = kvDeal + 1,
         p.step \in PendingSteps =>
           /\ settled' = settled
           /\ \/ p.rev = kvDeal + 1 /\ kvDeal' = kvDeal + 1
              \/ p.rev = call[c].rev /\ call[c].step \in PendingSteps
  PROVE  KvInv'
<1>1. answer[c] = NoAnswer
  BY Zenon, CallerFacts
<1>2. /\ answer = [answer EXCEPT ![c] = answer[c]]
      /\ seen = [seen EXCEPT ![c] = seen[c]] /\ seen[c] \in SUBSET (0 .. kvDeal)
  BY Zenon, ClientFacts
<1>3. PICK S \in SUBSET (0 .. kvDeal) : S = seen[c] /\ seen' = [seen EXCEPT ![c] = S]
  BY Zenon, <1>2
<1>4. PICK V, com, a : V = versions /\ com = kvCommitted /\ a = NoAnswer
  BY Zenon
<1>5. p.step \in TxnSteps /\ p.step # "list" /\ p.step # "get" /\ p \in CallRecords
  <2>1. p.step \in TxnSteps
    BY Zenon, TxnFields
  <2> QED BY <2>1 DEF TxnSteps, CallRecords
<1>6. ClientRight(p, NoAnswer, S, V, com)
  BY Zenon, <1>3, <1>4, <1>5, WaitingRight
<1>7. answer' = [answer EXCEPT ![c] = a] /\ a.of \in AnswerKinds
  BY Zenon, <1>1, <1>2, <1>4, NoAnswerIs
<1>8. call' = [call EXCEPT ![c] = p]
  BY Zenon DEF NextCall
<1> QED BY Zenon, <1>3, <1>4, <1>5, <1>6, <1>7, <1>8, ClientStep

\* A Txn is answered, with nothing written.
LEMMA TxnAnswered ==
  ASSUME KvInv, NEW c \in EtcdClients, Respond(c), NEW a, answer' = [answer EXCEPT ![c] = a],
         a.of = "txn", TxnRight(a, seen[c]),
         versions' = versions, kvCommitted' = kvCommitted, seen' = seen,
         kvDeal' \in {kvDeal, kvDeal + 1}, kvDeal' <= MaxRevision,
         \/ settled' = settled
         \/ settled' = settled \cup {kvDeal + 1} /\ kvDeal' = kvDeal + 1
  PROVE  KvInv'
<1>2. /\ seen = [seen EXCEPT ![c] = seen[c]] /\ seen[c] \in SUBSET (0 .. kvDeal)
  BY Zenon, ClientFacts
<1>3. PICK S \in SUBSET (0 .. kvDeal) : S = seen[c] /\ seen' = [seen EXCEPT ![c] = S]
  BY Zenon, <1>2
<1>4. PICK V, com : V = versions /\ com = kvCommitted
  BY Zenon
<1>5. a.of # "get" /\ a.of # "list" /\ a.of \in AnswerKinds
  BY DEF AnswerKinds
<1>6. ClientRight(Idle, a, S, V, com)
  BY Zenon, <1>3, <1>5, AnsweredRight
<1>7. Idle \in CallRecords /\ Idle.step \notin PendingSteps
  BY DEF CallRecords, Idle, PendingSteps
<1>8. PICK p \in CallRecords : p = Idle
  BY Zenon, <1>7
<1>9. call' = [call EXCEPT ![c] = p]
  BY Zenon, <1>8 DEF Respond
<1> QED BY Zenon, <1>3, <1>4, <1>5, <1>6, <1>7, <1>8, <1>9, ClientStep

\* CreateWithTTL after the conflict.
LEMMA CreateLookStep ==
  ASSUME KvInv, NEW c \in EtcdClients, CreateLook(c)
  PROVE  KvInv'
<1>0. call[c].step = "look" /\ call[c].step \in TxnSteps /\ call[c].step \in PendingSteps
  BY DEF CreateLook, TxnSteps, PendingSteps
<1>1. PICK q \in TxnCalls, vs \in SUBSET VersionRecords :
        /\ q = call[c] /\ vs = versions[q.key] /\ q.key \in RawKeys
        /\ KeyRight(vs, kvDeal) /\ AskedRight(q, seen[c], vs) /\ answer[c] = NoAnswer
        /\ Newest(q.key) = Current(vs) /\ get(q.key) = Shown(Current(vs))
        /\ q.step \in PendingSteps => q.rev \in kvCommitted + 1 .. kvDeal /\ \A u \in vs : u.rev # q.rev
  BY Zenon, <1>0, CallerFacts
<1>2. /\ kvDeal \in 1 .. MaxRevision /\ kvCommitted \in 1 .. kvDeal /\ MaxRevision \in Nat
      /\ call \in [EtcdClients -> CallRecords]
  BY Zenon, ClientFacts
<1>3. /\ Creating(q.txn) /\ Shown(Current(vs)) \in seen[c]
      /\ (\E u \in vs : u.rev > q.rev) => SomeSeen(seen[c])
      /\ q.txn.rev # 0 => \E v \in vs : v.rev = q.txn.rev
  BY Zenon, <1>0, <1>1 DEF AskedRight
<1>4. PICK v, deal : v = Current(vs) /\ deal = kvDeal
  BY Zenon
<1>5. /\ v \in VersionRecords
      /\ vs = {} => v = NoVersion
      /\ vs # {} => v \in vs /\ \A u \in vs : u.rev <= v.rev
      /\ v.live => v \in vs /\ v.rev # 0
  BY Zenon, <1>1, <1>2, <1>4, CurrentIs
<1>6. v.rev \in Nat /\ q.rev \in Nat /\ q.rev > 0
  <2>1. v.rev \in Nat
    BY Zenon, <1>5 DEF VersionRecords
  <2>2. q.rev \in kvCommitted + 1 .. kvDeal
    BY Zenon, <1>0, <1>1
  <2> QED BY <1>2, <2>1, <2>2
<1>7. CASE /\ Replaceable(c, v) /\ call' = [call EXCEPT ![c].step = "commit", ![c].from = v]
           /\ versions' = versions /\ kvDeal' = kvDeal /\ settled' = settled
           /\ kvCommitted' = kvCommitted /\ answer' = answer /\ seen' = seen
  <2>1. "commit" \in TxnSteps /\ GotoFrom(c, "commit", v) /\ call[c] \in TxnCalls
        /\ call \in [EtcdClients -> CallRecords] /\ v \in VersionRecords
    BY Zenon, <1>1, <1>2, <1>5, <1>7 DEF TxnSteps, GotoFrom
  <2>2. PICK p \in TxnCalls :
          /\ NextCall(c, p)
          /\ p.step = "commit" /\ p.txn = call[c].txn /\ p.key = call[c].key
          /\ p.rev = call[c].rev /\ p.from = v
    BY <2>1, CallReads
  <2>3. p.txn = q.txn /\ p.key = q.key /\ p.rev = q.rev
    BY Zenon, <1>1, <2>2
  <2>4. v.rev < q.rev /\ ~v.live
    BY Zenon, <1>1, <1>7 DEF Replaceable
  <2>5. CommitRight(p, seen[c], vs)
    BY Zenon, <1>3, <1>4, <2>2, <2>3, <2>4 DEF CommitRight
  <2>6. AskedRight(p, seen[c], vs)
    <3>1. p.step \notin {"put", "look"} /\ p.step \notin {"read", "deal"} /\ p.step # "deal" /\ p.step # "reread"
      BY <2>2
    <3> QED BY Zenon, <1>3, <2>3, <2>5, <3>1 DEF AskedRight
  <2>7. vs = versions[p.key]
    BY Zenon, <1>1, <2>3
  <2>8. kvDeal' \in {kvDeal, kvDeal + 1} /\ kvDeal' <= MaxRevision
    BY <1>2, <1>7
  <2> QED BY Zenon, <1>0, <1>7, <2>2, <2>6, <2>7, <2>8, TxnGoesOn
<1>8. CASE ~Replaceable(c, v) /\ CASFailed(c)
  <2>1. v.live \/ v.rev >= q.rev
    <3>1. v.live \/ ~(v.rev < q.rev)
      BY Zenon, <1>1, <1>8 DEF Replaceable
    <3> QED BY <1>6, <3>1
  <2>2. SomeSeen(seen[c])
    <3>1. CASE v.live
      <4>1. Shown(v) = v.rev /\ v.rev # 0
        BY Zenon, <1>5, <3>1 DEF Shown
      <4> QED BY Zenon, <1>3, <1>4, <4>1 DEF SomeSeen
    <3>2. CASE v.rev >= q.rev
      <4>1. v \in vs
        <5>1. v # NoVersion
          BY <1>6, <3>2, NoVersionIs
        <5> QED BY Zenon, <1>5, <5>1
      <4>2. v.rev # q.rev
        BY Zenon, <1>0, <1>1, <4>1
      <4>3. v.rev > q.rev
        BY <1>6, <3>2, <4>2
      <4> QED BY Zenon, <1>3, <4>1, <4>3
    <3> QED BY Zenon, <2>1, <3>1, <3>2
  <2>3. ~isCreate(q.txn) => RereadRight(q, seen[c], vs)
    <3>1. Creating(q.txn) => ~isDelete(q.txn) /\ q.txn.rev = 0
      BY Zenon, OneKind
    <3> QED BY Zenon, <1>3, <2>2, <3>1 DEF RereadRight, Creating
  <2> QED BY Zenon, <1>0, <1>1, <1>8, <2>2, <2>3, CASFailedStep
<1>9. v = Newest(call[c].key)
  BY Zenon, <1>1, <1>4
<1> QED BY Zenon, <1>7, <1>8, <1>9 DEF CreateLook, storeVars

\* A key has moved on from a version it has had unless that is what it shows.
LEMMA MovedOn ==
  ASSUME NEW vs \in SUBSET VersionRecords, NEW deal \in 1 .. MaxRevision, KeyRight(vs, deal),
         NEW r \in Nat, \E u \in vs : u.rev = r, Current(vs) # Live(r)
  PROVE  Passed(vs, r)
<1>1. PICK n : n = Current(vs)
  BY Zenon
<1>2. n \in vs /\ \A u \in vs : u.rev <= n.rev
  BY Zenon, <1>1, CurrentIs
<1>3. PICK u \in vs : u.rev = r
  BY Zenon
<1>4. n.rev \in Nat /\ r <= n.rev
  BY Zenon, <1>2, <1>3 DEF VersionRecords
<1>5. n.rev >= r
  BY <1>4
<1> QED BY Zenon, <1>1, <1>2, <1>5 DEF Passed

\* backend.delete reads the key.
LEMMA DeleteReadStep ==
  ASSUME KvInv, NEW c \in EtcdClients, DeleteRead(c)
  PROVE  KvInv'
<1>0. call[c].step = "read" /\ call[c].step \in TxnSteps
  BY DEF DeleteRead, TxnSteps
<1>1. PICK q \in TxnCalls, vs \in SUBSET VersionRecords :
        /\ q = call[c] /\ vs = versions[q.key] /\ q.key \in RawKeys
        /\ KeyRight(vs, kvDeal) /\ AskedRight(q, seen[c], vs) /\ answer[c] = NoAnswer
        /\ Newest(q.key) = Current(vs) /\ get(q.key) = Shown(Current(vs))
        /\ q.step \in PendingSteps => q.rev \in kvCommitted + 1 .. kvDeal /\ \A u \in vs : u.rev # q.rev
  BY Zenon, <1>0, CallerFacts
<1>2. /\ kvDeal \in 1 .. MaxRevision /\ kvCommitted \in 1 .. kvDeal /\ MaxRevision \in Nat
      /\ call \in [EtcdClients -> CallRecords]
  BY Zenon, ClientFacts
<1>3. /\ isDelete(q.txn) /\ Shown(Current(vs)) \in seen[c]
      /\ q.txn.rev # 0 => \E v \in vs : v.rev = q.txn.rev
  BY Zenon, <1>0, <1>1 DEF AskedRight
<1>4. PICK n, g, deal : n = Current(vs) /\ g = Shown(n) /\ deal = kvDeal
  BY Zenon
<1>5. /\ n \in VersionRecords
      /\ vs # {} => n \in vs /\ \A u \in vs : u.rev <= n.rev
      /\ n.live => n \in vs /\ n.rev # 0
  BY Zenon, <1>1, <1>2, <1>4, CurrentIs
<1>6. n.rev \in Nat /\ (n.live => g = n.rev /\ n = Live(n.rev)) /\ (~n.live => g = 0) /\ g \in Nat
  <2>1. n.rev \in Nat /\ (n.live => n = Live(n.rev))
    BY Zenon, <1>5, VersionFields
  <2>2. (n.live => g = n.rev) /\ (~n.live => g = 0)
    BY Zenon, <1>4 DEF Shown
  <2> QED BY <2>1, <2>2
<1>7. PICK v : v = [rev |-> g, live |-> g # 0]
  BY Zenon
<1>8. v \in VersionRecords /\ v.rev = g /\ (g # 0 => v = Live(g) /\ v.live)
  <2>1. v \in VersionRecords /\ v.rev = g
    BY <1>6, <1>7 DEF VersionRecords
  <2>2. g # 0 => v.live
    BY Zenon, <1>7
  <2>3. v.live => v = Live(v.rev)
    BY Zenon, <2>1, VersionFields
  <2> QED BY Zenon, <2>1, <2>2, <2>3
<1>9. /\ call' = [call EXCEPT ![c].step = "deal", ![c].from = v]
      /\ versions' = versions /\ kvDeal' = kvDeal /\ settled' = settled
      /\ kvCommitted' = kvCommitted /\ answer' = answer /\ seen' = seen
  BY Zenon, <1>1, <1>4, <1>7 DEF DeleteRead, storeVars
<1>10. "deal" \in TxnSteps /\ GotoFrom(c, "deal", v) /\ call[c] \in TxnCalls
       /\ call \in [EtcdClients -> CallRecords]
  BY Zenon, <1>1, <1>2, <1>9 DEF TxnSteps, GotoFrom
<1>11. PICK p \in TxnCalls :
         /\ NextCall(c, p)
         /\ p.step = "deal" /\ p.txn = call[c].txn /\ p.key = call[c].key
         /\ p.rev = call[c].rev /\ p.from = v
  BY <1>8, <1>10, CallReads
<1>12. p.txn = q.txn /\ p.key = q.key
  BY Zenon, <1>1, <1>11
<1>13. DealRight(p, seen[c], vs)
  <2>1. p.from.rev \in seen[c]
    BY Zenon, <1>3, <1>4, <1>8, <1>11
  <2>2. p.from.rev # 0 => p.from \in vs /\ p.from.live
    BY Zenon, <1>5, <1>6, <1>8, <1>11
  <2>3. ASSUME q.txn.rev \notin {0, g}
        PROVE  Passed(vs, q.txn.rev)
    <3>1. q.txn.rev \in Nat /\ \E u \in vs : u.rev = q.txn.rev
      BY Zenon, <1>3, <2>3, TxnFields
    <3>2. n # Live(q.txn.rev)
      <4>1. Live(q.txn.rev).live = TRUE /\ Live(q.txn.rev).rev = q.txn.rev
        BY Zenon DEF Live
      <4> QED BY Zenon, <1>6, <2>3, <4>1
    <3> QED BY Zenon, <1>1, <1>2, <1>4, <3>1, <3>2, MovedOn
  <2> QED BY Zenon, <1>8, <1>11, <1>12, <2>1, <2>2, <2>3 DEF DealRight
<1>14. AskedRight(p, seen[c], vs)
  <2>1. p.step \notin {"put", "look"} /\ p.step # "commit" /\ p.step # "reread"
    BY <1>11
  <2> QED BY Zenon, <1>3, <1>12, <1>13, <2>1 DEF AskedRight
<1>15. vs = versions[p.key] /\ p.step \notin PendingSteps
  BY Zenon, <1>1, <1>11, <1>12 DEF PendingSteps
<1>16. kvDeal' \in {kvDeal, kvDeal + 1} /\ kvDeal' <= MaxRevision
  BY <1>2, <1>9
<1> QED BY Zenon, <1>0, <1>9, <1>11, <1>14, <1>15, <1>16, TxnGoesOn

\* backend.delete is dealt a revision and compares.
LEMMA DeleteDealStep ==
  ASSUME KvInv, NEW c \in EtcdClients, DeleteDeal(c)
  PROVE  KvInv'
<1>0. call[c].step = "deal" /\ call[c].step \in TxnSteps
  BY DEF DeleteDeal, TxnSteps
<1>1. PICK q \in TxnCalls, vs \in SUBSET VersionRecords :
        /\ q = call[c] /\ vs = versions[q.key] /\ q.key \in RawKeys
        /\ KeyRight(vs, kvDeal) /\ AskedRight(q, seen[c], vs) /\ answer[c] = NoAnswer
        /\ Newest(q.key) = Current(vs) /\ get(q.key) = Shown(Current(vs))
        /\ q.step \in PendingSteps => q.rev \in kvCommitted + 1 .. kvDeal /\ \A u \in vs : u.rev # q.rev
  BY Zenon, <1>0, CallerFacts
<1>2. /\ kvDeal \in 1 .. MaxRevision /\ kvCommitted \in 1 .. kvDeal /\ MaxRevision \in Nat
      /\ call \in [EtcdClients -> CallRecords]
  BY Zenon, ClientFacts
<1>3. /\ isDelete(q.txn) /\ Shown(Current(vs)) \in seen[c] /\ DealRight(q, seen[c], vs)
      /\ q.txn.rev # 0 => \E v \in vs : v.rev = q.txn.rev
  BY Zenon, <1>0, <1>1 DEF AskedRight
<1>4. /\ q.from.rev \in seen[c]
      /\ q.from.rev # 0 => q.from \in vs /\ q.from.live
      /\ q.txn.rev \notin {0, q.from.rev} => Passed(vs, q.txn.rev)
  BY Zenon, <1>3 DEF DealRight
<1>5. PICK rev : rev = kvDeal + 1
  BY Zenon
<1>6. /\ kvDeal < MaxRevision /\ kvDeal' = rev
      /\ versions' = versions /\ kvCommitted' = kvCommitted /\ seen' = seen
  BY Zenon, <1>5 DEF DeleteDeal, DealRevision
<1>7. /\ kvDeal' \in {kvDeal, kvDeal + 1} /\ kvDeal' <= MaxRevision /\ rev \in Nat
      /\ kvDeal' = kvDeal + 1
  BY <1>2, <1>5, <1>6
<1>8. CASE /\ q.from.rev = 0 /\ settled' = settled \cup {rev}
           /\ DeleteAnswer(c, rev, FALSE, 0) /\ Respond(c)
  <2>1. PICK a : a = [of |-> "txn", txn |-> call[c].txn, key |-> call[c].key, header |-> rev,
                      succeeded |-> FALSE, responses |-> <<[op |-> "range", kv |-> 0]>>]
    BY Zenon
  <2>2. a.of = "txn" /\ a.txn = q.txn /\ a.succeeded = FALSE
        /\ a.responses = <<[op |-> "range", kv |-> 0]>>
    BY <1>1, <2>1
  <2>3. answer' = [answer EXCEPT ![c] = a]
    BY Zenon, <1>8, <2>1 DEF DeleteAnswer, Answer
  <2>4. TxnRight(a, seen[c])
    <3>1. PICK S : S = seen[c]
      BY Zenon
    <3>2. 0 \in S
      BY Zenon, <1>4, <1>8, <3>1
    <3>3. CASE a.txn.rev = 0
      <4>1. TxnRight(a, S)
        BY Zenon, <1>3, <2>2, <3>3 DEF TxnRight
      <4> QED BY Zenon, <3>1, <4>1
    <3>4. CASE a.txn.rev # 0
      <4>1. isDelete(a.txn) /\ 0 # a.txn.rev
        BY Zenon, <1>3, <2>2, <3>4
      <4>2. TxnRight(a, S)
        BY Zenon, <2>2, <3>2, <4>1, RangeRight
      <4> QED BY Zenon, <3>1, <4>2
    <3> QED BY Zenon, <3>3, <3>4
  <2> QED BY Zenon, <1>5, <1>6, <1>7, <1>8, <2>2, <2>3, <2>4, TxnAnswered
<1>9. CASE /\ q.from.rev # 0 /\ q.txn.rev # 0 /\ q.txn.rev # q.from.rev
           /\ settled' = settled \cup {rev}
           /\ call' = [call EXCEPT ![c].step = "reread", ![c].rev = rev] /\ answer' = answer
  <2>1. "reread" \in TxnSteps /\ GotoRev(c, "reread", rev) /\ call[c] \in TxnCalls
         /\ call \in [EtcdClients -> CallRecords]
    BY Zenon, <1>1, <1>2, <1>9 DEF TxnSteps, GotoRev
  <2>2. PICK p \in TxnCalls :
           /\ NextCall(c, p)
           /\ p.step = "reread" /\ p.txn = call[c].txn /\ p.key = call[c].key
           /\ p.rev = rev /\ p.from = call[c].from
    BY <1>7, <2>1, CallDeals
  <2>3. p.txn = q.txn /\ p.key = q.key /\ p.from = q.from
    BY Zenon, <1>1, <2>2
  <2>4. RereadRight(p, seen[c], vs)
    <3>1. ~isUpdate(q.txn) /\ q.txn.rev \notin {0, q.from.rev}
      BY Zenon, <1>3, <1>9, OneKind
    <3> QED BY Zenon, <1>3, <1>4, <1>9, <2>3, <3>1 DEF RereadRight
  <2>5. AskedRight(p, seen[c], vs)
    <3>1. p.step \notin {"put", "look"} /\ p.step \notin {"read", "deal"} /\ p.step # "deal" /\ p.step # "commit"
      BY <2>2
    <3> QED BY Zenon, <1>3, <2>3, <2>4, <3>1 DEF AskedRight
  <2>6. vs = versions[p.key] /\ p.step \notin PendingSteps
    BY Zenon, <1>1, <2>2, <2>3 DEF PendingSteps
  <2> QED BY Zenon, <1>0, <1>5, <1>6, <1>7, <1>9, <2>2, <2>5, <2>6, TxnGoesOn
<1>10. CASE /\ q.from.rev # 0 /\ q.txn.rev \in {0, q.from.rev}
            /\ call' = [call EXCEPT ![c].step = "commit", ![c].rev = rev]
            /\ settled' = settled /\ answer' = answer
  <2>1. "commit" \in TxnSteps /\ GotoRev(c, "commit", rev) /\ call[c] \in TxnCalls
         /\ call \in [EtcdClients -> CallRecords]
    BY Zenon, <1>1, <1>2, <1>10 DEF TxnSteps, GotoRev
  <2>2. PICK p \in TxnCalls :
           /\ NextCall(c, p)
           /\ p.step = "commit" /\ p.txn = call[c].txn /\ p.key = call[c].key
           /\ p.rev = rev /\ p.from = call[c].from
    BY <1>7, <2>1, CallDeals
  <2>3. p.txn = q.txn /\ p.key = q.key /\ p.from = q.from
    BY Zenon, <1>1, <2>2
  <2>4. CommitRight(p, seen[c], vs)
    <3>1. q.from.rev \in 1 .. kvDeal
      BY Zenon, <1>1, <1>4, <1>10 DEF KeyRight
    <3>2. q.from.rev < rev
      BY <1>2, <1>5, <3>1
    <3> QED BY Zenon, <1>3, <1>4, <1>10, <2>2, <2>3, <3>2 DEF CommitRight
  <2>5. AskedRight(p, seen[c], vs)
    <3>1. p.step \notin {"put", "look"} /\ p.step \notin {"read", "deal"} /\ p.step # "deal" /\ p.step # "reread"
      BY <2>2
    <3> QED BY Zenon, <1>3, <2>3, <2>4, <3>1 DEF AskedRight
  <2>6. vs = versions[p.key]
    BY Zenon, <1>1, <2>3
  <2> QED BY Zenon, <1>0, <1>5, <1>6, <1>7, <1>10, <2>2, <2>5, <2>6, TxnGoesOn
<1> QED BY Zenon, <1>1, <1>5, <1>8, <1>9, <1>10 DEF DeleteDeal

\* The batch commits.
LEMMA CommitStep ==
  ASSUME KvInv, NEW c \in EtcdClients, CommitBatch(c)
  PROVE  KvInv'
<1>0. call[c].step = "commit" /\ call[c].step \in TxnSteps /\ call[c].step \in PendingSteps
  BY DEF CommitBatch, TxnSteps, PendingSteps
<1>1. PICK q \in TxnCalls, vs \in SUBSET VersionRecords :
        /\ q = call[c] /\ vs = versions[q.key] /\ q.key \in RawKeys
        /\ KeyRight(vs, kvDeal) /\ AskedRight(q, seen[c], vs) /\ answer[c] = NoAnswer
        /\ Newest(q.key) = Current(vs) /\ get(q.key) = Shown(Current(vs))
        /\ q.step \in PendingSteps => q.rev \in kvCommitted + 1 .. kvDeal /\ \A u \in vs : u.rev # q.rev
  BY Zenon, <1>0, CallerFacts
<1>2. /\ kvDeal \in 1 .. MaxRevision /\ kvCommitted \in 1 .. kvDeal /\ MaxRevision \in Nat
      /\ call \in [EtcdClients -> CallRecords]
  BY Zenon, ClientFacts
<1>3. /\ Shown(Current(vs)) \in seen[c] /\ CommitRight(q, seen[c], vs)
      /\ q.txn.rev # 0 => \E v \in vs : v.rev = q.txn.rev
  BY Zenon, <1>0, <1>1 DEF AskedRight
<1>4. PICK n, deal, S : n = Current(vs) /\ deal = kvDeal /\ S = seen[c]
  BY Zenon
<1>5. /\ n \in VersionRecords
      /\ vs # {} => n \in vs /\ \A u \in vs : u.rev <= n.rev
      /\ n.live => n \in vs /\ n.rev # 0
  BY Zenon, <1>1, <1>2, <1>4, CurrentIs
<1>6. /\ q.from.rev < q.rev
      /\ \/ Creating(q.txn) /\ ~q.from.live /\ (n = q.from \/ SomeSeen(S))
         \/ isUpdate(q.txn) /\ q.txn.rev # 0 /\ q.from = Live(q.txn.rev)
         \/ /\ isDelete(q.txn) /\ q.from.live /\ q.from \in vs
            /\ q.from.rev \in S \ {0} /\ q.txn.rev \in {0, q.from.rev}
  BY Zenon, <1>3, <1>4 DEF CommitRight
<1>7. q.rev \in Nat /\ q.from \in VersionRecords /\ q.from.rev \in Nat /\ q.txn.rev \in Nat
  BY Zenon, TxnFields
<1>8. Live(q.txn.rev).live = TRUE /\ Live(q.txn.rev).rev = q.txn.rev
  BY Zenon DEF Live
<1>9. CASE /\ Newest(q.key) = q.from /\ Write(c, ~isDelete(q.txn)) /\ Notify(c)
           /\ CASE isCreate(q.txn) -> CreateAnswer(c, TRUE)
                [] isDelete(q.txn) -> DeleteAnswer(c, q.rev, TRUE, q.from.rev)
                [] OTHER -> UpdateAnswer(c, q.rev, TRUE, 0)
           /\ Respond(c) /\ kvDeal' = kvDeal /\ kvCommitted' = kvCommitted
  <2>1. n = q.from
    BY Zenon, <1>1, <1>4, <1>9
  <2>2. PICK v : v = [rev |-> call[c].rev, live |-> ~isDelete(q.txn)]
    BY Zenon
  <2>3. v \in VersionRecords /\ v.rev = q.rev /\ (v.live <=> ~isDelete(q.txn))
    BY Zenon, <1>1, <1>7, <2>2 DEF VersionRecords
  <2>4. /\ versions' = [versions EXCEPT ![q.key] = @ \cup {v}]
        /\ seen' = [d \in EtcdClients |-> IF Calls(d, q.key) THEN seen[d] \cup {Shown(v)} ELSE seen[d]]
    BY Zenon, <1>1, <1>9, <2>2 DEF Write
  <2>5. settled' = settled \cup {call[c].rev} /\ call' = [call EXCEPT ![c] = Idle]
    BY Zenon, <1>9 DEF Notify, Respond
  <2>6. \A u \in vs : u.rev < v.rev
    <3> SUFFICES ASSUME NEW u \in vs
                 PROVE  u.rev < v.rev
      BY Zenon
    <3>1. u.rev \in Nat /\ u.rev <= n.rev
      BY Zenon, <1>5 DEF VersionRecords
    <3> QED BY <1>6, <1>7, <2>1, <2>3, <3>1
  <2>7. v.live \/ Shown(Current(vs)) # 0
    <3>1. isDelete(q.txn) => q.from.live /\ q.from.rev # 0
      BY Zenon, <1>6, OneKind
    <3> QED BY Zenon, <1>4, <2>1, <2>3, <3>1 DEF Shown
  <2>8. PICK T : T = seen[c] \cup {Shown(v)}
    BY Zenon
  <2>9. S \subseteq T /\ Shown(n) \in T
    BY Zenon, <1>3, <1>4, <2>8
  <2>10. PICK k \in RawKeys : k = q.key
    BY Zenon, <1>1
  <2>11. call[c].key = k /\ v.rev = call[c].rev /\ vs = versions[k]
    BY Zenon, <1>1, <2>3, <2>10
  <2>12. CASE isDelete(q.txn)
    <3>1. PICK a : a = [of |-> "txn", txn |-> call[c].txn, key |-> call[c].key, header |-> q.rev,
                        succeeded |-> TRUE, responses |-> <<[op |-> "delete", kv |-> q.from.rev]>>]
      BY Zenon
    <3>2. a.of = "txn" /\ a.txn = q.txn /\ a.succeeded = TRUE
          /\ a.responses = <<[op |-> "delete", kv |-> q.from.rev]>>
      BY <1>1, <3>1
    <3>3. ~isCreate(q.txn)
      BY Zenon, <2>12, OneKind
    <3>4. DeleteAnswer(c, q.rev, TRUE, q.from.rev)
      BY Zenon, <1>9, <2>12, <3>3
    <3>5. answer' = [answer EXCEPT ![c] = a]
      BY Zenon, <3>1, <3>4 DEF DeleteAnswer, Answer
    <3>6. PICK kv \in T : kv = q.from.rev /\ q.txn.rev \in {0, kv}
      BY Zenon, <1>6, <2>9, <2>12, OneKind
    <3>7. TxnRight(a, T)
      BY Zenon, <2>12, <3>2, <3>6, DeleteRight
    <3> QED BY Zenon, <1>0, <1>9, <2>3, <2>4, <2>5, <2>6, <2>7, <2>8, <2>10, <2>11,
              <3>2, <3>5, <3>7, WriteStep
  <2>13. CASE ~isDelete(q.txn)
    <3>1. PICK a : a = [of |-> "txn", txn |-> call[c].txn, key |-> call[c].key, header |-> call[c].rev,
                        succeeded |-> TRUE, responses |-> <<[op |-> "put"]>>]
      BY Zenon
    <3>2. a.of = "txn" /\ a.txn = q.txn /\ a.succeeded = TRUE /\ a.responses = <<[op |-> "put"]>>
      BY <1>1, <3>1
    <3>3. CreateAnswer(c, TRUE) \/ UpdateAnswer(c, q.rev, TRUE, 0)
      BY Zenon, <1>9, <2>13
    <3>4. answer' = [answer EXCEPT ![c] = a]
      BY Zenon, <1>1, <3>1, <3>3 DEF CreateAnswer, UpdateAnswer, Answer
    <3>5. (isCreate(q.txn) \/ isUpdate(q.txn)) /\ q.txn.rev = Shown(n)
      <4>1. CASE Creating(q.txn) /\ ~q.from.live
        <5>1. q.txn.rev = 0 /\ (isCreate(q.txn) \/ isUpdate(q.txn))
          BY Zenon, <4>1, OneKind DEF Creating
        <5> QED BY Zenon, <2>1, <4>1, <5>1 DEF Shown
      <4>2. CASE isUpdate(q.txn) /\ q.from = Live(q.txn.rev)
        BY Zenon, <1>8, <2>1, <4>2 DEF Shown
      <4> QED BY Zenon, <1>6, <2>13, <4>1, <4>2
    <3>6. (isCreate(a.txn) \/ isUpdate(a.txn)) /\ a.txn.rev \in T
      BY Zenon, <2>9, <3>2, <3>5
    <3>7. TxnRight(a, T)
      BY Zenon, <3>2, <3>6, PutRight
    <3> QED BY Zenon, <1>0, <1>9, <2>3, <2>4, <2>5, <2>6, <2>7, <2>8, <2>10, <2>11,
              <3>2, <3>4, <3>7, WriteStep
  <2> QED BY Zenon, <2>12, <2>13
<1>10. CASE Newest(q.key) # q.from /\ CASFailed(c)
  <2>1. n # q.from
    BY Zenon, <1>1, <1>4, <1>10
  <2>2. isCreate(q.txn) => SomeSeen(S)
    BY Zenon, <1>6, <2>1, OneKind
  <2>3. ~isCreate(q.txn) => RereadRight(q, S, vs)
    <3>1. CASE Creating(q.txn) /\ SomeSeen(S)
      <4>1. ~isDelete(q.txn) /\ q.txn.rev = 0
        BY Zenon, <3>1, OneKind
      <4> QED BY Zenon, <3>1, <4>1 DEF RereadRight, Creating
    <3>2. CASE isUpdate(q.txn) /\ q.txn.rev # 0 /\ q.from = Live(q.txn.rev)
      <4>1. Passed(vs, q.txn.rev)
        BY Zenon, <1>1, <1>2, <1>3, <1>4, <1>7, <2>1, <3>2, MovedOn
      <4>2. ~isDelete(q.txn)
        BY Zenon, <3>2, OneKind
      <4> QED BY Zenon, <3>2, <4>1, <4>2 DEF RereadRight
    <3>3. CASE /\ isDelete(q.txn) /\ q.from.live /\ q.from \in vs
               /\ q.from.rev \in S \ {0} /\ q.txn.rev \in {0, q.from.rev}
      <4>1. ASSUME q.txn.rev # 0
            PROVE  Passed(vs, q.txn.rev)
        <5>1. q.txn.rev = q.from.rev /\ q.from = Live(q.txn.rev)
          BY Zenon, <1>7, <3>3, <4>1, VersionFields
        <5> QED BY Zenon, <1>1, <1>2, <1>3, <1>4, <1>7, <2>1, <4>1, <5>1, MovedOn
      <4>2. ~isUpdate(q.txn)
        BY Zenon, <3>3, OneKind
      <4> QED BY Zenon, <3>3, <4>1, <4>2 DEF RereadRight
    <3> QED BY Zenon, <1>6, <2>1, <3>1, <3>2, <3>3
  <2> QED BY Zenon, <1>0, <1>1, <1>4, <1>10, <2>2, <2>3, CASFailedStep
<1> QED BY Zenon, <1>1, <1>9, <1>10 DEF CommitBatch

\* Update and Delete read the key again.
LEMMA RereadStep ==
  ASSUME KvInv, NEW c \in EtcdClients, Reread(c)
  PROVE  KvInv'
<1>0. call[c].step = "reread" /\ call[c].step \in TxnSteps
  BY DEF Reread, TxnSteps
<1>1. PICK q \in TxnCalls, vs \in SUBSET VersionRecords :
        /\ q = call[c] /\ vs = versions[q.key] /\ q.key \in RawKeys
        /\ KeyRight(vs, kvDeal) /\ AskedRight(q, seen[c], vs) /\ answer[c] = NoAnswer
        /\ Newest(q.key) = Current(vs) /\ get(q.key) = Shown(Current(vs))
        /\ q.step \in PendingSteps => q.rev \in kvCommitted + 1 .. kvDeal /\ \A u \in vs : u.rev # q.rev
  BY Zenon, <1>0, CallerFacts
<1>2. /\ kvDeal \in 1 .. MaxRevision /\ kvCommitted \in 1 .. kvDeal /\ MaxRevision \in Nat
      /\ call \in [EtcdClients -> CallRecords]
  BY Zenon, ClientFacts
<1>3. /\ Shown(Current(vs)) \in seen[c] /\ RereadRight(q, seen[c], vs)
  BY Zenon, <1>0, <1>1 DEF AskedRight
<1>4. PICK n, g, S, deal : n = Current(vs) /\ g = Shown(n) /\ S = seen[c] /\ deal = kvDeal
  BY Zenon
<1>5. /\ g \in S
      /\ isUpdate(q.txn) \/ isDelete(q.txn)
      /\ q.txn.rev # 0 => Passed(vs, q.txn.rev)
      /\ isUpdate(q.txn) /\ q.txn.rev = 0 => SomeSeen(S)
      /\ isDelete(q.txn) => q.from.rev \in S \ {0}
  BY Zenon, <1>3, <1>4 DEF RereadRight
<1>6. /\ n \in VersionRecords
      /\ vs # {} => n \in vs /\ \A u \in vs : u.rev <= n.rev
      /\ n.live => n \in vs /\ n.rev # 0
  BY Zenon, <1>1, <1>2, <1>4, CurrentIs
<1>7. q.txn.rev # 0 => g # q.txn.rev
  <2> SUFFICES ASSUME q.txn.rev # 0, g = q.txn.rev
               PROVE  FALSE
    BY Zenon
  <2>1. n.live /\ n.rev = q.txn.rev
    BY Zenon, <1>4 DEF Shown
  <2>2. n = Live(q.txn.rev) /\ n \in vs
    BY Zenon, <1>6, <2>1, VersionFields
  <2>3. PICK v \in vs : v.rev >= q.txn.rev /\ v # Live(q.txn.rev)
    BY Zenon, <1>5 DEF Passed
  <2>4. v.rev <= q.txn.rev /\ v.rev \in Nat /\ q.txn.rev \in Nat
    BY Zenon, <1>6, <2>1, <2>2, TxnFields DEF VersionRecords
  <2>5. v.rev = n.rev
    BY <2>1, <2>3, <2>4
  <2> QED BY Zenon, <1>1, <2>2, <2>3, <2>5 DEF KeyRight
<1>8. PICK kv, h : /\ kv = IF isDelete(q.txn) /\ g = 0 THEN q.from.rev ELSE g
                   /\ h = Header(q.rev, g)
  BY Zenon
<1>9. kv \in S /\ (kv # g => g = 0 /\ isDelete(q.txn))
  BY Zenon, <1>5, <1>8
<1>10. PICK a : a = [of |-> "txn", txn |-> call[c].txn, key |-> call[c].key, header |-> h,
                     succeeded |-> FALSE, responses |-> <<[op |-> "range", kv |-> kv]>>]
  BY Zenon
<1>11. a.of = "txn" /\ a.txn = q.txn /\ a.succeeded = FALSE
       /\ a.responses = <<[op |-> "range", kv |-> kv]>>
  BY <1>1, <1>10
<1>12. answer' = [answer EXCEPT ![c] = a]
  <2>1. get(q.key) = g
    BY Zenon, <1>1, <1>4
  <2>2. CASE isDelete(q.txn)
    <3>1. kv = IF g = 0 THEN q.from.rev ELSE g
      BY Zenon, <1>8, <2>2
    <3>2. DeleteAnswer(c, h, FALSE, kv)
      BY Zenon, <1>1, <1>8, <2>1, <2>2, <3>1 DEF Reread
    <3> QED BY Zenon, <1>10, <3>2 DEF DeleteAnswer, Answer
  <2>3. CASE ~isDelete(q.txn)
    <3>1. kv = g
      BY Zenon, <1>8, <2>3
    <3>2. UpdateAnswer(c, h, FALSE, kv)
      BY Zenon, <1>1, <1>8, <2>1, <2>3, <3>1 DEF Reread
    <3> QED BY Zenon, <1>10, <3>2 DEF UpdateAnswer, Answer
  <2> QED BY Zenon, <2>2, <2>3
<1>13. TxnRight(a, S)
  <2>1. CASE isDelete(q.txn) /\ q.txn.rev = 0
    BY Zenon, <1>11, <2>1 DEF TxnRight
  <2>2. CASE q.txn.rev # 0 /\ kv = g
    <3>1. (isUpdate(a.txn) \/ isDelete(a.txn)) /\ kv # a.txn.rev
      BY Zenon, <1>5, <1>7, <1>11, <2>2
    <3> QED BY Zenon, <1>9, <1>11, <3>1, RangeRight
  <2>3. CASE q.txn.rev # 0 /\ kv # g
    <3>1. 0 \in S /\ 0 # a.txn.rev
      BY Zenon, <1>5, <1>9, <1>11, <2>3
    <3> QED BY Zenon, <1>9, <1>11, <3>1, GoneRight
  <2>4. CASE isUpdate(q.txn) /\ q.txn.rev = 0
    <3>1. PICK other \in S : other # 0
      BY Zenon, <1>5, <2>4 DEF SomeSeen
    <3>2. kv = g
      BY Zenon, <1>9, <2>4, OneKind
    <3>3. CASE g = 0
      <4>1. 0 \in S /\ other # a.txn.rev
        BY Zenon, <1>5, <1>11, <2>4, <3>1, <3>3
      <4> QED BY Zenon, <1>9, <1>11, <3>1, <4>1, GoneRight
    <3>4. CASE g # 0
      <4>1. (isUpdate(a.txn) \/ isDelete(a.txn)) /\ kv # a.txn.rev
        BY Zenon, <1>11, <2>4, <3>2, <3>4
      <4> QED BY Zenon, <1>9, <1>11, <4>1, RangeRight
    <3> QED BY Zenon, <3>3, <3>4
  <2> QED BY Zenon, <1>5, <2>1, <2>2, <2>3, <2>4
<1>14. /\ Respond(c) /\ versions' = versions /\ kvDeal' = kvDeal /\ settled' = settled
       /\ kvCommitted' = kvCommitted /\ seen' = seen
  BY Zenon DEF Reread, storeVars
<1>15. kvDeal' \in {kvDeal, kvDeal + 1} /\ kvDeal' <= MaxRevision
  BY <1>2, <1>14
<1> QED BY Zenon, <1>4, <1>11, <1>12, <1>13, <1>14, <1>15, TxnAnswered

\* A request is one of the records of Txns.
LEMMA RequestType ==
  ASSUME NEW cmp \in {"mod", "none", "version"}, NEW r \in Nat,
         NEW s \in Branches, NEW f \in Branches
  PROVE  Request(cmp, r, s, f) \in Txns /\ Request(cmp, r, s, f).rev = r
BY DEF Request, Txns

\* A client asks with no revision, or with one the key has had.
LEMMA RequestsOf ==
  ASSUME NEW k \in RawKeys, NEW t \in Requests(k), versions[k] \in SUBSET VersionRecords
  PROVE  t \in Txns /\ (t.rev # 0 => \E v \in versions[k] : v.rev = t.rev)
<1>1. /\ <<"put">> \in Branches /\ <<>> \in Branches /\ <<"range", "delete">> \in Branches
      /\ <<"range">> \in Branches /\ <<"delete">> \in Branches
      /\ "mod" \in {"mod", "none", "version"} /\ "none" \in {"mod", "none", "version"}
      /\ "version" \in {"mod", "none", "version"} /\ 0 \in Nat
  BY DEF Branches
<1>2. PICK t1, t2, t3, t4 :
        /\ t1 = Request("mod", 0, <<"put">>, <<>>) /\ t2 = Request("none", 0, <<"range", "delete">>, <<>>)
        /\ t3 = Request("version", 0, <<"put">>, <<"range">>) /\ t4 = Request("mod", 0, <<"put">>, <<"put">>)
  BY Zenon
<1>3. t1 \in Txns /\ t1.rev = 0
  BY <1>1, <1>2 DEF Request, Txns
<1>4. t2 \in Txns /\ t2.rev = 0
  BY <1>1, <1>2 DEF Request, Txns
<1>5. t3 \in Txns /\ t3.rev = 0 /\ t4 \in Txns /\ t4.rev = 0
  BY <1>1, <1>2 DEF Request, Txns
<1>6. PICK R : R = {0} \cup {v.rev : v \in versions[k]}
  BY Zenon
<1>7. ASSUME NEW rev \in R, NEW op \in {"put", "delete"}, t = Request("mod", rev, <<op>>, <<"range">>)
      PROVE  t \in Txns /\ (t.rev # 0 => \E v \in versions[k] : v.rev = t.rev)
  <2>1. <<op>> \in Branches
    BY Zenon, <1>1
  <2>2. rev \in Nat /\ (rev # 0 => \E v \in versions[k] : v.rev = rev)
    <3>1. \A v \in versions[k] : v.rev \in Nat
      BY Zenon DEF VersionRecords
    <3> QED BY Zenon, <1>1, <1>6, <3>1
  <2>3. t \in Txns /\ t.rev = rev
    BY <1>1, <1>7, <2>1, <2>2, RequestType
  <2> QED BY Zenon, <2>2, <2>3
<1>8. t \in {t1, t2, t3, t4} \/ \E rev \in R, op \in {"put", "delete"} :
                                  t = Request("mod", rev, <<op>>, <<"range">>)
  BY <1>2, <1>6 DEF Requests
<1> QED BY Zenon, <1>3, <1>4, <1>5, <1>7, <1>8

\* A Txn begins.
LEMMA TxnBegins ==
  ASSUME KvInv, NEW c \in EtcdClients, NEW p \in TxnCalls, NextCall(c, p),
         NEW S \in SUBSET (0 .. kvDeal), AskedRight(p, S, versions[p.key]),
         versions' = versions, kvCommitted' = kvCommitted, settled' = settled,
         answer' = [answer EXCEPT ![c] = NoAnswer], seen' = [seen EXCEPT ![c] = S],
         kvDeal' \in {kvDeal, kvDeal + 1}, kvDeal' <= MaxRevision,
         p.step \in PendingSteps => p.rev = kvDeal + 1 /\ kvDeal' = kvDeal + 1
  PROVE  KvInv'
<1>1. PICK V, com, a : V = versions /\ com = kvCommitted /\ a = NoAnswer
  BY Zenon
<1>2. p.step \in TxnSteps /\ p.step # "list" /\ p.step # "get" /\ p \in CallRecords
  <2>1. p.step \in TxnSteps
    BY Zenon, TxnFields
  <2> QED BY <2>1 DEF TxnSteps, CallRecords
<1>3. ClientRight(p, NoAnswer, S, V, com)
  BY Zenon, <1>1, <1>2, WaitingRight
<1>4. answer' = [answer EXCEPT ![c] = a] /\ a.of \in AnswerKinds
  BY Zenon, <1>1, NoAnswerIs
<1>5. call' = [call EXCEPT ![c] = p]
  BY Zenon DEF NextCall
<1> QED BY Zenon, <1>1, <1>2, <1>3, <1>4, <1>5, ClientStep

\* The answers that are none of a request of the API server.
Refusal(a) == a.of \in {"compact", "unsupported"}

\* A Txn that is refused, or answered at once.
LEMMA TxnRefused ==
  ASSUME KvInv, NEW c \in EtcdClients, NextCall(c, Idle), kvDeal' = kvDeal,
         NEW a, Refusal(a), answer' = [answer EXCEPT ![c] = a],
         NEW S \in SUBSET (0 .. kvDeal), seen' = [seen EXCEPT ![c] = S],
         versions' = versions, kvCommitted' = kvCommitted, settled' = settled
  PROVE  KvInv'
<1>1. PICK V, com : V = versions /\ com = kvCommitted
  BY Zenon
<1>2. a.of # "txn" /\ a.of # "get" /\ a.of # "list" /\ a.of \in AnswerKinds
  BY DEF AnswerKinds, Refusal
<1>3. ClientRight(Idle, a, S, V, com)
  BY Zenon, <1>2, AnsweredRight
<1>4. Idle \in CallRecords /\ Idle.step \notin PendingSteps
  BY DEF CallRecords, Idle, PendingSteps
<1>5. PICK p \in CallRecords : p = Idle
  BY Zenon, <1>4
<1>6. kvDeal \in 1 .. MaxRevision /\ MaxRevision \in Nat
  BY Zenon, ClientFacts
<1>7. call' = [call EXCEPT ![c] = p]
  BY Zenon, <1>5 DEF NextCall
<1>8. kvDeal' \in {kvDeal, kvDeal + 1} /\ kvDeal' <= MaxRevision
  BY <1>6
<1> QED BY Zenon, <1>1, <1>2, <1>3, <1>4, <1>5, <1>7, <1>8, ClientStep

\* A Txn of any kind begins, or is answered at once.
LEMMA TxnStep ==
  ASSUME KvInv, NEW c \in EtcdClients, NEW k \in RawKeys, NEW t \in Requests(k), Txn(c, k, t)
  PROVE  KvInv'
<1>1. PICK vs \in SUBSET VersionRecords : vs = versions[k]
  BY Zenon DEF KvInv, StoreRight
<1>2. /\ kvDeal \in 1 .. MaxRevision /\ kvCommitted \in 1 .. kvDeal /\ MaxRevision \in Nat
      /\ call \in [EtcdClients -> CallRecords]
  BY Zenon, ClientFacts
<1>3. t \in Txns /\ t.rev \in Nat /\ (t.rev # 0 => \E v \in vs : v.rev = t.rev)
  <2>1. t \in Txns /\ (t.rev # 0 => \E v \in vs : v.rev = t.rev)
    BY Zenon, <1>1, RequestsOf
  <2> QED BY Zenon, <2>1 DEF Txns
<1>4. KeyRight(vs, kvDeal)
  BY Zenon, <1>1 DEF KvInv, StoreRight
<1>5. PICK n, g, S, deal : n = Current(vs) /\ g = Shown(n) /\ S = {g} /\ deal = kvDeal
  BY Zenon
<1>6. /\ n \in VersionRecords
      /\ vs # {} => n \in vs
      /\ n.live => n \in vs
  BY Zenon, <1>2, <1>4, <1>5, CurrentIs
<1>7. \A v \in vs : v.rev \in 1 .. kvDeal
  BY Zenon, <1>4 DEF KeyRight
<1>8. S \in SUBSET (0 .. kvDeal)
  <2>1. 0 \in 0 .. kvDeal /\ \A r \in 1 .. kvDeal : r \in 0 .. kvDeal
    BY <1>2
  <2>2. g \in 0 .. kvDeal
    BY Zenon, <1>5, <1>6, <1>7, <2>1 DEF Shown
  <2> QED BY Zenon, <1>5, <2>2
<1>9. Shown(Current(vs)) \in S
  BY Zenon, <1>5
<1>10. /\ call[c] = Idle /\ seen' = [seen EXCEPT ![c] = S]
       /\ versions' = versions /\ kvCommitted' = kvCommitted /\ settled' = settled
  <2>1. get(k) = g
    BY Zenon, <1>1, <1>5, NewestIsCurrent
  <2> QED BY Zenon, <1>5, <2>1 DEF Txn
<1>11. kvDeal + 1 \in Nat /\ (\A v \in vs : ~(v.rev > kvDeal + 1)) /\ \A v \in vs : v.rev < kvDeal + 1
  BY <1>2, <1>7
<1>12. CASE /\ isCreate(t) \/ (isUpdate(t) /\ t.rev = 0)
            /\ DealRevision(kvDeal + 1)
            /\ call' = [call EXCEPT ![c] = [step |-> "put", txn |-> t, key |-> k, rev |-> kvDeal + 1,
                                            from |-> NoVersion]]
            /\ answer' = [answer EXCEPT ![c] = NoAnswer]
  <2>1. PICK p : p = [step |-> "put", txn |-> t, key |-> k, rev |-> kvDeal + 1, from |-> NoVersion]
    BY Zenon
  <2>2. p \in TxnCalls /\ p.step = "put" /\ p.txn = t /\ p.key = k /\ p.rev = kvDeal + 1
    BY <1>3, <1>11, <2>1, NoVersionIs DEF TxnCalls, TxnSteps
  <2>3. NextCall(c, p)
    BY Zenon, <1>12, <2>1 DEF NextCall
  <2>4. AskedRight(p, S, vs)
    <3>1. p.step \notin {"read", "deal"} /\ p.step # "deal" /\ p.step # "commit" /\ p.step # "reread"
      BY <2>2
    <3>2. Creating(p.txn)
      BY Zenon, <1>12, <2>2 DEF Creating
    <3>3. ~ \E v \in vs : v.rev > p.rev
      BY Zenon, <1>11, <2>2
    <3> QED BY Zenon, <1>3, <1>9, <2>2, <3>1, <3>2, <3>3 DEF AskedRight
  <2>5. kvDeal' \in {kvDeal, kvDeal + 1} /\ kvDeal' <= MaxRevision /\ kvDeal' = kvDeal + 1
    BY <1>2, <1>12 DEF DealRevision
  <2>6. AskedRight(p, S, versions[p.key])
    BY Zenon, <1>1, <2>2, <2>4
  <2> QED BY Zenon, <1>8, <1>10, <1>12, <2>2, <2>3, <2>5, <2>6, TxnBegins
<1>13. CASE /\ isDelete(t)
            /\ call' = [call EXCEPT ![c] = [step |-> "read", txn |-> t, key |-> k, rev |-> 0,
                                            from |-> NoVersion]]
            /\ answer' = [answer EXCEPT ![c] = NoAnswer]
            /\ kvDeal' = kvDeal
  <2>1. PICK p : p = [step |-> "read", txn |-> t, key |-> k, rev |-> 0, from |-> NoVersion]
    BY Zenon
  <2>2. p \in TxnCalls /\ p.step = "read" /\ p.txn = t /\ p.key = k
    BY <1>3, <2>1, NoVersionIs DEF TxnCalls, TxnSteps
  <2>3. NextCall(c, p)
    BY Zenon, <1>13, <2>1 DEF NextCall
  <2>4. AskedRight(p, S, vs)
    <3>1. p.step \notin {"put", "look"} /\ p.step # "deal" /\ p.step # "commit" /\ p.step # "reread"
      BY <2>2
    <3> QED BY Zenon, <1>3, <1>9, <1>13, <2>2, <3>1 DEF AskedRight
  <2>5. kvDeal' \in {kvDeal, kvDeal + 1} /\ kvDeal' <= MaxRevision /\ p.step \notin PendingSteps
    BY <1>2, <1>13, <2>2 DEF PendingSteps
  <2>6. AskedRight(p, S, versions[p.key])
    BY Zenon, <1>1, <2>2, <2>4
  <2> QED BY Zenon, <1>8, <1>10, <1>13, <2>2, <2>3, <2>5, <2>6, TxnBegins
<1>14. CASE /\ isUpdate(t) /\ t.rev # 0
            /\ DealRevision(kvDeal + 1)
            /\ call' = [call EXCEPT ![c] = [step |-> "commit", txn |-> t, key |-> k, rev |-> kvDeal + 1,
                                            from |-> [rev |-> t.rev, live |-> TRUE]]]
            /\ answer' = [answer EXCEPT ![c] = NoAnswer]
  <2>0. PICK f : f = Live(t.rev)
    BY Zenon
  <2>1. f \in VersionRecords /\ f.rev = t.rev /\ f = [rev |-> t.rev, live |-> TRUE]
    BY <1>3, <2>0 DEF Live, VersionRecords
  <2>2. PICK p : p = [step |-> "commit", txn |-> t, key |-> k, rev |-> kvDeal + 1, from |-> f]
    BY Zenon
  <2>3. p \in TxnCalls /\ p.step = "commit" /\ p.txn = t /\ p.key = k /\ p.rev = kvDeal + 1 /\ p.from = f
    BY <1>3, <1>11, <2>1, <2>2 DEF TxnCalls, TxnSteps
  <2>4. NextCall(c, p)
    BY Zenon, <1>14, <2>1, <2>2 DEF NextCall
  <2>5. CommitRight(p, S, vs)
    <3>1. f.rev < kvDeal + 1
      BY Zenon, <1>3, <1>11, <1>14, <2>1
    <3> QED BY Zenon, <1>14, <2>0, <2>3, <3>1 DEF CommitRight
  <2>6. AskedRight(p, S, vs)
    <3>1. p.step \notin {"put", "look"} /\ p.step \notin {"read", "deal"} /\ p.step # "deal" /\ p.step # "reread"
      BY <2>3
    <3> QED BY Zenon, <1>3, <1>9, <2>3, <2>5, <3>1 DEF AskedRight
  <2>7. kvDeal' \in {kvDeal, kvDeal + 1} /\ kvDeal' <= MaxRevision /\ kvDeal' = kvDeal + 1
    BY <1>2, <1>14 DEF DealRevision
  <2>8. AskedRight(p, S, versions[p.key])
    BY Zenon, <1>1, <2>3, <2>6
  <2> QED BY Zenon, <1>8, <1>10, <1>14, <2>3, <2>4, <2>7, <2>8, TxnBegins
<1>15. CASE /\ answer' = [answer EXCEPT ![c] = [of |-> "compact", succeeded |-> FALSE,
                                                responses |-> <<[op |-> "range", kv |-> 0]>>]]
            /\ call' = call /\ kvDeal' = kvDeal
  <2>1. PICK a : a = [of |-> "compact", succeeded |-> FALSE, responses |-> <<[op |-> "range", kv |-> 0]>>]
    BY Zenon
  <2>2. Refusal(a) /\ answer' = [answer EXCEPT ![c] = a] /\ kvDeal' = kvDeal
    BY Zenon, <1>15, <2>1 DEF Refusal
  <2>3. NextCall(c, Idle)
    BY <1>2, <1>10, <1>15 DEF NextCall
  <2> QED BY Zenon, <1>8, <1>10, <2>2, <2>3, TxnRefused
<1>16. CASE answer' = [answer EXCEPT ![c] = [of |-> "unsupported"]] /\ call' = call /\ kvDeal' = kvDeal
  <2>1. PICK a : a = [of |-> "unsupported"]
    BY Zenon
  <2>2. Refusal(a) /\ answer' = [answer EXCEPT ![c] = a] /\ kvDeal' = kvDeal
    BY Zenon, <1>16, <2>1 DEF Refusal
  <2>3. NextCall(c, Idle)
    BY <1>2, <1>10, <1>16 DEF NextCall
  <2> QED BY Zenon, <1>8, <1>10, <2>2, <2>3, TxnRefused
<1> QED BY Zenon, <1>12, <1>13, <1>14, <1>15, <1>16 DEF Txn

-----------------------------------------------------------------------------
(* Get and List.                                                           *)

\* How the answer changes.
Answers(c, a) == answer' = [answer EXCEPT ![c] = a]

\* A step of one client that only reads: what it asks next and its answer are right.
LEMMA ReaderStep ==
  ASSUME KvInv, NEW c \in EtcdClients,
         NEW p \in CallRecords, NextCall(c, p), p.step \notin PendingSteps,
         NEW a, Answers(c, a), a.of \in AnswerKinds,
         NEW S \in SUBSET (0 .. kvDeal), seen' = [seen EXCEPT ![c] = S],
         NEW V, V = versions, NEW com, com = kvCommitted, ClientRight(p, a, S, V, com),
         UNCHANGED <<storeVars, kvCommitted>>
  PROVE  KvInv'
<1>1. kvDeal \in 1 .. MaxRevision /\ MaxRevision \in Nat
  BY Zenon, ClientFacts
<1>2. versions' = versions /\ kvCommitted' = kvCommitted /\ settled' = settled /\ kvDeal' = kvDeal
  BY Zenon DEF storeVars
<1>3. kvDeal' \in {kvDeal, kvDeal + 1} /\ kvDeal' <= MaxRevision
  BY <1>1, <1>2
<1>4. call' = [call EXCEPT ![c] = p] /\ answer' = [answer EXCEPT ![c] = a]
  BY Zenon DEF NextCall, Answers
<1>5. ClientRight(p, a, S, versions, kvCommitted)
  BY Zenon
<1> QED BY Zenon, <1>2, <1>3, <1>4, <1>5, ClientStep

\* Get begins.
LEMMA GetBeginStep ==
  ASSUME KvInv, NEW c \in EtcdClients, NEW k \in RawKeys, GetBegin(c, k)
  PROVE  KvInv'
<1>1. PICK V, com : V = versions /\ com = kvCommitted
  BY Zenon
<1>2. com \in Nat /\ com <= com
  BY <1>1, ClientFacts
<1>3. PICK p : p = [step |-> "get", key |-> k, rev |-> com]
  BY Zenon
<1>4. /\ p \in CallRecords /\ p.step \notin PendingSteps /\ p.step \notin TxnSteps /\ p.step # "list"
      /\ p.rev = com
  BY <1>2, <1>3 DEF CallRecords, GetCalls, PendingSteps, TxnSteps
<1>5. ClientRight(p, NoAnswer, {}, V, com)
  BY Zenon, <1>2, <1>4, WaitingRight
<1>6. NextCall(c, p) /\ Answers(c, NoAnswer) /\ UNCHANGED <<storeVars, kvCommitted>>
  BY Zenon, <1>1, <1>3 DEF GetBegin, NextCall, Answers
<1>7. PICK a, S : a = NoAnswer /\ S = {}
  BY Zenon
<1>8. seen' = [seen EXCEPT ![c] = S] /\ S \in SUBSET (0 .. kvDeal) /\ Answers(c, a) /\ ClientRight(p, a, S, V, com)
      /\ a.of \in AnswerKinds
  BY Zenon, <1>5, <1>6, <1>7, NoAnswerIs DEF GetBegin
<1> QED BY Zenon, <1>1, <1>4, <1>6, <1>8, ReaderStep

\* The header of a Get, and what it says of the key.
LEMMA GetAnswerRight ==
  ASSUME NEW V \in [RawKeys -> SUBSET VersionRecords], NEW k \in RawKeys, NEW deal \in 1 .. MaxRevision,
         KeyRight(V[k], deal), NEW com \in Nat, NEW rev \in Nat, rev <= com,
         NEW kv, kv = Shown(Current(V[k])),
         NEW a, a.key = k, a.header = Header(rev, kv), a.kv = kv
  PROVE  GetRight(a, V, com)
<1>0. PICK vs \in SUBSET VersionRecords : vs = V[k]
  BY Zenon
<1>1. PICK n : vs = V[k] /\ n = Current(vs)
  BY Zenon, <1>0
<1>2. n \in VersionRecords /\ (n.live => n \in vs)
  BY Zenon, <1>1, CurrentIs
<1>3. kv \in Nat /\ (kv # 0 => kv = n.rev /\ n \in vs)
  <2>1. kv = IF n.live THEN n.rev ELSE 0
    BY Zenon, <1>1 DEF Shown
  <2>2. n.rev \in Nat
    BY Zenon, <1>2, VersionFields
  <2> QED BY <1>2, <2>1, <2>2
<1>4. a.header \in Nat
  BY <1>3 DEF Header
<1>5. a.header <= com \/ \E v \in vs : a.header <= v.rev
  <2>1. CASE kv > rev
    <3>1. kv # 0 /\ a.header = kv /\ kv <= kv
      BY <1>3, <2>1 DEF Header
    <3> QED BY Zenon, <1>3, <3>1
  <2>2. CASE ~(kv > rev)
    BY <2>2 DEF Header
  <2> QED BY Zenon, <2>1, <2>2
<1>6. (\A v \in vs : v.rev <= a.header) => a.kv = Shown(Current(V[a.key]))
  BY Zenon, <1>1
<1> QED BY Zenon, <1>1, <1>4, <1>5, <1>6 DEF GetRight

\* Get reads and answers.
LEMMA GetReadStep ==
  ASSUME KvInv, NEW c \in EtcdClients, GetRead(c)
  PROVE  KvInv'
<1>0. PICK V \in [RawKeys -> SUBSET VersionRecords] : V = versions
  BY Zenon DEF KvInv, StoreRight
<1>1. PICK com, q, S : V = versions /\ com = kvCommitted /\ q = call[c] /\ S = seen[c]
  BY Zenon, <1>0
<1>2. /\ kvDeal \in 1 .. MaxRevision /\ kvCommitted \in 1 .. kvDeal /\ MaxRevision \in Nat
      /\ q \in CallRecords /\ seen = [seen EXCEPT ![c] = S] /\ S \in SUBSET (0 .. kvDeal)
      /\ ClientRight(q, answer[c], S, versions, kvCommitted)
  BY Zenon, <1>1, ClientFacts
<1>3. q.step = "get" /\ seen' = seen /\ UNCHANGED <<storeVars, kvCommitted>>
  BY Zenon, <1>1 DEF GetRead
<1>4. q \in GetCalls
  BY Zenon, <1>2, <1>3, CallShapes
<1>5. q.key \in RawKeys /\ q.rev \in Nat
  BY <1>4 DEF GetCalls
<1>6. q.rev <= com
  BY Zenon, <1>1, <1>2, <1>3 DEF ClientRight
<1>7. com \in Nat
  BY <1>1, <1>2
<1>8a. PICK k \in RawKeys, rev \in Nat : k = q.key /\ rev = q.rev
  BY Zenon, <1>5
<1>8. PICK kv, deal : k = q.key /\ rev = q.rev /\ kv = Shown(Current(V[k])) /\ deal = kvDeal
  BY Zenon, <1>8a
<1>9. get(k) = kv
  BY Zenon, <1>1, <1>8, NewestIsCurrent
<1>10. KeyRight(V[k], deal) /\ deal \in 1 .. MaxRevision
  BY Zenon, <1>1, <1>2, <1>8 DEF KvInv, StoreRight
<1>11. PICK a : a = [of |-> "get", key |-> k, header |-> Header(rev, kv), kv |-> kv]
  BY Zenon
<1>12. a.of = "get" /\ a.key = k /\ a.header = Header(rev, kv) /\ a.kv = kv /\ a.of \in AnswerKinds
       /\ a.of # "txn" /\ a.of # "list"
  BY <1>11 DEF AnswerKinds
<1>13. GetRight(a, V, com)
  BY Zenon, <1>6, <1>7, <1>8, <1>10, <1>12, GetAnswerRight
<1>14. ClientRight(Idle, a, S, V, com)
  BY Zenon, <1>12, <1>13, AnsweredRight
<1>15. Answers(c, a)
  BY Zenon, <1>1, <1>8, <1>9, <1>11 DEF GetRead, Answers
<1>16. NextCall(c, Idle)
  BY Zenon DEF GetRead, Respond, NextCall
<1>17. Idle \in CallRecords /\ Idle.step \notin PendingSteps
  BY DEF CallRecords, Idle, PendingSteps
<1>18. PICK p \in CallRecords : p = Idle
  BY Zenon, <1>17
<1>19. NextCall(c, p) /\ ClientRight(p, a, S, V, com) /\ p.step \notin PendingSteps
  BY Zenon, <1>14, <1>16, <1>17, <1>18
<1>20. seen' = [seen EXCEPT ![c] = S]
  BY Zenon, <1>2, <1>3
<1> QED BY Zenon, <1>1, <1>2, <1>3, <1>12, <1>15, <1>19, <1>20, ReaderStep

\* What a page holds, of the versions of the store.
LEMMA PageOf ==
  ASSUME NEW V \in [RawKeys -> SUBSET VersionRecords], V = versions, NEW rev \in Nat, NEW from \in Nat
  PROVE  \E kvs, last :
           /\ Page(rev, from).kvs = kvs /\ Page(rev, from).last = last
           /\ kvs \subseteq Snapshot(V, rev)
           /\ last \in Nat
           /\ last = 0 => \A p \in Snapshot(V, rev) : p[1] >= from => p \in kvs
           /\ last # 0 => \A p \in Snapshot(V, rev) : p[1] >= from /\ p[1] <= last => p \in kvs
<1>1. PICK found : found = First(Limit + 1, {k \in RawKeys : k >= from /\ NewestOf(V[k], rev).live})
  BY Zenon
<1>2. PICK kvs, last : /\ kvs = {<<k, NewestOf(V[k], rev).rev>> : k \in First(Limit, found)}
                       /\ last = IF Cardinality(found) > Limit THEN Max(First(Limit, found)) ELSE 0
  BY Zenon
<1>3. Page(rev, from) = [kvs |-> kvs, last |-> last]
  BY Zenon, <1>1, <1>2 DEF Page, NewestAt
<1>4. Page(rev, from).kvs = kvs /\ Page(rev, from).last = last
  BY <1>3
<1>5. PageIs(V, rev, from, found, kvs, last)
  BY Zenon, <1>1, <1>2 DEF PageIs
<1>6. /\ kvs \subseteq Snapshot(V, rev)
      /\ last \in Nat
      /\ last = 0 => \A p \in Snapshot(V, rev) : p[1] >= from => p \in kvs
      /\ last # 0 => \A p \in Snapshot(V, rev) : p[1] >= from /\ p[1] <= last => p \in kvs
  BY Zenon, <1>5, PageRight
<1> QED BY Zenon, <1>4, <1>6

\* A turn of a List that has all there is of the snapshot below from.
LEMMA TurnStep ==
  ASSUME KvInv, NEW c \in EtcdClients, NEW rev \in Nat, rev <= kvCommitted, NEW from \in Nat, NEW kvs,
         kvs \subseteq Snapshot(versions, rev),
         \A p \in Snapshot(versions, rev) : p[1] < from => p \in kvs,
         Turn(c, rev, kvs, Page(rev, from))
  PROVE  KvInv'
<1>0. PICK V \in [RawKeys -> SUBSET VersionRecords] : V = versions
  BY Zenon DEF KvInv, StoreRight
<1>1. PICK com, T : com = kvCommitted /\ T = Snapshot(V, rev)
  BY Zenon
<1>2. kvs \subseteq T /\ (\A p \in T : p[1] < from => p \in kvs) /\ rev <= com
  BY Zenon, <1>0, <1>1
<1>3. T \in SUBSET (Nat \X Nat) /\ \A p \in T : p[1] \in Nat
  BY Zenon, <1>0, <1>1, SnapshotType
<1>4. PICK more, last :
        /\ Page(rev, from).kvs = more /\ Page(rev, from).last = last
        /\ more \subseteq T
        /\ last \in Nat
        /\ last = 0 => \A p \in T : p[1] >= from => p \in more
        /\ last # 0 => \A p \in T : p[1] >= from /\ p[1] <= last => p \in more
  <2>1. PICK more, last :
          /\ Page(rev, from).kvs = more /\ Page(rev, from).last = last
          /\ more \subseteq Snapshot(V, rev)
          /\ last \in Nat
          /\ last = 0 => \A p \in Snapshot(V, rev) : p[1] >= from => p \in more
          /\ last # 0 => \A p \in Snapshot(V, rev) : p[1] >= from /\ p[1] <= last => p \in more
    BY Zenon, <1>0, PageOf
  <2>2. /\ more \subseteq T
        /\ last = 0 => \A p \in T : p[1] >= from => p \in more
        /\ last # 0 => \A p \in T : p[1] >= from /\ p[1] <= last => p \in more
    BY Zenon, <1>1, <2>1
  <2> QED BY Zenon, <2>1, <2>2
<1>5. PICK all, S : all = kvs \cup more /\ S = {}
  BY Zenon
<1>6. all \in SUBSET T /\ all \in SUBSET (Nat \X Nat)
  BY Zenon, <1>2, <1>3, <1>4, <1>5
<1>7. seen' = [seen EXCEPT ![c] = S] /\ S \in SUBSET (0 .. kvDeal) /\ UNCHANGED <<storeVars, kvCommitted>>
  BY Zenon, <1>5 DEF Turn
<1>8. CASE last = 0 /\ answer' = [answer EXCEPT ![c] = [of |-> "list", header |-> rev, kvs |-> all]]
           /\ Respond(c)
  <2>1. PICK a : a = [of |-> "list", header |-> rev, kvs |-> all]
    BY Zenon
  <2>2. a.of = "list" /\ a.header = rev /\ a.kvs = all /\ a.of # "txn" /\ a.of # "get" /\ a.of \in AnswerKinds
    BY <2>1 DEF AnswerKinds
  <2>3. \A p \in T : p[1] < from \/ p[1] >= from
    BY <1>3
  <2>4. all = T
    BY Zenon, <1>2, <1>4, <1>5, <1>6, <1>8, <2>3
  <2>5. ListRight(a, V, com)
    BY Zenon, <1>1, <1>2, <2>2, <2>4 DEF ListRight
  <2>6. ClientRight(Idle, a, S, V, com)
    BY Zenon, <2>2, <2>5, AnsweredRight
  <2>7. Answers(c, a) /\ NextCall(c, Idle)
    BY Zenon, <1>8, <2>1 DEF Answers, NextCall, Respond
  <2>8. Idle \in CallRecords /\ Idle.step \notin PendingSteps
    BY DEF CallRecords, Idle, PendingSteps
  <2>9. PICK p \in CallRecords : p = Idle
    BY Zenon, <2>8
  <2>10. NextCall(c, p) /\ ClientRight(p, a, S, V, com) /\ p.step \notin PendingSteps
    BY Zenon, <2>6, <2>7, <2>8, <2>9
  <2> QED BY Zenon, <1>0, <1>1, <1>7, <2>2, <2>7, <2>10, ReaderStep
<1>9. CASE last # 0 /\ answer' = [answer EXCEPT ![c] = NoAnswer]
           /\ \E next \in {last, last + 1} :
                call' = [call EXCEPT ![c] = [step |-> "list", key |-> next, rev |-> rev, kvs |-> all]]
  <2>1. PICK next \in {last, last + 1} :
          call' = [call EXCEPT ![c] = [step |-> "list", key |-> next, rev |-> rev, kvs |-> all]]
    BY Zenon, <1>9
  <2>2. next \in Nat /\ \A n \in Nat : n < next => n < from \/ (n >= from /\ n <= last)
    BY <1>4, <2>1
  <2>3. PICK q : q = [step |-> "list", key |-> next, rev |-> rev, kvs |-> all]
    BY Zenon
  <2>4. /\ q.step = "list" /\ q.key = next /\ q.rev = rev /\ q.kvs = all
        /\ q.step \notin TxnSteps /\ q.step # "get" /\ q.step \notin PendingSteps
    BY <2>3 DEF TxnSteps, PendingSteps
  <2>5. q \in CallRecords
    BY <1>6, <2>2, <2>3 DEF CallRecords, ListCalls
  <2>6. \A p \in T : p[1] < next => p \in all
    BY Zenon, <1>2, <1>3, <1>4, <1>5, <1>9, <2>2
  <2>7. ListingRight(q, V, com)
    BY Zenon, <1>1, <1>2, <1>6, <2>4, <2>6 DEF ListingRight
  <2>8. ClientRight(q, NoAnswer, S, V, com)
    BY Zenon, <2>4, <2>7, WaitingRight
  <2>9. NextCall(c, q) /\ Answers(c, NoAnswer)
    BY Zenon, <1>9, <2>1, <2>3 DEF NextCall, Answers
  <2>10. PICK a : a = NoAnswer
    BY Zenon
  <2>11. Answers(c, a) /\ ClientRight(q, a, S, V, com) /\ a.of \in AnswerKinds
    BY Zenon, <2>8, <2>9, <2>10, NoAnswerIs
  <2> QED BY Zenon, <1>0, <1>1, <1>7, <2>4, <2>5, <2>9, <2>11, ReaderStep
<1> QED BY Zenon, <1>4, <1>5, <1>8, <1>9 DEF Turn

\* List, the first page.
LEMMA ListFirstStep ==
  ASSUME KvInv, NEW c \in EtcdClients, ListFirst(c)
  PROVE  KvInv'
<1>0. PICK V \in [RawKeys -> SUBSET VersionRecords] : V = versions
  BY Zenon DEF KvInv, StoreRight
<1>1. PICK rev, from, kvs : rev = kvCommitted /\ from = 0 /\ kvs = {}
  BY Zenon
<1>2. rev \in Nat /\ rev <= kvCommitted /\ from \in Nat /\ \A n \in Nat : ~(n < from)
  BY <1>1, ClientFacts
<1>3. kvs \subseteq Snapshot(versions, rev)
  BY Zenon, <1>1
<1>4. \A p \in Snapshot(versions, rev) : p[1] < from => p \in kvs
  BY Zenon, <1>0, <1>2, SnapshotType
<1>5. Turn(c, rev, kvs, Page(rev, from))
  BY Zenon, <1>1 DEF ListFirst
<1> QED BY Zenon, <1>2, <1>3, <1>4, <1>5, TurnStep

\* List, the other pages.
LEMMA ListMoreStep ==
  ASSUME KvInv, NEW c \in EtcdClients, ListMore(c)
  PROVE  KvInv'
<1>1. PICK q : q = call[c]
  BY Zenon
<1>2. q \in CallRecords /\ ClientRight(q, answer[c], seen[c], versions, kvCommitted)
  BY Zenon, <1>1, ClientFacts
<1>3. q.step = "list" /\ Turn(c, q.rev, q.kvs, Page(q.rev, q.key))
  BY Zenon, <1>1 DEF ListMore
<1>4. q \in ListCalls
  BY Zenon, <1>2, <1>3, CallShapes
<1>5. q.rev \in Nat /\ q.key \in Nat
  BY <1>4 DEF ListCalls
<1>6. ListingRight(q, versions, kvCommitted)
  BY Zenon, <1>2, <1>3 DEF ClientRight
<1>7. PICK rev \in Nat, from \in Nat : rev = q.rev /\ from = q.key
  BY Zenon, <1>5
<1>8. PICK kvs : kvs = q.kvs
  BY Zenon
<1>9. /\ rev <= kvCommitted
      /\ kvs \subseteq Snapshot(versions, rev)
      /\ \A p \in Snapshot(versions, rev) : p[1] < from => p \in kvs
  BY Zenon, <1>6, <1>7, <1>8 DEF ListingRight
<1>10. Turn(c, rev, kvs, Page(rev, from))
  BY Zenon, <1>3, <1>7, <1>8
<1> QED BY Zenon, <1>9, <1>10, TurnStep

-----------------------------------------------------------------------------
(* The invariant and the properties.                                       *)

\* The leader starts right.
LEMMA KvInitInv ==
  KvInit => KvInv
<1> SUFFICES ASSUME KvInit PROVE KvInv
  OBVIOUS
<1>1. /\ versions = [k \in RawKeys |-> IF k = Min(RawKeys) THEN {[rev |-> 1, live |-> TRUE]} ELSE {}]
      /\ kvDeal = 1 /\ kvCommitted = 1 /\ settled = {}
      /\ call = [c \in EtcdClients |-> Idle]
      /\ answer = [c \in EtcdClients |-> NoAnswer]
      /\ seen = [c \in EtcdClients |-> {}]
  BY Zenon DEF KvInit
<1>2. \A k \in RawKeys : versions[k] \in {{[rev |-> 1, live |-> TRUE]}, {}}
  BY Zenon, <1>1
<1>3. kvDeal \in 1 .. MaxRevision /\ kvCommitted \in 1 .. kvDeal /\ 1 \in 1 .. kvDeal
  BY <1>1, EtcdKVAssumption
<1>4. PICK v : v = [rev |-> 1, live |-> TRUE]
  BY Zenon
<1>5. v \in VersionRecords /\ v.rev = 1
  BY <1>4 DEF VersionRecords
<1>6. \A k \in RawKeys : versions[k] \in SUBSET VersionRecords
  BY Zenon, <1>2, <1>4, <1>5
<1>7. versions \in [RawKeys -> SUBSET VersionRecords]
  <2>1. versions = [k \in RawKeys |-> versions[k]]
    BY Zenon, <1>1
  <2> QED BY Zenon, <1>6, <2>1
<1>8. \A k \in RawKeys : KeyRight(versions[k], kvDeal)
  BY Zenon, <1>2, <1>3, <1>4, <1>5 DEF KeyRight
<1>9. StoreRight
  BY Zenon, <1>1, <1>3, <1>7, <1>8 DEF StoreRight
<1>10. Idle \in CallRecords /\ Idle.step \notin PendingSteps
  BY DEF CallRecords, Idle, PendingSteps
<1>11. ClientTypes
  <2>1. call \in [EtcdClients -> CallRecords]
    BY Zenon, <1>1, <1>10
  <2>2. answer = [c \in EtcdClients |-> answer[c]] /\ \A c \in EtcdClients : answer[c].of \in AnswerKinds
    BY Zenon, <1>1, NoAnswerIs
  <2>3. seen \in [EtcdClients -> SUBSET (0 .. kvDeal)]
    BY Zenon, <1>1
  <2> QED BY Zenon, <2>1, <2>2, <2>3 DEF ClientTypes
<1>12. Dealt
  BY Zenon, <1>1, <1>10 DEF Dealt
<1>13. EachRight
  <2>1. ASSUME NEW c \in EtcdClients
        PROVE  ClientRight(call[c], answer[c], seen[c], versions, kvCommitted)
    <3>1. PICK S, V, com, a : S = {} /\ V = versions /\ com = kvCommitted /\ a = NoAnswer
      BY Zenon
    <3>2. a.of # "txn" /\ a.of # "get" /\ a.of # "list"
      BY Zenon, <3>1, NoAnswerIs
    <3>3. ClientRight(Idle, a, S, V, com)
      BY Zenon, <3>2, AnsweredRight
    <3>4. call[c] = Idle /\ answer[c] = NoAnswer /\ seen[c] = {}
      BY Zenon, <1>1
    <3> QED BY Zenon, <3>1, <3>3, <3>4
  <2> QED BY Zenon, <2>1 DEF EachRight
<1> QED BY Zenon, <1>9, <1>11, <1>12, <1>13 DEF KvInv

\* A step of something else.
LEMMA KvStutterInv ==
  KvInv /\ UNCHANGED kvVars => KvInv'
<1> SUFFICES ASSUME KvInv, UNCHANGED kvVars PROVE KvInv'
  OBVIOUS
<1>1. /\ versions' = versions /\ kvDeal' = kvDeal /\ settled' = settled /\ kvCommitted' = kvCommitted
      /\ call' = call /\ answer' = answer /\ seen' = seen
  BY Zenon DEF kvVars, storeVars
<1>2. StoreRight' /\ ClientTypes'
  BY Zenon, <1>1 DEF KvInv, StoreRight, ClientTypes
<1>3. Dealt' /\ EachRight'
  BY Zenon, <1>1 DEF KvInv, Dealt, Fresh, EachRight
<1> QED BY Zenon, <1>2, <1>3 DEF KvInv

\* Every action keeps the invariant.
LEMMA KvNextInv ==
  KvInv /\ [KvNext]_kvVars => KvInv'
<1> SUFFICES ASSUME KvInv, [KvNext]_kvVars PROVE KvInv'
  OBVIOUS
<1>1. CASE UNCHANGED kvVars
  BY Zenon, <1>1, KvStutterInv
<1>2. CASE CollectNext
  BY Zenon, <1>2, CollectStep
<1>3. ASSUME NEW c \in EtcdClients, NEW k \in RawKeys, GetBegin(c, k)
      PROVE  KvInv'
  BY Zenon, <1>3, GetBeginStep
<1>4. ASSUME NEW c \in EtcdClients, NEW k \in RawKeys, NEW t \in Requests(k), Txn(c, k, t)
      PROVE  KvInv'
  BY Zenon, <1>4, TxnStep
<1>5. ASSUME NEW c \in EtcdClients, ListFirst(c)
      PROVE  KvInv'
  BY Zenon, <1>5, ListFirstStep
<1>6. ASSUME NEW c \in EtcdClients, Step(c)
      PROVE  KvInv'
  <2>1. CASE CreatePut(c)
    BY Zenon, <2>1, CreatePutStep
  <2>2. CASE CreateLook(c)
    BY Zenon, <2>2, CreateLookStep
  <2>3. CASE DeleteRead(c)
    BY Zenon, <2>3, DeleteReadStep
  <2>4. CASE DeleteDeal(c)
    BY Zenon, <2>4, DeleteDealStep
  <2>5. CASE CommitBatch(c)
    BY Zenon, <2>5, CommitStep
  <2>6. CASE Reread(c)
    BY Zenon, <2>6, RereadStep
  <2>7. CASE GetRead(c)
    BY Zenon, <2>7, GetReadStep
  <2>8. CASE ListMore(c)
    BY Zenon, <2>8, ListMoreStep
  <2> QED BY Zenon, <1>6, <2>1, <2>2, <2>3, <2>4, <2>5, <2>6, <2>7, <2>8 DEF Step
<1> QED BY Zenon, <1>1, <1>2, <1>3, <1>4, <1>5, <1>6 DEF KvNext

\* The inductive invariant: every client is right, in every state of the KV
\* service, and the revisions of the requests in progress are their own.
THEOREM KvInvariant == KvSpec => []KvInv
<1> QED BY KvInitInv, KvNextInv, PTL DEF KvSpec

\* The invariant implies the types.
LEMMA KvInvTypes == KvInv => KvTypeOK
<1> SUFFICES ASSUME KvInv PROVE KvTypeOK
  OBVIOUS
<1>1. /\ versions \in [RawKeys -> SUBSET VersionRecords]
      /\ kvDeal \in 1 .. MaxRevision /\ kvCommitted \in 1 .. kvDeal
      /\ settled \subseteq kvCommitted + 1 .. kvDeal
      /\ \A k \in RawKeys : KeyRight(versions[k], kvDeal)
  BY Zenon DEF KvInv, StoreRight
<1>2. ASSUME NEW k \in RawKeys
      PROVE  versions[k] \subseteq [rev : 1 .. kvDeal, live : BOOLEAN]
  <2> SUFFICES ASSUME NEW v \in versions[k] PROVE v \in [rev : 1 .. kvDeal, live : BOOLEAN]
    BY Zenon
  <2>1. v \in VersionRecords /\ v.rev \in 1 .. kvDeal
    BY Zenon, <1>1 DEF KeyRight
  <2> QED BY <2>1 DEF VersionRecords
<1>3. ASSUME NEW c \in EtcdClients
      PROVE  /\ call[c].step \in {"idle", "put", "look", "read", "deal", "commit", "reread", "get", "list"}
             /\ answer[c].of \in {"none", "txn", "get", "list", "compact", "unsupported"}
             /\ seen[c] \subseteq 0 .. kvDeal
  <2>1. PICK q \in CallRecords : q = call[c]
    BY Zenon, ClientFacts
  <2>2. q.step \in TxnSteps \cup {"idle", "get", "list"}
    BY Zenon, CallShapes
  <2>3. call[c].step \in {"idle", "put", "look", "read", "deal", "commit", "reread", "get", "list"}
    BY Zenon, <2>1, <2>2 DEF TxnSteps
  <2>4. answer[c].of \in {"none", "txn", "get", "list", "compact", "unsupported"} /\ seen[c] \subseteq 0 .. kvDeal
    BY Zenon, ClientFacts DEF AnswerKinds
  <2> QED BY Zenon, <2>3, <2>4
<1> QED BY Zenon, <1>1, <1>2, <1>3 DEF KvTypeOK

\* The variables have their types; a revision that is collected was dealt, and is
\* collected once.
THEOREM KvTypes == KvSpec => []KvTypeOK
<1> QED BY KvInvariant, KvInvTypes, PTL

\* It implies that a Txn was answered as etcd does.
LEMMA KvInvTxn == KvInv => TxnAsEtcd
<1> SUFFICES ASSUME KvInv, NEW c \in EtcdClients, NEW a, a = answer[c], NEW S, S = seen[c], a.of = "txn"
             PROVE  TxnRight(a, S)
  BY Zenon DEF TxnAsEtcd, TxnRight
<1> QED BY Zenon DEF KvInv, EachRight, ClientRight

\* The answer to a conditional Txn is one that etcd gives at some moment of the
\* request, though the backend compares in one step and reads the kv it returns in
\* another (txn.go, backendshim.go).
THEOREM TxnsAreEtcds == KvSpec => []TxnAsEtcd
<1> QED BY KvInvariant, KvInvTxn, PTL

\* It implies that the answer to a Get is current or an event follows.
LEMMA KvInvGet == KvInv => GetThenWatch
<1> SUFFICES ASSUME KvInv, NEW c \in EtcdClients, answer[c].of = "get",
                    \A v \in versions[answer[c].key] : v.rev <= answer[c].header
             PROVE  answer[c].kv = get(answer[c].key)
  BY Zenon DEF GetThenWatch
<1>1. GetRight(answer[c], versions, kvCommitted)
  BY Zenon DEF KvInv, EachRight, ClientRight
<1>2. PICK k : k = answer[c].key
  BY Zenon
<1>3. answer[c].kv = Shown(Current(versions[k]))
  BY Zenon, <1>1, <1>2 DEF GetRight
<1> QED BY Zenon, <1>2, <1>3, NewestIsCurrent

\* A client that gets a key and watches from the header on ends with what the key
\* is: Get loads the committed revision before it reads (range.go).
THEOREM GetsThenWatch == KvSpec => []GetThenWatch
<1> QED BY KvInvariant, KvInvGet, PTL

\* It implies that the pages of a List are the snapshot.
LEMMA KvInvPages == KvInv => PagesAreOneSnapshot
<1> SUFFICES ASSUME KvInv, NEW c \in EtcdClients, NEW a, a = answer[c], a.of = "list"
             PROVE  a.kvs = {<<k, NewestAt(k, a.header).rev>> : k \in {j \in RawKeys : NewestAt(j, a.header).live}}
  BY Zenon DEF PagesAreOneSnapshot
<1>1. a.kvs = Snapshot(versions, a.header)
  BY Zenon DEF KvInv, EachRight, ClientRight, ListRight
<1> QED BY Zenon, <1>1 DEF Snapshot, NewestAt

\* The pages of a List are the keys as they were at the revision of the first
\* page, whatever is written between the pages or after them (List, range.go).
THEOREM PagesAreASnapshot == KvSpec => []PagesAreOneSnapshot
<1> QED BY KvInvariant, KvInvPages, PTL
=============================================================================
