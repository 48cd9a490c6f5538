---------------------------- MODULE ScannerProofs ----------------------------
(***************************************************************************)
(* Compaction takes nothing away that a reader may ask for, for every set  *)
(* of keys, events and ranges, every TTL, any faults and any number of     *)
(* retries: the inductive invariant, one lemma per action, and what        *)
(* follows for the store, the index rows and the range reads.              *)
(***************************************************************************)
EXTENDS Scanner, TLAPS

-----------------------------------------------------------------------------
(* The inductive invariant.                                                *)

\* A revision is written once, and not above the committed one.
Once ==
  /\ \A v \in DOMAIN written : v.rev <= current
  /\ \A v, w \in DOMAIN written : v.rev = w.rev => v = w

\* Of the versions of a key up to a revision one is the newest.
HasNewest ==
  \A k \in Keys, r \in Nat :
    (\E v \in DOMAIN written : v.key = k /\ v.rev <= r) => NewestAt(DOMAIN written, k, r) # {}

\* A version with later ones has a next one.
Chained(rows) ==
  \A o, p \in rows : p.key = o.key /\ o.rev < p.rev => \E q \in rows : Follows(rows, o, q)

\* k expires, and what was written to it up to r has lived for its TTL.
Outlived(k, r) ==
  k \in Events /\ \A v \in DOMAIN written : v.key = k /\ v.rev <= r => now - written[v] >= TTL

\* No read at or above the compacted revision needs v.
Dispensable(v) ==
  \/ v.del
  \/ Outlived(v.key, v.rev)
  \/ \E w \in DOMAIN written : w.key = v.key /\ v.rev < w.rev /\ w.rev <= compacted

\* Up to revision r, rows has the newest of what was written to each key, and
\* what it lacks is dispensable.
Sound(rows, r) ==
  /\ rows \subseteq DOMAIN written
  /\ \A o \in rows, p \in DOMAIN written :
       p.key = o.key /\ o.rev < p.rev /\ p.rev <= r => p \in rows
  /\ \A v \in DOMAIN written : v \notin rows /\ v.rev <= r => Dispensable(v)

\* A record of the histories is not older than what its revision covers.
Logged ==
  \A i \in DOMAIN histories : \A v \in DOMAIN written :
    v.rev <= histories[i].rev => written[v] <= histories[i].time

\* The index rows are not ahead of the committed revision.
Behind(idx) == \A k \in Keys : idx[k].rev <= current

\* What the snapshot of a compaction lacks was written after it.
Snapped ==
  compactor.step = "put" =>
    /\ compactor.snap.objects \subseteq DOMAIN written
    /\ Chained(compactor.snap.objects)
    /\ \A p \in objects :
         p \in compactor.snap.objects \/ \A o \in compactor.snap.objects : o.rev < p.rev
    /\ Behind(compactor.snap.index)

VersionOf(d) == Version(d.key, d.rev, d.del)

\* A deletion takes what no one needs.
Judged(d) ==
  /\ d.rev <= current
  /\ IF d.at = 0 THEN d.del \/ Outlived(d.key, d.rev)
     ELSE VersionOf(d) \in DOMAIN written /\ Dispensable(VersionOf(d))

\* The older versions of the key go before it.
InOrder(d, deletes) ==
  d.at # 0 => \A p \in objects : p.key = d.key /\ p.rev < d.rev =>
    \E e \in deletes : e.at # 0 /\ VersionOf(e) = p /\ Before(e, d)

\* e was carried out, or its key is skipped.
Settled(e) == e.at = 0 \/ VersionOf(e) \notin objects \/ e.key \in compactor.skip

Scanning ==
  compactor.step = "scan" =>
    /\ compactor.left \subseteq compactor.deletes
    /\ compactor.rev <= compacted
    /\ \A d \in compactor.deletes : Judged(d) /\ InOrder(d, compactor.deletes)
    /\ \A d \in compactor.left, e \in compactor.deletes \ compactor.left :
         Before(e, d) /\ (e.key = d.key => Settled(e))

Ranging ==
  /\ ranger.step = "check" => Sound(ranger.snap, ranger.rev)
  /\ RangeExactIfRecorded

\* Revisions in use are not above the committed one.
Clamped ==
  /\ compactor # Idle => compactor.rev <= current
  /\ ranger # Idle => ranger.rev <= current

Inv ==
  /\ TypeOK
  /\ Once /\ HasNewest /\ Chained(objects) /\ Sound(objects, current)
  /\ Logged /\ Behind(index) /\ IndexNamesNewest
  /\ Clamped /\ Snapped /\ Scanning /\ Ranging

-----------------------------------------------------------------------------
(* Types.                                                                  *)

\* The bounds are numbers, and so are the keys.
LEMMA Numbers ==
  ASSUME TypeOK
  PROVE  /\ MaxTries \in Nat /\ MaxRevision \in Nat /\ MaxClock \in Nat /\ TTL \in Nat
         /\ Keys \subseteq Nat
         /\ now \in Nat /\ current \in Nat /\ record \in Nat /\ compacted \in Nat
         /\ compacted <= current /\ record <= current /\ current <= MaxRevision
<1>1. /\ MaxTries \in Nat /\ MaxRevision \in Nat /\ MaxClock \in Nat /\ TTL \in Nat
      /\ Keys \subseteq Nat
  BY Zenon, ScannerAssumption
<1>2. /\ now \in 0 .. MaxClock /\ current \in 0 .. MaxRevision
      /\ record \in 0 .. current /\ compacted \in 0 .. current
  BY Zenon DEF TypeOK
<1> QED BY <1>1, <1>2

\* The rows of the store.
LEMMA VersionTypes ==
  ASSUME TypeOK
  PROVE  /\ \A v \in Versions : /\ v.key \in Keys /\ v.rev \in Nat /\ v.rev # 0
                                /\ v.del \in BOOLEAN /\ v = Version(v.key, v.rev, v.del)
         /\ \A v \in DOMAIN written : v \in Versions /\ written[v] \in Nat /\ written[v] <= now
         /\ objects \subseteq DOMAIN written
<1>1. \A v \in Versions : /\ v.key \in Keys /\ v.rev \in 1 .. MaxRevision
                          /\ v.del \in BOOLEAN /\ v = Version(v.key, v.rev, v.del)
  BY DEF Versions, Version
<1>2. \A v \in DOMAIN written : v \in Versions /\ written[v] \in 0 .. now
  BY Zenon DEF TypeOK
<1>3. objects \subseteq DOMAIN written
  BY Zenon DEF TypeOK
<1> QED BY <1>1, <1>2, <1>3, Numbers

\* The steps of Compact.
LEMMA CompactorTypes ==
  ASSUME TypeOK
  PROVE  /\ compactor.step \in {"idle", "record", "range", "put", "scan"}
         /\ compactor.step = "idle" <=> compactor = Idle
         /\ compactor # Idle => compactor.rev \in Nat /\ compactor.rev \in 1 .. MaxRevision
         /\ compactor.step = "record" => compactor.seen \in Nat
         /\ compactor.step \in {"range", "put", "scan"} => compactor.range \in DOMAIN Ranges
         /\ compactor.step = "put" => /\ compactor.snap.index \in Indexes
                                      /\ compactor.snap.objects \subseteq Versions
         /\ compactor.step = "scan" => /\ compactor.deletes \subseteq Deletions
                                       /\ compactor.left \subseteq Deletions
                                       /\ compactor.skip \subseteq Keys
                                       /\ compactor.tries \in Nat
<1>1. compactor \in Compactors /\ MaxRevision \in Nat
  BY Zenon, Numbers DEF TypeOK
<1>2. CASE compactor = Idle
  BY Zenon, <1>2 DEF Idle
<1>3. CASE compactor \in [step : {"record"}, rev : 1 .. MaxRevision, seen : 0 .. MaxRevision]
  BY <1>1, <1>3 DEF Idle
<1>4. CASE compactor \in [step : {"range"}, rev : 1 .. MaxRevision, range : DOMAIN Ranges]
  BY <1>1, <1>4 DEF Idle
<1>5. CASE compactor \in [step : {"put"}, rev : 1 .. MaxRevision, range : DOMAIN Ranges,
                          snap : [index : Indexes, objects : SUBSET Versions]]
  <2>1. compactor.snap \in [index : Indexes, objects : SUBSET Versions]
    BY Zenon, <1>5
  <2> QED BY <1>1, <1>5, <2>1 DEF Idle
<1>6. CASE compactor \in [step : {"scan"}, rev : 1 .. MaxRevision, range : DOMAIN Ranges,
                          deletes : SUBSET Deletions, left : SUBSET Deletions,
                          skip : SUBSET Keys, tries : Nat]
  BY <1>1, <1>6 DEF Idle
<1> QED BY Zenon, <1>1, <1>2, <1>3, <1>4, <1>5, <1>6 DEF Compactors

\* The steps of a range read.
LEMMA RangerTypes ==
  ASSUME TypeOK
  PROVE  /\ ranger.step \in {"idle", "check", "done"}
         /\ ranger.step = "idle" <=> ranger = Idle
         /\ ranger # Idle => ranger.rev \in Nat /\ ranger.rev \in 1 .. MaxRevision
         /\ ranger.step = "check" => ranger.snap \subseteq Versions
         /\ ranger.step = "done" => ranger.kvs \subseteq Versions
<1>1. ranger \in Rangers /\ MaxRevision \in Nat
  BY Zenon, Numbers DEF TypeOK
<1>2. CASE ranger = Idle
  BY Zenon, <1>2 DEF Idle
<1>3. CASE ranger \in [step : {"check"}, rev : 1 .. MaxRevision, snap : SUBSET Versions]
  BY <1>1, <1>3 DEF Idle
<1>4. CASE ranger \in [step : {"done"}, rev : 1 .. MaxRevision, kvs : SUBSET Versions,
                       recorded : BOOLEAN]
  BY <1>1, <1>4 DEF Idle
<1> QED BY Zenon, <1>1, <1>2, <1>3, <1>4 DEF Rangers

-----------------------------------------------------------------------------
(* What sound rows show to a reader.                                       *)

\* A reader above the compacted revision sees in sound rows what was written,
\* but for events that have lived for their TTL.
LEMMA Exact ==
  ASSUME TypeOK, Once, HasNewest, NEW rows, NEW r \in Nat, Sound(rows, r), compacted <= r,
         NEW k \in Keys
  PROVE  \/ VisibleAt(rows, k, r) = VisibleAt(DOMAIN written, k, r)
         \/ VisibleAt(rows, k, r) = {} /\ MayBeGone(k, r)
<1> DEFINE W == DOMAIN written
<1>1. \A v \in W : v.rev \in Nat
  BY Zenon, VersionTypes
<1>2. rows \subseteq W
  BY Zenon DEF Sound
<1>3. CASE ~\E v \in W : v.key = k /\ v.rev <= r
  BY Zenon, <1>2, <1>3 DEF VisibleAt, NewestAt, VersionsOf
<1>4. CASE \E v \in W : v.key = k /\ v.rev <= r
  <2>1. PICK v \in W : /\ v.key = k /\ v.rev <= r
                       /\ \A p \in W : p.key = k /\ p.rev <= r => p.rev <= v.rev
    BY Zenon, <1>4 DEF HasNewest, NewestAt, VersionsOf
  <2>2. \A p \in W : p.key = k /\ p.rev <= r => p = v \/ p.rev < v.rev
    BY <1>1, <2>1 DEF Once
  <2>3. VisibleAt(W, k, r) = {o \in {v} : ~o.del}
    BY <1>1, <2>1, <2>2 DEF VisibleAt, NewestAt, VersionsOf
  <2>4. CASE v \in rows
    <3>1. VisibleAt(rows, k, r) = {o \in {v} : ~o.del}
      BY <1>1, <1>2, <2>1, <2>2, <2>4 DEF VisibleAt, NewestAt, VersionsOf
    <3> QED BY Zenon, <2>3, <3>1
  <2>5. CASE v \notin rows
    <3>1. \A o \in rows : ~(o.key = k /\ o.rev <= r)
      BY Zenon, <1>2, <2>1, <2>2, <2>5 DEF Sound
    <3>2. VisibleAt(rows, k, r) = {}
      BY Zenon, <3>1 DEF VisibleAt, NewestAt, VersionsOf
    <3>3. Dispensable(v)
      BY Zenon, <2>1, <2>5 DEF Sound
    <3>4. CASE v.del
      BY Zenon, <2>3, <3>2, <3>4
    <3>5. CASE Outlived(v.key, v.rev)
      <4>1. k \in Events /\ now - written[v] >= TTL
        BY Zenon, <1>1, <2>1, <3>5 DEF Outlived
      <4> QED BY Zenon, <2>3, <3>2, <4>1 DEF MayBeGone
    <3>6. CASE \E w \in W : w.key = v.key /\ v.rev < w.rev /\ w.rev <= compacted
      <4>1. PICK w \in W : w.key = k /\ v.rev < w.rev /\ w.rev <= compacted
        BY Zenon, <2>1, <3>6
      <4> QED BY <1>1, <2>2, <4>1, Numbers
    <3> QED BY Zenon, <3>3, <3>4, <3>5, <3>6 DEF Dispensable
  <2> QED BY Zenon, <2>4, <2>5
<1> QED BY Zenon, <1>3, <1>4

-----------------------------------------------------------------------------
(* What every step does to the store.                                      *)

\* Time and revisions go up, what was written stays, and the versions a step
\* adds are above the committed revision.
Step ==
  /\ now <= now' /\ current <= current' /\ compacted <= compacted'
  /\ DOMAIN written \subseteq DOMAIN written'
  /\ \A v \in DOMAIN written : written'[v] = written[v]
  /\ \A v \in DOMAIN written' : v \in DOMAIN written \/ current < v.rev
  /\ \A o \in objects' : o \in objects \/ current < o.rev

\* The numbers of the next state.
LEMMA NextTypes ==
  ASSUME TypeOK'
  PROVE  /\ now' \in Nat /\ current' \in Nat /\ compacted' \in Nat
         /\ \A v \in DOMAIN written' : /\ v \in Versions /\ v.rev \in Nat
                                       /\ written'[v] \in Nat /\ written'[v] <= now'
         /\ objects' \subseteq DOMAIN written'
<1>1. /\ now' \in 0 .. MaxClock /\ current' \in 0 .. MaxRevision
      /\ compacted' \in 0 .. current'
      /\ DOMAIN written' \subseteq Versions /\ objects' \subseteq DOMAIN written'
      /\ \A v \in DOMAIN written' : written'[v] \in 0 .. now'
  BY Zenon DEF TypeOK
<1>2. \A v \in Versions : v.rev \in Nat
  BY ScannerAssumption DEF Versions
<1>3. \A v \in DOMAIN written' : written'[v] \in Nat /\ written'[v] <= now'
  BY <1>1, ScannerAssumption
<1>4. now' \in Nat /\ current' \in Nat /\ compacted' \in Nat
  BY <1>1, ScannerAssumption
<1> QED BY Zenon, <1>1, <1>2, <1>3, <1>4

\* What has outlived its TTL, and what no one needs, stays so.
LEMMA StaysDispensable ==
  ASSUME TypeOK, TypeOK', Once, Step
  PROVE  /\ \A k : \A r \in 0 .. current : Outlived(k, r) => Outlived(k, r)'
         /\ \A v \in DOMAIN written : Dispensable(v) => Dispensable(v)'
<1>1. \A k : \A r \in 0 .. current : Outlived(k, r) => Outlived(k, r)'
  <2> SUFFICES ASSUME NEW k, NEW r \in 0 .. current, Outlived(k, r),
                      NEW v \in DOMAIN written', v.key = k, v.rev <= r
               PROVE  now' - written'[v] >= TTL
    BY Zenon DEF Outlived
  <2>1. v.rev \in Nat /\ current \in Nat /\ now \in Nat /\ now' \in Nat /\ TTL \in Nat
    BY Zenon, NextTypes, Numbers
  <2>2. v \in DOMAIN written
    BY <2>1 DEF Step
  <2>3. written'[v] = written[v] /\ written[v] \in Nat /\ now <= now'
    BY Zenon, <2>2, VersionTypes DEF Step
  <2>4. now - written[v] >= TTL
    BY Zenon, <2>2 DEF Outlived
  <2> QED BY <2>1, <2>3, <2>4
<1>2. ASSUME NEW v \in DOMAIN written, Dispensable(v)
      PROVE  Dispensable(v)'
  <2>1. v.rev \in 0 .. current
    BY VersionTypes, Numbers DEF Once
  <2>2. CASE \E w \in DOMAIN written : w.key = v.key /\ v.rev < w.rev /\ w.rev <= compacted
    <3>1. PICK w \in DOMAIN written : w.key = v.key /\ v.rev < w.rev /\ w.rev <= compacted
      BY Zenon, <2>2
    <3>2. w \in DOMAIN written' /\ w.rev <= compacted'
      BY <3>1, VersionTypes, Numbers, NextTypes DEF Step
    <3> QED BY Zenon, <3>1, <3>2 DEF Dispensable
  <2> QED BY Zenon, <1>1, <1>2, <2>1, <2>2 DEF Dispensable
<1> QED BY Zenon, <1>1, <1>2

\* What was visible at a committed revision stays what it was.
LEMMA StaysVisible ==
  ASSUME TypeOK, TypeOK', Once, Step, NEW k, NEW r \in 0 .. current
  PROVE  /\ VisibleAt(DOMAIN written', k, r) = VisibleAt(DOMAIN written, k, r)
         /\ MayBeGone(k, r) => MayBeGone(k, r)'
<1>1. \A v \in DOMAIN written' : v.rev <= r => v \in DOMAIN written
  BY NextTypes, Numbers DEF Step
<1>2. {o \in VersionsOf(DOMAIN written', k) : o.rev <= r}
        = {o \in VersionsOf(DOMAIN written, k) : o.rev <= r}
  BY Zenon, <1>1 DEF VersionsOf, Step
<1>3. VisibleAt(DOMAIN written', k, r) = VisibleAt(DOMAIN written, k, r)
  BY Zenon, <1>2 DEF VisibleAt, NewestAt
<1>4. VisibleAt(DOMAIN written, k, r) \subseteq DOMAIN written
  BY Zenon DEF VisibleAt, NewestAt, VersionsOf
<1>5. ASSUME MayBeGone(k, r)
      PROVE  MayBeGone(k, r)'
  <2> SUFFICES ASSUME NEW v \in VisibleAt(DOMAIN written', k, r)
               PROVE  now' - written'[v] >= TTL
    BY Zenon, <1>5 DEF MayBeGone
  <2>1. v \in DOMAIN written /\ now - written[v] >= TTL
    BY Zenon, <1>3, <1>4, <1>5 DEF MayBeGone
  <2>2. written'[v] = written[v] /\ written[v] \in Nat /\ now <= now'
    BY Zenon, <2>1, VersionTypes DEF Step
  <2> QED BY <2>1, <2>2, Numbers, NextTypes
<1> QED BY Zenon, <1>3, <1>5

\* The records of the histories.
LEMMA HistoryTypes ==
  ASSUME TypeOK, NEW i \in DOMAIN histories
  PROVE  /\ histories[i].rev \in Nat /\ histories[i].rev <= current
         /\ histories[i].time \in Nat /\ histories[i].time <= now
<1>1. PICK S : S = [rev : 1 .. current, time : 0 .. now]
  BY Zenon
<1>2. histories \in Seq(S)
  BY Zenon, <1>1 DEF TypeOK
<1>3. histories[i] \in S
  BY <1>2
<1>4. current \in Nat /\ now \in Nat
  BY Zenon, Numbers
<1> QED BY <1>1, <1>3, <1>4

\* Histories that stay cover what they did.
LEMMA LoggedKept ==
  ASSUME Inv, TypeOK', Step, UNCHANGED histories
  PROVE  Logged'
<1> SUFFICES ASSUME NEW i \in DOMAIN histories, NEW v \in DOMAIN written',
                    v.rev <= histories[i].rev
             PROVE  written'[v] <= histories[i].time
  BY Zenon DEF Logged
<1>1. TypeOK /\ Logged
  BY Zenon DEF Inv
<1>2. histories[i].rev \in Nat /\ histories[i].rev <= current
  BY Zenon, <1>1, HistoryTypes
<1>3. v.rev \in Nat /\ current \in Nat /\ (v \in DOMAIN written \/ current < v.rev)
  BY Zenon, <1>1, Numbers, NextTypes DEF Step
<1>4. v \in DOMAIN written
  BY <1>2, <1>3
<1> QED BY Zenon, <1>1, <1>4 DEF Logged, Step

\* A range read in progress is not disturbed.
LEMMA RangingKept ==
  ASSUME Inv, TypeOK', Step, UNCHANGED ranger
  PROVE  Ranging'
<1>1. TypeOK /\ Once /\ Ranging /\ Clamped
  BY Zenon DEF Inv
<1>2. ASSUME ranger.step = "check"
      PROVE  Sound(ranger.snap, ranger.rev)'
  <2> DEFINE rows == ranger.snap
             r == ranger.rev
  <2>1. r \in Nat /\ r <= current
    BY Zenon, <1>1, <1>2, RangerTypes DEF Clamped
  <2>2. Sound(rows, r)
    BY Zenon, <1>1, <1>2 DEF Ranging
  <2>3. \A v \in DOMAIN written' : v.rev <= r => v \in DOMAIN written
    BY <1>1, <2>1, Numbers, NextTypes DEF Step
  <2>4. rows \subseteq DOMAIN written'
    BY Zenon, <2>2 DEF Sound, Step
  <2>5. \A v \in DOMAIN written' : v \notin rows /\ v.rev <= r => Dispensable(v)'
    BY Zenon, <1>1, <2>2, <2>3, StaysDispensable DEF Sound
  <2>6. \A o \in rows, p \in DOMAIN written' :
          p.key = o.key /\ o.rev < p.rev /\ p.rev <= r => p \in rows
    BY Zenon, <2>2, <2>3 DEF Sound
  <2> QED BY Zenon, <2>4, <2>5, <2>6 DEF Sound
<1>3. ASSUME ranger.step = "done", ranger.recorded
      PROVE  ReturnedExactly'
  <2> SUFFICES ASSUME NEW k \in Keys
               PROVE  \/ VersionsOf(ranger.kvs, k) = VisibleAt(DOMAIN written', k, ranger.rev)
                      \/ VersionsOf(ranger.kvs, k) = {} /\ MayBeGone(k, ranger.rev)'
    BY Zenon DEF ReturnedExactly
  <2>1. PICK r \in 0 .. current : r = ranger.rev
    <3>1. ranger.rev \in Nat /\ ranger.rev <= current /\ current \in Nat
      BY Zenon, <1>1, <1>3, RangerTypes, Numbers DEF Clamped
    <3> QED BY <3>1
  <2>2. \/ VersionsOf(ranger.kvs, k) = VisibleAt(DOMAIN written, k, r)
        \/ VersionsOf(ranger.kvs, k) = {} /\ MayBeGone(k, r)
    BY Zenon, <1>1, <1>3, <2>1 DEF Ranging, RangeExactIfRecorded, ReturnedExactly
  <2>3. \/ VersionsOf(ranger.kvs, k) = VisibleAt(DOMAIN written', k, r)
        \/ VersionsOf(ranger.kvs, k) = {} /\ MayBeGone(k, r)'
    BY Zenon, <1>1, <2>2, StaysVisible
  <2>4. r = ranger'.rev
    BY Zenon, <2>1
  <2>5. MayBeGone(k, r)' => MayBeGone(k, ranger.rev)'
    BY Zenon, <2>4 DEF MayBeGone
  <2> QED BY Zenon, <2>1, <2>3, <2>5
<1> QED BY Zenon, <1>2, <1>3 DEF Ranging, RangeExactIfRecorded

\* A deletion that was judged right stays right.
LEMMA StaysJudged ==
  ASSUME TypeOK, TypeOK', Once, Step, NEW d \in Deletions, Judged(d)
  PROVE  Judged(d)'
<1>1. d.rev \in 0 .. current /\ d.rev <= current'
  BY Numbers, NextTypes DEF Judged, Deletions, Step
<1>2. CASE d.at = 0
  BY Zenon, <1>1, <1>2, StaysDispensable DEF Judged
<1>3. CASE d.at # 0
  <2>1. PICK v \in DOMAIN written : v = VersionOf(d)
    BY Zenon, <1>3 DEF Judged
  <2>2. Dispensable(v)'
    BY Zenon, <1>3, <2>1, StaysDispensable DEF Judged
  <2> QED BY Zenon, <1>1, <1>3, <2>1, <2>2 DEF Judged, Step
<1> QED BY Zenon, <1>2, <1>3

\* The order of the deletions concerns only rows that were there.
LEMMA StaysInOrder ==
  ASSUME TypeOK, TypeOK', Step, NEW d \in Deletions, Judged(d), NEW deletes,
         InOrder(d, deletes)
  PROVE  InOrder(d, deletes)'
<1>1. d.rev \in Nat /\ d.rev <= current
  BY Numbers DEF Judged, Deletions
<1>2. \A p \in objects' : p.rev < d.rev => p \in objects
  BY <1>1, Numbers, NextTypes DEF Step
<1> QED BY Zenon, <1>2 DEF InOrder

\* A compaction in progress is not disturbed.
LEMMA CompactorKept ==
  ASSUME Inv, TypeOK', Step, UNCHANGED compactor
  PROVE  Snapped' /\ Scanning'
<1>1. TypeOK /\ Once /\ Snapped /\ Scanning
  BY Zenon DEF Inv
<1>2. ASSUME compactor.step = "put"
      PROVE  Snapped'
  <2> DEFINE rows == compactor.snap.objects
             idx == compactor.snap.index
  <2>1. /\ rows \subseteq DOMAIN written /\ Chained(rows) /\ Behind(idx)
        /\ \A p \in objects : p \in rows \/ \A o \in rows : o.rev < p.rev
    BY Zenon, <1>1, <1>2 DEF Snapped
  <2>2. \A o \in rows : o.rev \in Nat /\ o.rev <= current
    BY Zenon, <1>1, <2>1, VersionTypes DEF Once
  <2>3. \A p \in objects' : p \in rows \/ \A o \in rows : o.rev < p.rev
    <3> SUFFICES ASSUME NEW p \in objects', p \notin objects, NEW o \in rows
                 PROVE  o.rev < p.rev
      BY Zenon, <2>1
    <3>1. p.rev \in Nat /\ current < p.rev /\ current \in Nat
      BY Zenon, <1>1, Numbers, NextTypes DEF Step
    <3> QED BY <2>2, <3>1
  <2>4. \A k \in Keys : idx[k].rev \in Nat
    <3>1. idx \in Indexes
      BY Zenon, <1>1, <1>2, CompactorTypes
    <3> QED BY <3>1, ScannerAssumption DEF Indexes
  <2>5. \A k \in Keys : idx[k].rev <= current'
    <3>1. \A k \in Keys : idx[k].rev <= current
      BY Zenon, <2>1 DEF Behind
    <3>2. current \in Nat /\ current' \in Nat /\ current <= current'
      BY Zenon, <1>1, Numbers, NextTypes DEF Step
    <3> QED BY <2>4, <3>1, <3>2
  <2>6. Chained(compactor.snap.objects)'
    BY Zenon, <2>1 DEF Chained
  <2>7. rows \subseteq DOMAIN written'
    BY Zenon, <2>1 DEF Step
  <2> QED BY Zenon, <2>3, <2>5, <2>6, <2>7 DEF Snapped, Behind
<1>3. ASSUME compactor.step = "scan"
      PROVE  Scanning'
  <2>1. PICK dels : dels = compactor.deletes
    BY Zenon
  <2>2. dels \subseteq Deletions /\ compactor.left \subseteq dels
    BY Zenon, <1>1, <1>3, <2>1, CompactorTypes DEF Scanning
  <2>3. \A d \in dels : Judged(d) /\ InOrder(d, dels)
    BY Zenon, <1>1, <1>3, <2>1 DEF Scanning
  <2>4. \A d \in dels : Judged(d)' /\ InOrder(d, dels)'
    BY Zenon, <1>1, <2>2, <2>3, StaysJudged, StaysInOrder
  <2>5. \A d \in compactor.left, e \in dels \ compactor.left :
          Before(e, d) /\ (e.key = d.key => Settled(e))
    BY Zenon, <1>1, <1>3, <2>1 DEF Scanning
  <2>6. \A e \in dels : Settled(e) => Settled(e)'
    <3> SUFFICES ASSUME NEW e \in dels, VersionOf(e) \notin objects
                 PROVE  VersionOf(e) \notin objects'
      BY Zenon DEF Settled
    <3>1. VersionOf(e).rev = e.rev /\ e.rev \in Nat /\ e.rev <= current
      BY <2>2, <2>3, ScannerAssumption DEF VersionOf, Version, Judged, Deletions
    <3> QED BY <1>1, <3>1, Numbers DEF Step
  <2>7. compactor'.rev <= compacted'
    <3>1. compactor.rev \in Nat /\ compactor.rev <= compacted
      BY Zenon, <1>1, <1>3, CompactorTypes DEF Scanning
    <3> QED BY <1>1, <3>1, Numbers, NextTypes DEF Step
  <2>8. \A d \in dels : InOrder(d, dels)' => InOrder(d, compactor.deletes)'
    BY Zenon, <2>1 DEF InOrder
  <2> QED BY Zenon, <2>1, <2>2, <2>4, <2>5, <2>6, <2>7, <2>8 DEF Scanning
<1>4. Snapped'
  BY Zenon, <1>2 DEF Snapped
<1>5. Scanning'
  BY Zenon, <1>3 DEF Scanning
<1> QED BY Zenon, <1>4, <1>5

\* A step that leaves the rows alone keeps what is said of them.
LEMMA StoreKept ==
  ASSUME Inv, TypeOK', UNCHANGED storeVars, now <= now', compacted <= compacted'
  PROVE  /\ Step
         /\ Once' /\ HasNewest' /\ Chained(objects)' /\ Sound(objects, current)'
         /\ Behind(index)' /\ IndexNamesNewest'
<1>1. /\ TypeOK /\ Once /\ HasNewest /\ Chained(objects) /\ Sound(objects, current)
      /\ Behind(index) /\ IndexNamesNewest
  BY Zenon DEF Inv
<1>2. /\ current' = current /\ index' = index /\ objects' = objects /\ written' = written
  BY Zenon DEF storeVars
<1>3. Step
  <2>1. current <= current'
    BY <1>1, <1>2, Numbers
  <2> QED BY Zenon, <1>2, <2>1 DEF Step
<1>4. Once' /\ HasNewest' /\ Chained(objects)' /\ Behind(index)'
  BY Zenon, <1>1, <1>2 DEF Once, HasNewest, Chained, Behind
<1>5. Sound(objects, current)'
  BY Zenon, <1>1, <1>2, <1>3, StaysDispensable DEF Sound
<1>6. IndexNamesNewest'
  <2>1. \A v \in DOMAIN written : now - written[v] >= TTL => now' - written[v] >= TTL
    BY <1>1, Numbers, VersionTypes, NextTypes
  <2>2. \A k : NewestAt(DOMAIN written, k, current) \subseteq DOMAIN written
    BY Zenon DEF NewestAt, VersionsOf
  <2> QED BY Zenon, <1>1, <1>2, <2>1, <2>2 DEF IndexNamesNewest
<1> QED BY Zenon, <1>3, <1>4, <1>5, <1>6

\* The histories keep their type as time and revisions go up.
LEMMA HistoriesKept ==
  ASSUME TypeOK, UNCHANGED histories, now <= now', current <= current',
         now' \in Nat, current' \in Nat
  PROVE  histories' \in Seq([rev : 1 .. current', time : 0 .. now'])
<1>1. [rev : 1 .. current, time : 0 .. now] \subseteq [rev : 1 .. current', time : 0 .. now']
  <2>1. 1 .. current \subseteq 1 .. current' /\ 0 .. now \subseteq 0 .. now'
    BY Numbers
  <2> QED BY Zenon, <2>1
<1>2. histories \in Seq([rev : 1 .. current, time : 0 .. now])
  BY Zenon DEF TypeOK
<1>3. ASSUME NEW S, NEW T, S \subseteq T, histories \in Seq(S)
      PROVE  histories \in Seq(T)
  BY <1>3
<1> QED BY Zenon, <1>1, <1>2, <1>3

\* The clock.
LEMMA TickInv ==
  ASSUME Inv, Tick
  PROVE  Inv' /\ Step
<1>1. TypeOK /\ now' = now + 1 /\ now < MaxClock /\ UNCHANGED <<storeVars, compactVars, ranger>>
  BY Zenon DEF Inv, Tick
<1>2. UNCHANGED <<record, histories, compactor, requests, compacted>>
  BY Zenon, <1>1 DEF compactVars
<1>3. TypeOK'
  <2>1. /\ now' \in 0 .. MaxClock /\ now' \in Nat /\ now <= now'
        /\ current \in Nat /\ current <= current
    BY <1>1, Numbers
  <2>2. current' = current /\ index' = index /\ objects' = objects /\ written' = written
    BY Zenon, <1>1 DEF storeVars
  <2>3. histories' \in Seq([rev : 1 .. current', time : 0 .. now'])
    BY Zenon, <1>1, <1>2, <2>1, <2>2, HistoriesKept
  <2>4. written \in [DOMAIN written -> 0 .. now']
    <3>1. 0 .. now \subseteq 0 .. now'
      BY <1>1, <2>1, Numbers
    <3>2. written \in [DOMAIN written -> 0 .. now]
      BY Zenon, <1>1 DEF TypeOK
    <3> QED BY Zenon, <3>1, <3>2
  <2> QED BY Zenon, <1>1, <1>2, <2>1, <2>2, <2>3, <2>4 DEF TypeOK
<1>4. now <= now' /\ compacted <= compacted'
  BY <1>1, <1>2, Numbers
<1>5. /\ Step /\ Once' /\ HasNewest' /\ Chained(objects)' /\ Sound(objects, current)'
      /\ Behind(index)' /\ IndexNamesNewest'
  BY Zenon, <1>1, <1>3, <1>4, StoreKept
<1>6. Snapped' /\ Scanning' /\ Ranging' /\ Logged'
  BY Zenon, <1>1, <1>2, <1>3, <1>5, CompactorKept, RangingKept, LoggedKept
<1>7. Clamped'
  BY Zenon, <1>1, <1>2 DEF Inv, Clamped, storeVars
<1> QED BY Zenon, <1>3, <1>5, <1>6, <1>7 DEF Inv

-----------------------------------------------------------------------------
(* Range reads.                                                            *)

\* A step of a read changes nothing but the read.
LEMMA ReadKept ==
  ASSUME Inv, UNCHANGED <<now, storeVars, compactVars>>, ranger' \in Rangers,
         ranger' # Idle => ranger'.rev <= current, Ranging'
  PROVE  Inv' /\ Step
<1>1. TypeOK /\ Clamped
  BY Zenon DEF Inv
<1>2. /\ current' = current /\ index' = index /\ objects' = objects /\ written' = written
      /\ now' = now /\ UNCHANGED <<record, histories, compactor, requests, compacted>>
  BY Zenon DEF storeVars, compactVars
<1>3. TypeOK'
  BY Zenon, <1>1, <1>2 DEF TypeOK
<1>4. now <= now' /\ compacted <= compacted'
  BY <1>1, <1>2, Numbers
<1>5. /\ Step /\ Once' /\ HasNewest' /\ Chained(objects)' /\ Sound(objects, current)'
      /\ Behind(index)' /\ IndexNamesNewest'
  BY Zenon, <1>3, <1>4, StoreKept
<1>6. Snapped' /\ Scanning' /\ Logged'
  BY Zenon, <1>2, <1>3, <1>5, CompactorKept, LoggedKept
<1>7. Clamped'
  BY Zenon, <1>1, <1>2 DEF Clamped
<1> QED BY Zenon, <1>3, <1>5, <1>6, <1>7 DEF Inv

\* The snapshot of a read is sound at its revision.
LEMMA RangeSnapshotInv ==
  ASSUME Inv, NEW rev \in 1 .. current, RangeSnapshot(rev)
  PROVE  Inv' /\ Step
<1>1. /\ TypeOK /\ Sound(objects, current)
      /\ ranger' = [step |-> "check", rev |-> rev, snap |-> objects]
      /\ UNCHANGED <<now, storeVars, compactVars>>
  BY Zenon DEF Inv, RangeSnapshot
<1>2. /\ ranger' \in [step : {"check"}, rev : 1 .. MaxRevision, snap : SUBSET Versions]
      /\ ranger'.rev = rev /\ ranger'.snap = objects /\ ranger'.step = "check"
  <2>1. objects \subseteq Versions
    BY Zenon, <1>1 DEF TypeOK
  <2>2. rev \in 1 .. MaxRevision
    BY <1>1, Numbers
  <2> QED BY Zenon, <1>1, <2>1, <2>2
<1>3. Sound(ranger.snap, ranger.rev)'
  <2>1. UNCHANGED <<now, written, compacted, objects>>
    BY Zenon, <1>1 DEF storeVars, compactVars
  <2>2. \A v : Dispensable(v) => Dispensable(v)'
    BY Zenon, <2>1 DEF Dispensable, Outlived
  <2>3. \A v \in DOMAIN written : v.rev <= rev => v.rev <= current
    BY <1>1, Numbers, VersionTypes
  <2>4. /\ objects \subseteq DOMAIN written
        /\ \A o \in objects, p \in DOMAIN written :
             p.key = o.key /\ o.rev < p.rev /\ p.rev <= rev => p \in objects
        /\ \A v \in DOMAIN written : v \notin objects /\ v.rev <= rev => Dispensable(v)
    BY Zenon, <1>1, <2>3 DEF Sound
  <2> QED BY Zenon, <1>2, <2>1, <2>2, <2>4 DEF Sound
<1>4. Ranging'
  BY Zenon, <1>2, <1>3 DEF Ranging, RangeExactIfRecorded
<1>5. rev <= current
  BY <1>1, Numbers
<1> QED BY Zenon, <1>1, <1>2, <1>4, <1>5, ReadKept DEF Rangers

\* What a read returns is exact when the record was not behind: its revision
\* is not below the compacted one, and its snapshot is sound.
LEMMA RangeReadInv ==
  ASSUME Inv, RangeRead
  PROVE  Inv' /\ Step
<1>1. /\ TypeOK /\ Once /\ HasNewest /\ Ranging /\ Clamped
      /\ ranger.step = "check" /\ UNCHANGED <<now, storeVars, compactVars>>
  BY Zenon DEF Inv, RangeRead
<1>2. CASE Raced(ranger.rev)
  <2>1. ranger' = Idle
    BY Zenon, <1>2 DEF RangeRead
  <2>2. Ranging'
    BY Zenon, <2>1 DEF Ranging, RangeExactIfRecorded, Idle
  <2> QED BY Zenon, <1>1, <2>1, <2>2, ReadKept DEF Rangers
<1>3. CASE ~Raced(ranger.rev)
  <2> DEFINE kvs == UNION {VisibleAt(ranger.snap, k, ranger.rev) : k \in Keys}
  <2>1. /\ ranger.rev \in Nat /\ ranger.rev \in 1 .. MaxRevision /\ ranger.rev <= current
        /\ ranger.snap \subseteq Versions /\ Sound(ranger.snap, ranger.rev)
    BY Zenon, <1>1, RangerTypes DEF Clamped, Ranging
  <2>2. \A k : VisibleAt(ranger.snap, k, ranger.rev) \subseteq VersionsOf(ranger.snap, k)
    BY Zenon DEF VisibleAt, NewestAt
  <2>3. \A o : o \in kvs <=> \E k \in Keys : o \in VisibleAt(ranger.snap, k, ranger.rev)
    BY Zenon
  <2> HIDE DEF kvs
  <2>4. kvs \subseteq Versions
    BY Zenon, <2>1, <2>2, <2>3 DEF VersionsOf
  <2>5. \A k \in Keys : VersionsOf(kvs, k) = VisibleAt(ranger.snap, k, ranger.rev)
    BY Zenon, <2>2, <2>3 DEF VersionsOf
  <2>6. ranger' = [step |-> "done", rev |-> ranger.rev, kvs |-> kvs,
                   recorded |-> record >= compacted]
    BY Zenon, <1>3 DEF RangeRead, kvs
  <2>7. PICK b \in BOOLEAN : b = (record >= compacted)
    <3>1. CASE record >= compacted
      <4>1. TRUE = (record >= compacted)
        BY Zenon, <3>1
      <4> QED BY Zenon, <4>1
    <3>2. CASE ~(record >= compacted)
      <4>1. FALSE = (record >= compacted)
        BY <3>2
      <4> QED BY Zenon, <4>1
    <3> QED BY Zenon, <3>1, <3>2
  <2>8. /\ ranger' \in [step : {"done"}, rev : 1 .. MaxRevision, kvs : SUBSET Versions,
                        recorded : BOOLEAN]
        /\ ranger'.rev = ranger.rev /\ ranger'.kvs = kvs /\ ranger'.step = "done"
    <3>1. ranger' = [step |-> "done", rev |-> ranger.rev, kvs |-> kvs, recorded |-> b]
      BY Zenon, <2>6, <2>7
    <3> QED BY Zenon, <2>1, <2>4, <3>1
  <2>9. ranger'.recorded = (record >= compacted)
    BY Zenon, <2>6
  <2>10. ASSUME ranger'.recorded
        PROVE  ReturnedExactly'
    <3>1. compacted <= ranger.rev
      <4>1. record >= compacted
        BY Zenon, <2>9, <2>10
      <4> QED BY <1>1, <1>3, <2>1, <4>1, Numbers DEF Raced
    <3>2. PICK r \in Nat : r = ranger.rev
      BY Zenon, <2>1
    <3>3. PICK rows : rows = ranger.snap
      BY Zenon
    <3>4. Sound(rows, r) /\ compacted <= r
      BY Zenon, <2>1, <3>1, <3>2, <3>3
    <3>5. \A k \in Keys : \/ VisibleAt(rows, k, r) = VisibleAt(DOMAIN written, k, r)
                          \/ VisibleAt(rows, k, r) = {} /\ MayBeGone(k, r)
      BY Zenon, <1>1, <3>4, Exact
    <3>6. UNCHANGED <<now, written>>
      BY Zenon, <1>1 DEF storeVars
    <3>7. \A k : MayBeGone(k, r) => MayBeGone(k, ranger.rev)'
      BY Zenon, <2>8, <3>2, <3>6 DEF MayBeGone
    <3> QED BY Zenon, <2>5, <2>8, <3>2, <3>3, <3>5, <3>6, <3>7 DEF ReturnedExactly
  <2>11. Ranging'
    BY Zenon, <2>8, <2>10 DEF Ranging, RangeExactIfRecorded
  <2> QED BY Zenon, <1>1, <2>1, <2>8, <2>11, ReadKept DEF Rangers
<1> QED BY Zenon, <1>2, <1>3

\* The read returns.
LEMMA RangeReturnInv ==
  ASSUME Inv, RangeReturn
  PROVE  Inv' /\ Step
<1>1. ranger' = Idle /\ UNCHANGED <<now, storeVars, compactVars>>
  BY Zenon DEF RangeReturn
<1>2. Ranging'
  BY Zenon, <1>1 DEF Ranging, RangeExactIfRecorded, Idle
<1> QED BY Zenon, <1>1, <1>2, ReadKept DEF Rangers

-----------------------------------------------------------------------------
(* Writes.                                                                 *)

\* A write adds a version above all others, and an index row that names it.
LEMMA WriteInv ==
  ASSUME Inv, NEW k \in Keys, NEW del \in BOOLEAN, Write(k, del)
  PROVE  Inv' /\ Step
<1> DEFINE W == DOMAIN written
           nv == Version(k, current + 1, del)
<1>1. /\ TypeOK /\ Once /\ HasNewest /\ Chained(objects) /\ Sound(objects, current)
      /\ Behind(index) /\ IndexNamesNewest /\ Clamped
  BY Zenon DEF Inv
<1>2. /\ current' = current + 1 /\ current + 1 <= MaxRevision
      /\ index' = [index EXCEPT ![k] = [rev |-> current + 1, del |-> del]]
      /\ objects' = objects \cup {nv}
      /\ written' = [v \in W \cup {nv} |-> IF v \in W THEN written[v] ELSE now]
      /\ now' = now /\ ranger' = ranger
      /\ UNCHANGED <<record, histories, compactor, requests, compacted>>
  BY Zenon DEF Write, compactVars
<1>3. /\ current \in Nat /\ MaxRevision \in Nat /\ now \in Nat
      /\ \A v \in W : v \in Versions /\ v.rev \in Nat /\ v.rev <= current
      /\ objects \subseteq W
  BY Zenon, <1>1, Numbers, VersionTypes DEF Once
<1>4. nv \in Versions /\ nv.key = k /\ nv.rev = current + 1 /\ nv.del = del
  BY <1>2, <1>3 DEF Versions, Version
<1> HIDE DEF nv
<1>5. DOMAIN written' = W \cup {nv} /\ \A v \in W : written'[v] = written[v]
  BY Zenon, <1>2
<1>6. Step
  <2>1. now <= now' /\ current <= current' /\ compacted <= compacted'
    BY <1>1, <1>2, Numbers
  <2>2. current < nv.rev
    BY <1>3, <1>4
  <2> QED BY Zenon, <1>2, <1>5, <2>1, <2>2 DEF Step
<1>7. TypeOK'
  <2>1. current' \in Nat /\ current' \in 0 .. MaxRevision /\ now' \in 0 .. MaxClock
    BY <1>1, <1>2, <1>3 DEF TypeOK
  <2>2. record' \in 0 .. current' /\ compacted' \in 0 .. current'
    BY <1>1, <1>2, Numbers
  <2>3. histories' \in Seq([rev : 1 .. current', time : 0 .. now'])
    <3>1. now <= now' /\ now' \in Nat /\ current <= current'
      BY <1>2, <1>3
    <3> QED BY Zenon, <1>1, <1>2, <2>1, <3>1, HistoriesKept
  <2>4. written' \in [DOMAIN written' -> 0 .. now']
    <3>1. \A v \in W : written[v] \in 0 .. now
      BY Zenon, <1>1 DEF TypeOK
    <3>2. now \in 0 .. now
      BY <1>3
    <3>3. written' \in [W \cup {nv} -> 0 .. now]
      BY Zenon, <1>2, <3>1, <3>2
    <3> QED BY Zenon, <1>2, <1>5, <3>3
  <2>5. index' \in Indexes
    <3>1. index \in [Keys -> [rev : 0 .. MaxRevision, del : BOOLEAN]]
      BY Zenon, <1>1 DEF TypeOK, Indexes
    <3>2. [rev |-> current + 1, del |-> del] \in [rev : 0 .. MaxRevision, del : BOOLEAN]
      BY <1>2, <1>3
    <3> QED BY Zenon, <1>2, <3>1, <3>2 DEF Indexes
  <2>6. DOMAIN written' \subseteq Versions /\ objects' \subseteq DOMAIN written'
    BY Zenon, <1>2, <1>3, <1>4, <1>5
  <2>7. compactor' \in Compactors /\ requests' \in 0 .. MaxCompactions /\ ranger' \in Rangers
    BY Zenon, <1>1, <1>2 DEF TypeOK
  <2> QED BY Zenon, <2>1, <2>2, <2>3, <2>4, <2>5, <2>6, <2>7 DEF TypeOK
<1>8. Once'
  BY <1>1, <1>2, <1>3, <1>4, <1>5 DEF Once
<1>9. HasNewest'
  <2> SUFFICES ASSUME NEW l \in Keys, NEW r \in Nat,
                      NEW v \in W \cup {nv}, v.key = l, v.rev <= r
               PROVE  \E w \in W \cup {nv} :
                        /\ w.key = l /\ w.rev <= r
                        /\ \A p \in W \cup {nv} : p.key = l /\ p.rev <= r => p.rev <= w.rev
    BY Zenon, <1>5 DEF HasNewest, NewestAt, VersionsOf
  <2>1. CASE l = k /\ current < r
    BY <1>3, <1>4, <2>1
  <2>2. CASE ~(l = k /\ current < r)
    <3>1. nv.key = l => ~(nv.rev <= r)
      BY <1>3, <1>4, <2>2
    <3>2. v \in W
      BY Zenon, <3>1
    <3>3. PICK w \in W : /\ w.key = l /\ w.rev <= r
                         /\ \A p \in W : p.key = l /\ p.rev <= r => p.rev <= w.rev
      BY Zenon, <1>1, <3>2 DEF HasNewest, NewestAt, VersionsOf
    <3> QED BY Zenon, <3>1, <3>3
  <2> QED BY Zenon, <2>1, <2>2
<1>10. Chained(objects)'
  <2> SUFFICES ASSUME NEW o \in objects \cup {nv}, NEW p \in objects \cup {nv},
                      p.key = o.key, o.rev < p.rev
               PROVE  \E q \in objects \cup {nv} : Follows(objects \cup {nv}, o, q)
    BY Zenon, <1>2 DEF Chained
  <2>1. o \in objects
    BY <1>3, <1>4
  <2>2. o.rev < nv.rev /\ \A q \in objects : q.rev <= nv.rev
    BY <1>3, <1>4, <2>1
  <2>3. CASE \E q \in objects : q.key = o.key /\ o.rev < q.rev
    <3>1. PICK q \in objects : Follows(objects, o, q)
      BY Zenon, <1>1, <2>1, <2>3 DEF Chained
    <3> QED BY Zenon, <2>2, <3>1 DEF Follows, VersionsOf
  <2>4. CASE ~\E q \in objects : q.key = o.key /\ o.rev < q.rev
    <3>1. nv.key = o.key
      BY Zenon, <2>4
    <3>2. nv.rev <= nv.rev /\ \A q \in objects : q.key = o.key => q.rev <= o.rev
      BY <1>3, <1>4, <2>1, <2>4
    <3> QED BY Zenon, <2>2, <3>1, <3>2 DEF Follows, VersionsOf
  <2> QED BY Zenon, <2>3, <2>4
<1>11. Sound(objects, current)'
  <2>1. \A o \in objects', p \in DOMAIN written' :
          p.key = o.key /\ o.rev < p.rev /\ p.rev <= current' => p \in objects'
    <3> SUFFICES ASSUME NEW o \in objects', NEW p \in W, p.key = o.key, o.rev < p.rev
                 PROVE  p \in objects
      BY Zenon, <1>2, <1>5
    <3>1. o \in objects
      BY <1>2, <1>3, <1>4
    <3> QED BY Zenon, <1>1, <1>3, <3>1 DEF Sound
  <2>2. \A v \in DOMAIN written' : v \notin objects' => Dispensable(v)'
    BY Zenon, <1>1, <1>2, <1>3, <1>5, <1>6, <1>7, StaysDispensable DEF Sound
  <2> QED BY Zenon, <1>2, <1>3, <1>5, <2>1, <2>2 DEF Sound
<1>12. Behind(index)'
  <2>1. index \in Indexes
    BY Zenon, <1>1 DEF TypeOK
  <2> QED BY <1>1, <1>2, <1>3, <2>1 DEF Behind, Indexes
<1>13. IndexNamesNewest'
  <2> SUFFICES ASSUME NEW l \in Keys, NEW v \in NewestAt(DOMAIN written', l, current')
               PROVE  \/ index'[l] = [rev |-> v.rev, del |-> v.del]
                      \/ /\ index'[l] = Absent
                         /\ v.del \/ (l \in Events /\ now' - written'[v] >= TTL)
    BY Zenon DEF IndexNamesNewest
  <2>1. /\ v \in W \cup {nv} /\ v.key = l /\ v.rev <= current + 1
        /\ \A p \in W \cup {nv} : p.key = l /\ p.rev <= current + 1 => p.rev <= v.rev
    BY Zenon, <1>2, <1>5 DEF NewestAt, VersionsOf
  <2>2. DOMAIN index = Keys
    BY Zenon, <1>1 DEF TypeOK, Indexes
  <2>3. CASE l = k
    <3>1. v = nv
      BY <1>3, <1>4, <2>1, <2>3
    <3> QED BY Zenon, <1>2, <1>4, <2>2, <2>3, <3>1
  <2>4. CASE l # k
    <3>1. v \in W
      BY Zenon, <1>4, <2>1, <2>4
    <3>2. \A p \in W : p.rev <= current /\ p.rev <= current + 1
      BY <1>3
    <3>3. v \in NewestAt(W, l, current)
      BY Zenon, <2>1, <3>1, <3>2 DEF NewestAt, VersionsOf
    <3>4. index'[l] = index[l] /\ now' = now /\ written'[v] = written[v]
      BY Zenon, <1>2, <1>5, <2>2, <2>4, <3>1
    <3> QED BY Zenon, <1>1, <3>3, <3>4 DEF IndexNamesNewest
  <2> QED BY Zenon, <2>3, <2>4
<1>14. Clamped'
  <2>1. compactor # Idle => compactor.rev \in Nat /\ compactor.rev <= current
    BY Zenon, <1>1, CompactorTypes DEF Clamped
  <2>2. ranger # Idle => ranger.rev \in Nat /\ ranger.rev <= current
    BY Zenon, <1>1, RangerTypes DEF Clamped
  <2> QED BY <1>2, <1>3, <2>1, <2>2 DEF Clamped
<1>15. Snapped' /\ Scanning' /\ Ranging' /\ Logged'
  BY Zenon, <1>2, <1>6, <1>7, CompactorKept, RangingKept, LoggedKept
<1> QED BY Zenon, <1>6, <1>7, <1>8, <1>9, <1>10, <1>11, <1>12, <1>13, <1>14, <1>15
          DEF Inv

-----------------------------------------------------------------------------
(* Compaction.                                                             *)

\* A step of a compaction that leaves the rows alone.
LEMMA CompactKept ==
  ASSUME Inv, TypeOK', UNCHANGED <<now, storeVars, ranger>>, compacted <= compacted',
         Logged', Snapped', Scanning', compactor' # Idle => compactor'.rev <= current
  PROVE  Inv' /\ Step
<1>1. TypeOK /\ Clamped
  BY Zenon DEF Inv
<1>2. now <= now'
  BY <1>1, Numbers
<1>3. /\ Step /\ Once' /\ HasNewest' /\ Chained(objects)' /\ Sound(objects, current)'
      /\ Behind(index)' /\ IndexNamesNewest'
  BY Zenon, <1>2, StoreKept
<1>4. Ranging'
  BY Zenon, <1>3, RangingKept
<1>5. Clamped'
  BY Zenon, <1>1 DEF Clamped, storeVars
<1> QED BY Zenon, <1>3, <1>4, <1>5 DEF Inv

\* A step to a point between two scans.
LEMMA CompactMoves ==
  ASSUME Inv, UNCHANGED <<now, storeVars, ranger, histories, compacted>>,
         compactor' \in Compactors, compactor'.step \notin {"put", "scan"},
         compactor' # Idle => compactor'.rev <= current,
         record' \in 0 .. current, requests' \in 0 .. MaxCompactions
  PROVE  Inv' /\ Step
<1>1. TypeOK
  BY Zenon DEF Inv
<1>2. TypeOK'
  BY Zenon, <1>1 DEF TypeOK, storeVars
<1>3. compacted <= compacted'
  BY <1>1, Numbers
<1>4. Snapped' /\ Scanning'
  BY Zenon DEF Snapped, Scanning
<1>5. Logged'
  BY Zenon DEF Inv, Logged, storeVars
<1> QED BY Zenon, <1>2, <1>3, <1>4, <1>5, CompactKept

\* The loop over the ranges.
LEMMA AtRangeTypes ==
  ASSUME NEW rev \in 1 .. MaxRevision, NEW i \in Nat \ {0}
  PROVE  /\ AtRange(rev, i) \in Compactors
         /\ AtRange(rev, i).step \notin {"put", "scan"}
         /\ AtRange(rev, i) # Idle => AtRange(rev, i).rev = rev
<1>1. Ranges \in Seq(SUBSET Keys)
  BY Zenon, ScannerAssumption
<1>2. CASE i > Len(Ranges)
  BY Zenon, <1>2 DEF AtRange, Compactors, Idle
<1>3. CASE ~(i > Len(Ranges))
  <2>1. AtRange(rev, i) = [step |-> "range", rev |-> rev, range |-> i]
    BY Zenon, <1>3 DEF AtRange
  <2>2. i \in DOMAIN Ranges
    BY <1>1, <1>3
  <2>3. AtRange(rev, i) \in [step : {"range"}, rev : 1 .. MaxRevision, range : DOMAIN Ranges]
    BY <2>1, <2>2
  <2>4. AtRange(rev, i) \in Compactors
    BY Zenon, <2>3 DEF Compactors
  <2> QED BY <2>1, <2>4
<1> QED BY Zenon, <1>2, <1>3

\* A step to the loop over the ranges.
LEMMA CompactLoops ==
  ASSUME Inv, UNCHANGED <<now, storeVars, ranger, histories, requests, compacted>>,
         compactor # Idle, NEW i \in Nat \ {0}, compactor' = AtRange(compactor.rev, i),
         record' \in 0 .. current
  PROVE  Inv' /\ Step
<1>1. TypeOK /\ Clamped
  BY Zenon DEF Inv
<1>2. PICK rev \in 1 .. MaxRevision : rev = compactor.rev
  BY Zenon, <1>1, CompactorTypes
<1>3. /\ compactor' \in Compactors /\ compactor'.step \notin {"put", "scan"}
      /\ compactor' # Idle => compactor'.rev <= current
  BY Zenon, <1>1, <1>2, AtRangeTypes DEF Clamped
<1>4. requests' \in 0 .. MaxCompactions
  BY Zenon, <1>1 DEF TypeOK
<1> QED BY Zenon, <1>3, <1>4, CompactMoves

\* A request to Compact begins.
LEMMA CompactBeginInv ==
  ASSUME Inv, NEW rev \in 1 .. current, CompactBegin(rev)
  PROVE  Inv' /\ Step
<1>1. /\ TypeOK /\ requests < MaxCompactions /\ requests' = requests + 1
      /\ compactor' = [step |-> "record", rev |-> rev, seen |-> record]
      /\ UNCHANGED <<now, storeVars, record, histories, compacted, ranger>>
  BY Zenon DEF Inv, CompactBegin
<1>2. /\ current \in Nat /\ MaxRevision \in Nat /\ current <= MaxRevision
      /\ record \in Nat /\ record <= current
  BY Zenon, <1>1, Numbers
<1>3. rev \in 1 .. MaxRevision /\ rev <= current /\ record \in 0 .. MaxRevision
  BY <1>2
<1>4. /\ compactor' \in [step : {"record"}, rev : 1 .. MaxRevision, seen : 0 .. MaxRevision]
      /\ compactor'.rev = rev /\ compactor'.step = "record"
  BY Zenon, <1>1, <1>3
<1>5. requests' \in 0 .. MaxCompactions
  <2>1. requests \in 0 .. MaxCompactions /\ MaxCompactions \in Nat
    BY Zenon, <1>1, ScannerAssumption DEF TypeOK
  <2> QED BY <1>1, <2>1
<1>6. record' \in 0 .. current
  BY Zenon, <1>1 DEF TypeOK
<1>7. compactor' \in Compactors
  BY Zenon, <1>4 DEF Compactors
<1>8. compactor'.step \notin {"put", "scan"} /\ compactor'.rev <= current
  BY Zenon, <1>3, <1>4
<1> QED BY Zenon, <1>1, <1>5, <1>6, <1>7, <1>8, CompactMoves

\* The compact record is swapped, or not.
LEMMA SetCompactRecordInv ==
  ASSUME Inv, SetCompactRecord
  PROVE  Inv' /\ Step
<1>1. /\ TypeOK /\ Clamped /\ compactor.step = "record"
      /\ UNCHANGED <<now, storeVars, histories, requests, compacted, ranger>>
  BY Zenon DEF Inv, SetCompactRecord
<1>2. compactor # Idle /\ compactor.rev \in 0 .. current
  <2>1. compactor # Idle
    BY <1>1 DEF Idle
  <2> QED BY <1>1, <2>1, CompactorTypes, Numbers DEF Clamped
<1>3. record' \in 0 .. current
  <2>1. record \in 0 .. current
    BY Zenon, <1>1 DEF TypeOK
  <2>2. record' = record \/ record' = compactor.rev
    BY Zenon DEF SetCompactRecord, RecordAfterError
  <2> QED BY Zenon, <1>2, <2>1, <2>2
<1>4. CASE compactor' = AtRange(compactor.rev, 1)
  <2>1. 1 \in Nat \ {0}
    OBVIOUS
  <2> QED BY Zenon, <1>1, <1>2, <1>3, <1>4, <2>1, CompactLoops
<1>5. CASE compactor' = Idle
  <2>1. compactor'.step \notin {"put", "scan"}
    BY Zenon, <1>5 DEF Idle
  <2>2. compactor' \in Compactors /\ requests' \in 0 .. MaxCompactions
    BY Zenon, <1>1, <1>5 DEF Compactors, TypeOK
  <2> QED BY Zenon, <1>1, <1>3, <1>5, <2>1, <2>2, CompactMoves
<1> QED BY Zenon, <1>4, <1>5 DEF SetCompactRecord

\* The histories gain a record that covers what was written so far, and the
\* snapshot is the store.
LEMMA CompactSnapshotInv ==
  ASSUME Inv, CompactSnapshot
  PROVE  Inv' /\ Step
<1>1. /\ TypeOK /\ Clamped /\ Chained(objects) /\ Behind(index) /\ Logged
      /\ compactor.step = "range"
      /\ histories' = Append(histories, [rev |-> compactor.rev, time |-> now])
      /\ compactor' = [step |-> "put", rev |-> compactor.rev, range |-> compactor.range,
                       snap |-> [index |-> index, objects |-> objects]]
      /\ UNCHANGED <<now, storeVars, record, requests, compacted, ranger>>
  BY Zenon DEF Inv, CompactSnapshot
<1>2. /\ compactor # Idle /\ compactor.rev \in 1 .. MaxRevision /\ compactor.rev \in 1 .. current
      /\ compactor.rev <= current /\ compactor.range \in DOMAIN Ranges
  <2>1. compactor # Idle
    BY <1>1 DEF Idle
  <2>2. compactor.range \in DOMAIN Ranges
    BY Zenon, <1>1, CompactorTypes
  <2> QED BY <1>1, <2>1, <2>2, CompactorTypes, Numbers DEF Clamped
<1>3. /\ current' = current /\ index' = index /\ objects' = objects /\ written' = written
  BY Zenon, <1>1 DEF storeVars
<1>4. /\ compactor' \in Compactors /\ compactor'.step = "put" /\ compactor'.rev = compactor.rev
      /\ compactor'.snap.index = index /\ compactor'.snap.objects = objects
  <2>1. index \in Indexes /\ objects \subseteq Versions
    BY Zenon, <1>1 DEF TypeOK
  <2>2. compactor' \in [step : {"put"}, rev : 1 .. MaxRevision, range : DOMAIN Ranges,
                        snap : [index : Indexes, objects : SUBSET Versions]]
    BY Zenon, <1>1, <1>2, <2>1
  <2> QED BY Zenon, <1>1, <2>2 DEF Compactors
<1>5. histories' \in Seq([rev : 1 .. current, time : 0 .. now])
  <2>1. [rev |-> compactor.rev, time |-> now] \in [rev : 1 .. current, time : 0 .. now]
    BY <1>1, <1>2, Numbers
  <2>2. histories \in Seq([rev : 1 .. current, time : 0 .. now])
    BY Zenon, <1>1 DEF TypeOK
  <2>3. ASSUME NEW S, NEW e \in S, histories \in Seq(S)
        PROVE  Append(histories, e) \in Seq(S)
    BY <2>3
  <2> QED BY Zenon, <1>1, <2>1, <2>2, <2>3
<1>6. TypeOK'
  BY Zenon, <1>1, <1>3, <1>4, <1>5 DEF TypeOK
<1>7. Logged'
  <2> SUFFICES ASSUME NEW i \in DOMAIN histories', NEW v \in DOMAIN written,
                      v.rev <= histories'[i].rev
               PROVE  written[v] <= histories'[i].time
    BY Zenon, <1>3 DEF Logged
  <2>1. \/ i \in DOMAIN histories /\ histories'[i] = histories[i]
        \/ histories'[i] = [rev |-> compactor.rev, time |-> now]
    <3>1. PICK S, e : histories \in Seq(S) /\ e = [rev |-> compactor.rev, time |-> now]
      BY Zenon, <1>1 DEF TypeOK
    <3>2. histories' = Append(histories, e)
      BY Zenon, <1>1, <3>1
    <3>3. \/ i \in DOMAIN histories /\ histories'[i] = histories[i]
          \/ histories'[i] = e
      BY <3>1, <3>2
    <3> QED BY Zenon, <3>1, <3>3
  <2>2. CASE i \in DOMAIN histories /\ histories'[i] = histories[i]
    BY Zenon, <1>1, <2>2 DEF Logged
  <2>3. CASE histories'[i] = [rev |-> compactor.rev, time |-> now]
    <3>1. written[v] <= now
      BY Zenon, <1>1, VersionTypes
    <3>2. histories'[i].time = now
      BY <2>3
    <3> QED BY Zenon, <3>1, <3>2
  <2> QED BY Zenon, <2>1, <2>2, <2>3
<1>8. Scanning'
  BY Zenon, <1>4 DEF Scanning
<1>9. Snapped'
  <2>1. Chained(compactor.snap.objects)' /\ Behind(compactor.snap.index)'
    BY Zenon, <1>1, <1>3, <1>4 DEF Chained, Behind
  <2>2. objects \subseteq DOMAIN written
    BY Zenon, <1>1 DEF TypeOK
  <2> QED BY Zenon, <1>3, <1>4, <2>1, <2>2 DEF Snapped
<1>10. compacted <= compacted'
  BY <1>1, Numbers
<1> QED BY Zenon, <1>1, <1>2, <1>4, <1>6, <1>7, <1>8, <1>9, <1>10, CompactKept

\* A compaction that deletes.
Scans == [step : {"scan"}, rev : 1 .. MaxRevision, range : DOMAIN Ranges,
          deletes : SUBSET Deletions, left : SUBSET Deletions, skip : SUBSET Keys,
          tries : Nat]

\* In a scan the compactor is one that deletes.
LEMMA ScanType ==
  ASSUME TypeOK, compactor.step = "scan"
  PROVE  compactor \in Scans /\ compactor # Idle
BY DEF TypeOK, Compactors, Idle, Scans

\* The next range.
LEMMA NextRange ==
  ASSUME TypeOK, compactor.step \in {"put", "scan"}
  PROVE  compactor # Idle /\ compactor.range + 1 \in Nat \ {0}
<1>1. compactor.range \in DOMAIN Ranges
  BY Zenon, CompactorTypes
<1>2. \A i \in DOMAIN Ranges : i + 1 \in Nat \ {0}
  BY ScannerAssumption
<1>3. compactor # Idle
  BY DEF Idle
<1> QED BY Zenon, <1>1, <1>2, <1>3

\* The worker starts again, or gives up.
LEMMA CompactRetryInv ==
  ASSUME Inv, CompactRetry
  PROVE  Inv' /\ Step
<1>1. /\ TypeOK /\ Clamped /\ Scanning /\ compactor.step = "scan" /\ compactor \in Scans
      /\ UNCHANGED <<now, storeVars, record, histories, requests, compacted, ranger>>
  BY Zenon, ScanType DEF Inv, CompactRetry
<1>2. CASE compactor.tries < MaxTries
  <2>1. compactor' = [compactor EXCEPT !.left = compactor.deletes, !.tries = @ + 1]
    BY Zenon, <1>2 DEF CompactRetry
  <2>2. /\ compactor' \in Scans /\ compactor'.step = "scan" /\ compactor'.rev = compactor.rev
        /\ compactor'.deletes = compactor.deletes /\ compactor'.left = compactor.deletes
        /\ compactor'.skip = compactor.skip
    <3>1. compactor' \in Scans
      <4>1. \A c \in Scans, dels \in SUBSET Deletions, n \in Nat :
              [c EXCEPT !.left = dels, !.tries = n] \in Scans
        BY Zenon DEF Scans
      <4>2. compactor \in Scans /\ compactor.deletes \in SUBSET Deletions
              /\ compactor.tries + 1 \in Nat
        BY <1>1 DEF Scans
      <4> QED BY Zenon, <2>1, <4>1, <4>2
    <3>2. /\ compactor'.deletes = compactor.deletes /\ compactor'.left = compactor.deletes
          /\ compactor'.skip = compactor.skip /\ compactor'.rev = compactor.rev
      BY Zenon, <1>1, <2>1 DEF Scans
    <3>3. compactor'.step = "scan"
      BY Zenon, <3>1 DEF Scans
    <3> QED BY Zenon, <3>1, <3>2, <3>3
  <2>3. TypeOK'
    <3>1. compactor' \in Compactors
      BY Zenon, <2>2 DEF Compactors, Scans
    <3> QED BY Zenon, <1>1, <3>1 DEF TypeOK, storeVars
  <2>4. compacted <= compacted'
    BY <1>1, Numbers
  <2>5. Snapped'
    BY Zenon, <2>2 DEF Snapped
  <2>6. Logged'
    BY Zenon, <1>1 DEF Inv, Logged, storeVars
  <2>7. Scanning'
    <3>1. \A d : Judged(d) => Judged(d)'
      BY Zenon, <1>1 DEF Judged, Dispensable, Outlived, storeVars
    <3>2. \A d : InOrder(d, compactor.deletes) => InOrder(d, compactor.deletes)'
      BY Zenon, <1>1, <2>2 DEF InOrder, storeVars
    <3>3. /\ compactor.rev <= compacted
          /\ \A d \in compactor.deletes : Judged(d) /\ InOrder(d, compactor.deletes)
      BY Zenon, <1>1 DEF Scanning
    <3> QED BY Zenon, <1>1, <2>2, <3>1, <3>2, <3>3 DEF Scanning
  <2>8. compactor'.rev <= current
    BY Zenon, <1>1, <2>2, ScanType DEF Clamped
  <2> QED BY Zenon, <1>1, <2>3, <2>4, <2>5, <2>6, <2>7, <2>8, CompactKept
<1>3. CASE ~(compactor.tries < MaxTries)
  <2>1. compactor' = AtRange(compactor.rev, compactor.range + 1)
    BY Zenon, <1>3 DEF CompactRetry
  <2>2. record' \in 0 .. current
    BY Zenon, <1>1 DEF TypeOK
  <2>3. PICK i \in Nat \ {0} : i = compactor.range + 1
    BY Zenon, <1>1, NextRange
  <2>4. compactor # Idle
    BY Zenon, <1>1, ScanType
  <2> QED BY Zenon, <1>1, <2>1, <2>2, <2>3, <2>4, CompactLoops
<1> QED BY Zenon, <1>2, <1>3

\* The scan of a range is over.
LEMMA CompactRangeDoneInv ==
  ASSUME Inv, CompactRangeDone
  PROVE  Inv' /\ Step
<1>1. /\ TypeOK /\ compactor.step = "scan"
      /\ compactor' = AtRange(compactor.rev, compactor.range + 1)
      /\ UNCHANGED <<now, storeVars, record, histories, requests, compacted, ranger>>
  BY Zenon DEF Inv, CompactRangeDone
<1>2. record' \in 0 .. current
  BY Zenon, <1>1 DEF TypeOK
<1>3. PICK i \in Nat \ {0} : i = compactor.range + 1
  BY Zenon, <1>1, NextRange
<1>4. compactor # Idle
  BY Zenon, <1>1, ScanType
<1> QED BY Zenon, <1>1, <1>2, <1>3, <1>4, CompactLoops

\* What is expired has outlived its TTL: the timeout is the revision of a
\* record that is TTL old.
LEMMA ExpiredOutlived ==
  ASSUME TypeOK, Logged, NEW aged \in 0 .. Len(histories), Aged(aged), NEW timeout,
         timeout = IF aged = 0 THEN 0 ELSE histories[aged].rev,
         NEW k, NEW r \in Nat, Expired(k, r, timeout)
  PROVE  Outlived(k, r)
<1>1. timeout # 0 /\ k \in Events /\ r <= timeout
  BY Zenon DEF Expired
<1>2. aged # 0 /\ timeout = histories[aged].rev
  BY Zenon, <1>1
<1>3. aged \in 1 .. aged /\ aged \in DOMAIN histories
  <2>1. PICK S : histories \in Seq(S)
    BY Zenon DEF TypeOK
  <2> QED BY <1>2, <2>1
<1>4. now - histories[aged].time >= TTL
  BY Zenon, <1>3 DEF Aged
<1>5. ASSUME NEW v \in DOMAIN written, v.rev <= r
      PROVE  now - written[v] >= TTL
  <2>1. v.rev \in Nat /\ written[v] \in Nat /\ now \in Nat /\ TTL \in Nat
    BY Zenon, VersionTypes, Numbers
  <2>2. histories[aged].rev \in Nat /\ histories[aged].time \in Nat
    BY Zenon, <1>3, HistoryTypes
  <2>3. v.rev <= histories[aged].rev
    BY <1>1, <1>2, <1>5, <2>1, <2>2
  <2>4. written[v] <= histories[aged].time
    BY Zenon, <1>3, <2>3 DEF Logged
  <2> QED BY <1>4, <2>1, <2>2, <2>4
<1> QED BY Zenon, <1>1, <1>5 DEF Outlived

\* The deletions of a scan, one by one.
LEMMA DeletesAre ==
  ASSUME NEW snap, NEW range, NEW rev, NEW timeout
  PROVE  /\ \A d \in ScanDeletes(snap, range, rev, timeout) :
              \/ \E k \in range : /\ d = DelIndex(k, snap.index[k])
                                  /\ \/ Expired(k, snap.index[k].rev, timeout)
                                     \/ snap.index[k].del
              \/ \E o \in snap.objects :
                   /\ d = DelVersion(o, o.rev) /\ o.key \in range
                   /\ Expired(o.key, o.rev, timeout) \/ (o.del /\ o.rev <= rev)
              \/ \E o, q \in snap.objects :
                   /\ d = DelVersion(o, q.rev) /\ o.key \in range
                   /\ Follows(snap.objects, o, q) /\ q.rev <= rev
         /\ \A o \in snap.objects :
              o.key \in range /\ Expired(o.key, o.rev, timeout)
                => DelVersion(o, o.rev) \in ScanDeletes(snap, range, rev, timeout)
         /\ \A o, q \in snap.objects :
              (/\ o.key \in range /\ Follows(snap.objects, o, q) /\ q.rev <= rev
               /\ ~Expired(o.key, o.rev, timeout) /\ ~Expired(q.key, q.rev, timeout))
                => DelVersion(o, q.rev) \in ScanDeletes(snap, range, rev, timeout)
<1> DEFINE all == ScanDeletes(snap, range, rev, timeout)
<1>1. ASSUME NEW d \in IndexDeletes(snap, range, rev, timeout)
      PROVE  \E k \in range : /\ d = DelIndex(k, snap.index[k])
                              /\ Expired(k, snap.index[k].rev, timeout) \/ snap.index[k].del
  BY Zenon, <1>1 DEF IndexDeletes
<1>2. ASSUME NEW d \in RowDeletes(snap, range, rev, timeout)
      PROVE  \E o \in snap.objects :
                /\ d = DelVersion(o, o.rev) /\ o.key \in range
                /\ Expired(o.key, o.rev, timeout) \/ (o.del /\ o.rev <= rev)
  BY Zenon, <1>2 DEF RowDeletes
<1>3. ASSUME NEW d \in PrevDeletes(snap, range, rev, timeout)
      PROVE  \E o, q \in snap.objects :
                /\ d = DelVersion(o, q.rev) /\ o.key \in range
                /\ Follows(snap.objects, o, q) /\ q.rev <= rev
  <2>1. PICK op \in snap.objects \X snap.objects :
               /\ d = DelVersion(op[1], op[2].rev) /\ op[1].key \in range
               /\ Follows(snap.objects, op[1], op[2]) /\ op[2].rev <= rev
    BY Zenon, <1>3 DEF PrevDeletes
  <2>2. op[1] \in snap.objects /\ op[2] \in snap.objects
    BY Zenon, <2>1
  <2> QED BY Zenon, <2>1, <2>2
<1>4. ASSUME NEW o \in snap.objects, o.key \in range, Expired(o.key, o.rev, timeout)
      PROVE  DelVersion(o, o.rev) \in RowDeletes(snap, range, rev, timeout)
  BY Zenon, <1>4 DEF RowDeletes
<1>5. ASSUME NEW o \in snap.objects, NEW q \in snap.objects,
             o.key \in range, Follows(snap.objects, o, q), q.rev <= rev,
             ~Expired(o.key, o.rev, timeout), ~Expired(q.key, q.rev, timeout)
      PROVE  DelVersion(o, q.rev) \in PrevDeletes(snap, range, rev, timeout)
  <2>1. <<o, q>> \in snap.objects \X snap.objects /\ <<o, q>>[1] = o /\ <<o, q>>[2] = q
    BY Zenon
  <2> QED BY Zenon, <1>5, <2>1 DEF PrevDeletes
<1>6. \A d : d \in all <=> \/ d \in IndexDeletes(snap, range, rev, timeout)
                           \/ d \in RowDeletes(snap, range, rev, timeout)
                           \/ d \in PrevDeletes(snap, range, rev, timeout)
  BY Zenon DEF ScanDeletes
<1> HIDE DEF all
<1>7. \A d \in all :
              \/ \E k \in range : /\ d = DelIndex(k, snap.index[k])
                                  /\ \/ Expired(k, snap.index[k].rev, timeout)
                                     \/ snap.index[k].del
              \/ \E o \in snap.objects :
                   /\ d = DelVersion(o, o.rev) /\ o.key \in range
                   /\ Expired(o.key, o.rev, timeout) \/ (o.del /\ o.rev <= rev)
              \/ \E o, q \in snap.objects :
                   /\ d = DelVersion(o, q.rev) /\ o.key \in range
                   /\ Follows(snap.objects, o, q) /\ q.rev <= rev
  BY Zenon, <1>1, <1>2, <1>3, <1>6
<1>8. \A o \in snap.objects :
        o.key \in range /\ Expired(o.key, o.rev, timeout) => DelVersion(o, o.rev) \in all
  BY Zenon, <1>4, <1>6
<1>9. \A o, q \in snap.objects :
        (/\ o.key \in range /\ Follows(snap.objects, o, q) /\ q.rev <= rev
         /\ ~Expired(o.key, o.rev, timeout) /\ ~Expired(q.key, q.rev, timeout))
          => DelVersion(o, q.rev) \in all
  BY Zenon, <1>5, <1>6
<1> QED BY Zenon, <1>7, <1>8, <1>9 DEF all

\* A scan deletes what no read at or above its revision needs, and of each key
\* the older versions first.
LEMMA DeletesRight ==
  ASSUME TypeOK, Once, Logged, Snapped, compactor.step = "put",
         NEW aged \in 0 .. Len(histories), Aged(aged), NEW timeout,
         timeout = IF aged = 0 THEN 0 ELSE histories[aged].rev,
         NEW rev \in Nat, NEW range \in SUBSET Keys,
         NEW deletes, deletes = ScanDeletes(compactor.snap, range, rev, timeout),
         NEW d \in deletes
  PROVE  /\ d \in Deletions /\ d.rev <= current
         /\ d.at = 0 => d.del \/ Outlived(d.key, d.rev)
         /\ d.at # 0 => /\ VersionOf(d) \in DOMAIN written
                        /\ \/ d.del \/ Outlived(d.key, d.rev)
                           \/ \E w \in DOMAIN written :
                                w.key = d.key /\ d.rev < w.rev /\ w.rev <= rev
         /\ InOrder(d, deletes)
<1>0. PICK snap : snap = compactor.snap
  BY Zenon
<1> DEFINE rows == snap.objects
<1>1. /\ rows \subseteq DOMAIN written /\ Chained(rows) /\ Behind(snap.index)
      /\ \A p \in objects : p \in rows \/ \A o \in rows : o.rev < p.rev
  BY Zenon, <1>0 DEF Snapped
<1>2. snap.index \in Indexes
  BY Zenon, <1>0, CompactorTypes
<1>3. \A o \in rows : /\ o \in Versions /\ o.key \in Keys /\ o.rev \in Nat /\ o.rev # 0
                      /\ o.del \in BOOLEAN /\ o = Version(o.key, o.rev, o.del)
                      /\ o.rev <= current /\ o.rev <= MaxRevision
  <2>1. \A r \in Nat : r <= current => r <= MaxRevision
    BY Numbers
  <2> QED BY Zenon, <1>1, <2>1, VersionTypes DEF Once
<1>4. \A k, r : r \in Nat /\ Expired(k, r, timeout) => Outlived(k, r)
  BY Zenon, ExpiredOutlived
<1>5. /\ \/ \E k \in range : /\ d = DelIndex(k, snap.index[k])
                             /\ Expired(k, snap.index[k].rev, timeout) \/ snap.index[k].del
         \/ \E o \in rows :
              /\ d = DelVersion(o, o.rev) /\ o.key \in range
              /\ Expired(o.key, o.rev, timeout) \/ (o.del /\ o.rev <= rev)
         \/ \E o, q \in rows :
              /\ d = DelVersion(o, q.rev) /\ o.key \in range
              /\ Follows(rows, o, q) /\ q.rev <= rev
      /\ \A p \in rows :
           p.key \in range /\ Expired(p.key, p.rev, timeout) => DelVersion(p, p.rev) \in deletes
      /\ \A p, q \in rows :
           (/\ p.key \in range /\ Follows(rows, p, q) /\ q.rev <= rev
            /\ ~Expired(p.key, p.rev, timeout) /\ ~Expired(q.key, q.rev, timeout))
             => DelVersion(p, q.rev) \in deletes
  BY Zenon, <1>0, DeletesAre
<1> HIDE DEF rows
<1>6. ASSUME NEW k \in range, d = DelIndex(k, snap.index[k]),
             Expired(k, snap.index[k].rev, timeout) \/ snap.index[k].del
      PROVE  /\ d \in Deletions /\ d.rev <= current /\ d.at = 0
             /\ d.del \/ Outlived(d.key, d.rev)
  <2>1. PICK entry : entry = snap.index[k]
    BY Zenon
  <2>2. entry.rev \in 0 .. MaxRevision /\ entry.del \in BOOLEAN /\ entry.rev <= current
    BY Zenon, <1>1, <1>2, <2>1 DEF Indexes, Behind
  <2>3. d = [key |-> k, at |-> 0, rev |-> entry.rev, del |-> entry.del]
    BY Zenon, <1>6, <2>1 DEF DelIndex
  <2>4. d \in Deletions /\ d.key = k /\ d.at = 0 /\ d.rev = entry.rev
    BY <2>2, <2>3, Numbers DEF Deletions
  <2>5. d.del = entry.del
    BY Zenon, <2>3
  <2>6. entry.rev \in Nat
    BY <2>2
  <2> QED BY Zenon, <1>4, <1>6, <2>1, <2>2, <2>4, <2>5, <2>6
<1>7. ASSUME NEW o \in rows, NEW at \in Nat, d = DelVersion(o, at), at <= MaxRevision
      PROVE  /\ d \in Deletions /\ d.key = o.key /\ d.at = at /\ d.rev = o.rev
             /\ VersionOf(d) = o
  <2>1. d = [key |-> o.key, at |-> at, rev |-> o.rev, del |-> o.del]
    BY Zenon, <1>7 DEF DelVersion
  <2>2. o.rev \in 0 .. MaxRevision /\ at \in 0 .. MaxRevision /\ o.key \in Keys
    <3>1. o.rev \in Nat /\ o.rev <= MaxRevision /\ o.key \in Keys /\ MaxRevision \in Nat
      BY Zenon, <1>3, Numbers
    <3> QED BY <1>7, <3>1
  <2>3. d \in Deletions /\ d.key = o.key /\ d.at = at /\ d.rev = o.rev
    BY Zenon, <1>3, <2>1, <2>2 DEF Deletions
  <2>4. d.del = o.del
    BY Zenon, <2>1
  <2> QED BY Zenon, <1>3, <2>3, <2>4 DEF VersionOf
<1>8. ASSUME NEW o \in rows, NEW at \in Nat, d.key = o.key, d.at = at, d.rev = o.rev,
             o.key \in range, o.rev <= at,
             Expired(o.key, o.rev, timeout) \/ o.rev <= rev
      PROVE  InOrder(d, deletes)
  <2> SUFFICES ASSUME NEW p \in objects, p.key = o.key, p.rev < o.rev
               PROVE  \E e \in deletes : e.at # 0 /\ VersionOf(e) = p /\ Before(e, d)
    BY Zenon, <1>8 DEF InOrder
  <2>1. p \in rows
    <3>1. p.rev \in Nat
      BY Zenon, VersionTypes
    <3> QED BY <1>1, <1>3, <3>1
  <2>2. p.rev \in Nat /\ p.rev # 0 /\ o.rev \in Nat /\ p = Version(p.key, p.rev, p.del)
    BY Zenon, <1>3, <2>1
  <2>3. ASSUME NEW r \in Nat, r # 0, DelVersion(p, r) \in deletes, r <= o.rev
        PROVE  \E e \in deletes : e.at # 0 /\ VersionOf(e) = p /\ Before(e, d)
    <3>1. PICK e \in deletes : e = [key |-> p.key, at |-> r, rev |-> p.rev, del |-> p.del]
      BY Zenon, <2>3 DEF DelVersion
    <3>2. e.key = p.key /\ e.at = r /\ e.rev = p.rev
      BY Zenon, <3>1
    <3>3. e.del = p.del
      BY Zenon, <3>1
    <3>4. VersionOf(e) = p
      BY Zenon, <2>2, <3>2, <3>3 DEF VersionOf
    <3>5. r < at \/ (r = at /\ p.rev < o.rev)
      BY <1>8, <2>2, <2>3
    <3>6. Before(e, d)
      BY Zenon, <1>8, <3>2, <3>5 DEF Before
    <3> QED BY Zenon, <2>3, <3>2, <3>4, <3>6
  <2>4. CASE Expired(p.key, p.rev, timeout)
    <3>1. DelVersion(p, p.rev) \in deletes
      BY Zenon, <1>5, <1>8, <2>1, <2>4
    <3>2. p.rev <= o.rev
      BY <2>2
    <3> QED BY Zenon, <2>2, <2>3, <3>1, <3>2
  <2>5. CASE ~Expired(p.key, p.rev, timeout)
    <3>1. PICK q \in rows : Follows(rows, p, q)
      BY Zenon, <1>1, <2>1 DEF Chained
    <3>2. q.key = p.key /\ p.rev < q.rev /\ q.rev \in Nat /\ q.rev # 0
          /\ (o.rev <= p.rev \/ q.rev <= o.rev)
      BY Zenon, <1>3, <3>1 DEF Follows, VersionsOf
    <3>3. q.rev <= o.rev
      BY <2>2, <3>2
    <3>4. timeout \in Nat
      <4>1. aged # 0 => aged \in DOMAIN histories
        <5>1. PICK S : histories \in Seq(S)
          BY Zenon DEF TypeOK
        <5> QED BY <5>1
      <4> QED BY Zenon, <4>1, HistoryTypes
    <3>5. ~Expired(q.key, q.rev, timeout) /\ ~Expired(o.key, o.rev, timeout)
      BY <2>2, <2>5, <3>2, <3>4 DEF Expired
    <3>6. q.rev <= rev
      BY <1>8, <2>2, <3>2, <3>3, <3>5
    <3>7. DelVersion(p, q.rev) \in deletes
      BY Zenon, <1>5, <1>8, <2>1, <2>5, <3>1, <3>5, <3>6
    <3> QED BY Zenon, <2>3, <3>2, <3>3, <3>7
  <2> QED BY Zenon, <2>4, <2>5
<1>9. CASE \E k \in range : /\ d = DelIndex(k, snap.index[k])
                            /\ Expired(k, snap.index[k].rev, timeout) \/ snap.index[k].del
  BY Zenon, <1>6, <1>9 DEF InOrder
<1>10. CASE \E o \in rows :
              /\ d = DelVersion(o, o.rev) /\ o.key \in range
              /\ Expired(o.key, o.rev, timeout) \/ (o.del /\ o.rev <= rev)
  <2>1. PICK o \in rows :
               /\ d = DelVersion(o, o.rev) /\ o.key \in range
               /\ Expired(o.key, o.rev, timeout) \/ (o.del /\ o.rev <= rev)
    BY Zenon, <1>10
  <2>2. o.rev \in Nat /\ o.rev <= MaxRevision /\ o.rev <= o.rev /\ o.rev # 0
    <3>1. o.rev \in Nat /\ o.rev # 0 /\ o.rev <= MaxRevision
      BY Zenon, <1>3
    <3> QED BY <3>1
  <2>3. /\ d \in Deletions /\ d.key = o.key /\ d.at = o.rev /\ d.rev = o.rev
        /\ VersionOf(d) = o
    BY Zenon, <1>7, <2>1, <2>2
  <2>4. InOrder(d, deletes)
    BY Zenon, <1>8, <2>1, <2>2, <2>3
  <2>5. d.del = o.del
    BY Zenon, <2>1 DEF DelVersion
  <2> QED BY Zenon, <1>1, <1>3, <1>4, <2>1, <2>2, <2>3, <2>4, <2>5
<1>11. CASE \E o, q \in rows :
              /\ d = DelVersion(o, q.rev) /\ o.key \in range
              /\ Follows(rows, o, q) /\ q.rev <= rev
  <2>1. PICK o \in rows, q \in rows :
               /\ d = DelVersion(o, q.rev) /\ o.key \in range
               /\ Follows(rows, o, q) /\ q.rev <= rev
    BY Zenon, <1>11
  <2>2. q.key = o.key /\ o.rev < q.rev
    BY Zenon, <2>1 DEF Follows
  <2>3. q.rev \in Nat /\ q.rev <= MaxRevision /\ o.rev <= q.rev /\ q.rev # 0 /\ o.rev <= rev
    <3>1. /\ q.rev \in Nat /\ o.rev \in Nat /\ q.rev # 0 /\ q.rev <= MaxRevision
          /\ q.rev <= rev
      BY Zenon, <1>3, <2>1
    <3> QED BY <2>2, <3>1
  <2>4. /\ d \in Deletions /\ d.key = o.key /\ d.at = q.rev /\ d.rev = o.rev
        /\ VersionOf(d) = o
    BY Zenon, <1>7, <2>1, <2>3
  <2>5. InOrder(d, deletes)
    BY Zenon, <1>8, <2>1, <2>3, <2>4
  <2> QED BY Zenon, <1>1, <1>3, <2>1, <2>2, <2>3, <2>4, <2>5
<1> QED BY Zenon, <1>5, <1>9, <1>10, <1>11

\* The histories lose their first records.
LEMMA HistoriesPopped ==
  ASSUME TypeOK, NEW aged \in 0 .. Len(histories),
         histories' = SubSeq(histories, aged + 1, Len(histories)),
         UNCHANGED <<now, current>>
  PROVE  /\ histories' \in Seq([rev : 1 .. current', time : 0 .. now'])
         /\ \A i \in DOMAIN histories' : \E j \in DOMAIN histories : histories'[i] = histories[j]
<1>1. PICK S : S = [rev : 1 .. current, time : 0 .. now]
  BY Zenon
<1>2. histories \in Seq(S)
  BY Zenon, <1>1 DEF TypeOK
<1>3. /\ DOMAIN histories = 1 .. Len(histories) /\ Len(histories) \in Nat /\ aged \in Nat
      /\ \A j \in DOMAIN histories : histories[j] \in S
  BY <1>2
<1>4. PICK s, m, n : s = histories /\ m = aged + 1 /\ n = Len(histories)
  BY Zenon
<1>5. /\ histories' \in Seq(S)
      /\ \A i \in DOMAIN histories' : i + aged \in 1 .. n /\ histories'[i] = s[i + aged]
  BY <1>2, <1>3, <1>4
<1> QED BY Zenon, <1>1, <1>3, <1>4, <1>5

\* A scan begins with all its deletions left.
LEMMA CompactPutInv ==
  ASSUME Inv, CompactPut
  PROVE  Inv' /\ Step
<1>1. /\ TypeOK /\ Once /\ Logged /\ Clamped /\ Snapped /\ compactor.step = "put"
      /\ UNCHANGED <<now, storeVars, requests, ranger>>
  BY Zenon DEF Inv, CompactPut
<1>2. compactor # Idle
  BY <1>1 DEF Idle
<1>3. PICK rev \in 1 .. MaxRevision : rev = compactor.rev
  BY Zenon, <1>1, <1>2, CompactorTypes
<1>4. rev \in Nat /\ rev <= current /\ rev \in 0 .. current
  <2>1. rev <= current
    BY Zenon, <1>1, <1>2, <1>3 DEF Clamped
  <2> QED BY <1>1, <2>1, Numbers
<1>5. UNCHANGED <<now, current, index, objects, written>>
  BY Zenon, <1>1 DEF storeVars
<1>6. ASSUME NEW aged \in 0 .. Len(histories), Aged(aged),
             NEW timeout, timeout = IF aged = 0 THEN 0 ELSE histories[aged].rev,
             NEW deletes,
             deletes = ScanDeletes(compactor.snap, Ranges[compactor.range], rev, timeout),
             record' = rev,
             histories' = SubSeq(histories, aged + 1, Len(histories)),
             compacted' = IF compacted < rev THEN rev ELSE compacted,
             compactor' = [step |-> "scan", rev |-> rev, range |-> compactor.range,
                           deletes |-> deletes, left |-> deletes, skip |-> {}, tries |-> 1]
      PROVE  Inv' /\ Step
  <2>1. compactor.range \in DOMAIN Ranges
    BY Zenon, <1>1, CompactorTypes
  <2>2. PICK range \in SUBSET Keys : range = Ranges[compactor.range]
    <3>1. Ranges \in Seq(SUBSET Keys)
      BY Zenon, ScannerAssumption
    <3>2. \A i \in DOMAIN Ranges : Ranges[i] \in SUBSET Keys
      BY <3>1
    <3> QED BY Zenon, <2>1, <3>2
  <2>3. \A d \in deletes :
          /\ d \in Deletions /\ d.rev <= current
          /\ d.at = 0 => d.del \/ Outlived(d.key, d.rev)
          /\ d.at # 0 => /\ VersionOf(d) \in DOMAIN written
                         /\ \/ d.del \/ Outlived(d.key, d.rev)
                            \/ \E w \in DOMAIN written :
                                 w.key = d.key /\ d.rev < w.rev /\ w.rev <= rev
          /\ InOrder(d, deletes)
    BY Zenon, <1>1, <1>4, <1>6, <2>2, DeletesRight
  <2>4. compacted' \in 0 .. current /\ compacted <= compacted' /\ rev <= compacted'
    <3>1. /\ compacted' = IF compacted < rev THEN rev ELSE compacted
          /\ compacted \in Nat /\ compacted <= current /\ current \in Nat
      BY Zenon, <1>1, <1>6, Numbers
    <3> QED BY <1>4, <3>1
  <2>5. /\ compactor' \in Scans /\ compactor'.step = "scan" /\ compactor'.rev = rev
        /\ compactor'.deletes = deletes /\ compactor'.left = deletes
    <3>1. deletes \subseteq Deletions
      BY Zenon, <2>3
    <3>2. \A g \in DOMAIN Ranges, ds \in SUBSET Deletions :
            [step |-> "scan", rev |-> rev, range |-> g,
             deletes |-> ds, left |-> ds, skip |-> {}, tries |-> 1] \in Scans
      BY Zenon DEF Scans
    <3>3. compactor' \in Scans
      BY Zenon, <1>6, <2>1, <3>1, <3>2
    <3>4. /\ compactor'.step = "scan" /\ compactor'.rev = rev
          /\ compactor'.deletes = deletes /\ compactor'.left = deletes
      BY Zenon, <1>6
    <3> QED BY Zenon, <3>3, <3>4
  <2>6. /\ histories' \in Seq([rev : 1 .. current', time : 0 .. now'])
        /\ \A i \in DOMAIN histories' : \E j \in DOMAIN histories : histories'[i] = histories[j]
    BY Zenon, <1>1, <1>5, <1>6, HistoriesPopped
  <2>7. TypeOK'
    <3>1. compactor' \in Compactors
      BY Zenon, <2>5 DEF Compactors, Scans
    <3> QED BY Zenon, <1>1, <1>4, <1>5, <1>6, <2>4, <2>6, <3>1 DEF TypeOK
  <2>8. Logged'
    BY Zenon, <1>1, <1>5, <2>6 DEF Logged
  <2>9. Snapped'
    BY Zenon, <2>5 DEF Snapped
  <2>10. ASSUME NEW d \in deletes
         PROVE  Judged(d)' /\ InOrder(d, compactor.deletes)'
    <3>1. VersionOf(d).key = d.key /\ VersionOf(d).rev = d.rev
      BY Zenon DEF VersionOf, Version
    <3>2. VersionOf(d).del = d.del
      BY Zenon DEF VersionOf, Version
    <3>3. Outlived(d.key, d.rev) => Outlived(d.key, d.rev)'
      BY Zenon, <1>5 DEF Outlived
    <3>4. \A w \in DOMAIN written : w.rev <= rev => w.rev <= compacted'
      <4>1. \A w \in DOMAIN written : w.rev \in Nat
        BY Zenon, <1>1, VersionTypes
      <4>2. compacted' \in Nat
        BY <1>1, <2>4, Numbers
      <4> QED BY <1>4, <2>4, <4>1, <4>2
    <3>5. PICK v : v = VersionOf(d)
      BY Zenon
    <3>6. d.at # 0 => Dispensable(v)'
      <4> SUFFICES ASSUME d.at # 0
                   PROVE  Dispensable(v)'
        BY Zenon
      <4>1. v.key = d.key /\ v.rev = d.rev /\ v.del = d.del
        BY Zenon, <3>1, <3>2, <3>5
      <4>2. v.del \/ Outlived(v.key, v.rev)'
              \/ \E w \in DOMAIN written : w.key = v.key /\ v.rev < w.rev /\ w.rev <= compacted'
        BY Zenon, <2>3, <2>10, <3>3, <3>4, <4>1
      <4> QED BY Zenon, <1>5, <4>2 DEF Dispensable
    <3>7. Judged(d)'
      BY Zenon, <1>5, <2>3, <2>10, <3>3, <3>5, <3>6 DEF Judged
    <3>8. InOrder(d, compactor.deletes)'
      BY Zenon, <1>5, <2>3, <2>5, <2>10 DEF InOrder
    <3> QED BY Zenon, <3>7, <3>8
  <2>11. Scanning'
    BY Zenon, <2>4, <2>5, <2>10 DEF Scanning
  <2> QED BY Zenon, <1>1, <1>4, <2>4, <2>5, <2>7, <2>8, <2>9, <2>11, CompactKept
<1>7. CASE /\ compactor' = AtRange(compactor.rev, compactor.range + 1)
           /\ record' \in RecordAfterError(compactor.rev)
           /\ UNCHANGED <<histories, compacted>>
  <2>1. record \in 0 .. current
    BY Zenon, <1>1 DEF TypeOK
  <2>2. record' = record \/ record' = compactor.rev
    BY Zenon, <1>7 DEF RecordAfterError
  <2>3. record' \in 0 .. current
    BY Zenon, <1>3, <1>4, <2>1, <2>2
  <2>4. PICK i \in Nat \ {0} : i = compactor.range + 1
    BY Zenon, <1>1, NextRange
  <2> QED BY Zenon, <1>1, <1>2, <1>7, <2>3, <2>4, CompactLoops
<1> QED BY Zenon, <1>3, <1>6, <1>7 DEF CompactPut

\* The order of the deletions.
LEMMA BeforeOrder ==
  ASSUME TypeOK, NEW d \in Deletions, NEW e \in Deletions, Before(d, e)
  PROVE  d.key \in Nat /\ e.key \in Nat /\ d.key <= e.key /\ d # e /\ ~Before(e, d)
<1>1. \A x \in Deletions : x.key \in Nat /\ x.at \in Nat /\ x.rev \in Nat
  BY Numbers DEF Deletions
<1> QED BY <1>1 DEF Before

\* When the turn of a deletion comes, and its key is not skipped, the older
\* versions of the key are gone.
LEMMA OldestFirst ==
  ASSUME TypeOK, Scanning, compactor.step = "scan",
         NEW d \in compactor.left, \A e \in compactor.left : e = d \/ Before(d, e),
         d.key \notin compactor.skip, d.at # 0,
         NEW p \in objects, p.key = d.key
  PROVE  ~(p.rev < d.rev)
<1> SUFFICES ASSUME p.rev < d.rev
             PROVE  FALSE
  BY Zenon
<1>1. /\ compactor.deletes \subseteq Deletions /\ compactor.left \subseteq compactor.deletes
      /\ InOrder(d, compactor.deletes)
      /\ \A e \in compactor.deletes \ compactor.left : e.key = d.key => Settled(e)
  BY Zenon, CompactorTypes DEF Scanning
<1>2. PICK e \in compactor.deletes : e.at # 0 /\ VersionOf(e) = p /\ Before(e, d)
  BY Zenon, <1>1 DEF InOrder
<1>3. e.key = d.key
  BY Zenon, <1>2 DEF VersionOf, Version
<1>4. e \notin compactor.left
  BY Zenon, <1>1, <1>2, BeforeOrder
<1> QED BY Zenon, <1>1, <1>2, <1>3, <1>4 DEF Settled

\* What a deletion does to the rows.
LEMMA RowRemoved ==
  ASSUME Inv, compactor.step = "scan",
         NEW d \in compactor.left, \A e \in compactor.left : e = d \/ Before(d, e),
         d.key \notin compactor.skip, RemoveRow(d), UNCHANGED <<now, current, written, compacted>>
  PROVE  /\ index' \in Indexes /\ objects' \subseteq objects
         /\ d.at = 0 \/ VersionOf(d) \notin objects'
         /\ Chained(objects)' /\ Sound(objects, current)'
         /\ Behind(index)' /\ IndexNamesNewest'
<1>1. /\ TypeOK /\ Once /\ Chained(objects) /\ Sound(objects, current) /\ Behind(index)
      /\ IndexNamesNewest /\ Scanning
  BY Zenon DEF Inv
<1>2. d \in Deletions /\ Judged(d)
  BY Zenon, <1>1, CompactorTypes DEF Scanning
<1>3. index \in Indexes /\ DOMAIN index = Keys /\ d.key \in Keys
  BY Zenon, <1>1, <1>2 DEF TypeOK, Indexes, Deletions
<1>4. \A v : Dispensable(v) => Dispensable(v)'
  BY Zenon DEF Dispensable, Outlived
<1>5. CASE d.at = 0
  <2>1. /\ index' = [index EXCEPT ![d.key] = IF DelCurrentMatches(d) THEN Absent ELSE @]
        /\ objects' = objects
    BY Zenon, <1>5 DEF RemoveRow
  <2>2. \A k \in Keys : \/ index'[k] = index[k]
                        \/ /\ k = d.key /\ index'[k] = Absent
                           /\ index[k] = [rev |-> d.rev, del |-> d.del]
    BY Zenon, <1>3, <2>1 DEF DelCurrentMatches
  <2>3. index' \in Indexes
    <3>1. Absent \in [rev : 0 .. MaxRevision, del : BOOLEAN]
      BY ScannerAssumption DEF Absent
    <3> QED BY Zenon, <1>3, <2>1, <3>1 DEF Indexes
  <2>4. Behind(index)'
    <3>1. Absent.rev <= current
      BY <1>1, Numbers DEF Absent
    <3> QED BY Zenon, <1>1, <2>2, <3>1 DEF Behind
  <2>5. Chained(objects)' /\ Sound(objects, current)'
    BY Zenon, <1>1, <1>4, <2>1 DEF Chained, Sound
  <2>6. IndexNamesNewest'
    <3> SUFFICES ASSUME NEW k \in Keys, NEW v \in NewestAt(DOMAIN written, k, current)
                 PROVE  \/ index'[k] = [rev |-> v.rev, del |-> v.del]
                        \/ /\ index'[k] = Absent
                           /\ v.del \/ (k \in Events /\ now - written[v] >= TTL)
      BY Zenon DEF IndexNamesNewest
    <3>1. \/ index[k] = [rev |-> v.rev, del |-> v.del]
          \/ index[k] = Absent /\ (v.del \/ (k \in Events /\ now - written[v] >= TTL))
      BY Zenon, <1>1 DEF IndexNamesNewest
    <3>2. CASE index'[k] = index[k]
      BY Zenon, <3>1, <3>2
    <3>3. CASE /\ k = d.key /\ index'[k] = Absent
               /\ index[k] = [rev |-> d.rev, del |-> d.del]
               /\ index[k] = [rev |-> v.rev, del |-> v.del]
      <4>1. v \in DOMAIN written /\ v.key = k
        BY Zenon DEF NewestAt, VersionsOf
      <4>2. v.rev = d.rev
        BY <3>3
      <4>3. v.del = d.del
        <5>1. [rev |-> d.rev, del |-> d.del].del = d.del
          BY Zenon
        <5>2. [rev |-> v.rev, del |-> v.del].del = v.del
          BY Zenon
        <5>3. [rev |-> d.rev, del |-> d.del] = [rev |-> v.rev, del |-> v.del]
          BY Zenon, <3>3
        <5> QED BY Zenon, <5>1, <5>2, <5>3
      <4>4. v.rev <= d.rev
        BY <1>1, <4>1, <4>2, VersionTypes
      <4> QED BY Zenon, <1>2, <1>5, <3>3, <4>1, <4>3, <4>4 DEF Judged, Outlived
    <3> QED BY Zenon, <2>2, <3>1, <3>2, <3>3
  <2> QED BY Zenon, <1>5, <2>1, <2>3, <2>4, <2>5, <2>6
<1>6. CASE d.at # 0
  <2>1. PICK o : o = VersionOf(d)
    BY Zenon
  <2>2. objects' = objects \ {o} /\ index' = index
    BY Zenon, <1>6, <2>1 DEF RemoveRow, VersionOf
  <2>3. o \in DOMAIN written /\ Dispensable(o) /\ o.key = d.key /\ o.rev = d.rev
    BY Zenon, <1>2, <1>6, <2>1 DEF Judged, VersionOf, Version
  <2>4. \A p \in objects : p.key = o.key => ~(p.rev < o.rev)
    BY Zenon, <1>1, <1>6, <2>3, OldestFirst
  <2>5. Chained(objects)'
    <3> SUFFICES ASSUME NEW a \in objects \ {o}, NEW b \in objects \ {o},
                        b.key = a.key, a.rev < b.rev
                 PROVE  \E q \in objects \ {o} : Follows(objects \ {o}, a, q)
      BY Zenon, <2>2 DEF Chained
    <3>1. PICK q \in objects : Follows(objects, a, q)
      BY Zenon, <1>1 DEF Chained
    <3>2. q # o
      BY Zenon, <2>4, <3>1 DEF Follows
    <3> QED BY Zenon, <3>1, <3>2 DEF Follows, VersionsOf
  <2>6. Sound(objects, current)'
    <3>1. \A a \in objects \ {o}, p \in DOMAIN written :
            p.key = a.key /\ a.rev < p.rev /\ p.rev <= current => p \in objects \ {o}
      BY Zenon, <1>1, <2>4 DEF Sound
    <3>2. \A v \in DOMAIN written : v \notin objects \ {o} /\ v.rev <= current => Dispensable(v)
      BY Zenon, <1>1, <2>3 DEF Sound
    <3>3. objects \ {o} \subseteq DOMAIN written
      BY Zenon, <1>1 DEF Sound
    <3> QED BY Zenon, <1>4, <2>2, <3>1, <3>2, <3>3 DEF Sound
  <2>7. Behind(index)' /\ IndexNamesNewest'
    BY Zenon, <1>1, <2>2 DEF Behind, IndexNamesNewest
  <2> QED BY Zenon, <1>3, <2>1, <2>2, <2>5, <2>6, <2>7
<1> QED BY Zenon, <1>5, <1>6

\* The first deletion that is left is carried out, fails or is passed over.
LEMMA CompactDeleteInv ==
  ASSUME Inv, CompactDelete
  PROVE  Inv' /\ Step
<1>1. /\ TypeOK /\ Once /\ HasNewest /\ Clamped /\ Scanning /\ compactor.step = "scan"
      /\ compactor \in Scans /\ compactor # Idle
      /\ Chained(objects) /\ Sound(objects, current) /\ Behind(index) /\ IndexNamesNewest
      /\ UNCHANGED <<now, current, written, record, histories, requests, compacted, ranger>>
  BY Zenon, ScanType DEF Inv, CompactDelete
<1>2. PICK d \in compactor.left :
             /\ \A e \in compactor.left : e = d \/ Before(d, e)
             /\ \/ /\ d.key \in compactor.skip
                   /\ compactor' = [compactor EXCEPT !.left = @ \ {d}]
                   /\ UNCHANGED <<index, objects>>
                \/ /\ d.key \notin compactor.skip
                   /\ compactor' = [compactor EXCEPT !.left = @ \ {d}]
                   /\ RemoveRow(d)
                \/ /\ d.key \notin compactor.skip
                   /\ compactor' = [compactor EXCEPT !.left = @ \ {d}, !.skip = SkippedAfter(d)]
                   /\ UNCHANGED <<index, objects>> \/ RemoveRow(d)
  BY Zenon DEF CompactDelete
<1>3. PICK left, skip, dels :
        left = compactor.left /\ skip = compactor.skip /\ dels = compactor.deletes
  BY Zenon
<1>4. /\ dels \subseteq Deletions /\ left \subseteq dels /\ skip \subseteq Keys
      /\ d \in left /\ d \in Deletions /\ d.key \in Keys
      /\ compactor.rev <= compacted
      /\ \A x \in dels : Judged(x) /\ InOrder(x, dels)
      /\ \A x \in left, e \in dels \ left : Before(e, x) /\ (e.key = x.key => Settled(e))
  <2>1. dels \subseteq Deletions /\ skip \subseteq Keys
    BY Zenon, <1>1, <1>3, CompactorTypes
  <2>2. \A x \in Deletions : x.key \in Keys
    BY Zenon DEF Deletions
  <2> QED BY Zenon, <1>1, <1>2, <1>3, <2>1, <2>2 DEF Scanning
<1>5. PICK skip2 :
        /\ compactor' = [compactor EXCEPT !.left = left \ {d}, !.skip = skip2]
        /\ \/ skip2 = skip
           \/ d.key \notin skip /\ skip2 = {d.key}
        /\ \/ d.key \in skip2
           \/ d.key \notin skip /\ RemoveRow(d)
  <2>1. CASE /\ compactor' = [compactor EXCEPT !.left = @ \ {d}]
             /\ d.key \in compactor.skip \/ (d.key \notin compactor.skip /\ RemoveRow(d))
    <3>1. compactor' = [compactor EXCEPT !.left = left \ {d}, !.skip = skip]
      <4>1. \A c \in Scans : \A l : [c EXCEPT !.left = l] = [c EXCEPT !.left = l, !.skip = c.skip]
        BY Zenon DEF Scans
      <4> QED BY Zenon, <1>1, <1>3, <2>1, <4>1
    <3>2. d.key \in skip \/ (d.key \notin skip /\ RemoveRow(d))
      BY Zenon, <1>2, <1>3, <2>1
    <3> QED BY Zenon, <3>1, <3>2
  <2>2. CASE /\ d.key \notin compactor.skip
             /\ compactor' = [compactor EXCEPT !.left = @ \ {d}, !.skip = SkippedAfter(d)]
    BY Zenon, <1>3, <2>2 DEF SkippedAfter
  <2> QED BY Zenon, <1>2, <2>1, <2>2
<1>6. /\ compactor' \in Scans /\ compactor'.step = "scan" /\ compactor'.rev = compactor.rev
      /\ compactor'.deletes = dels /\ compactor'.left = left \ {d} /\ compactor'.skip = skip2
  <2>1. skip2 \in SUBSET Keys
    BY Zenon, <1>4, <1>5
  <2>2. PICK l \in SUBSET Deletions : l = left \ {d}
    BY Zenon, <1>4
  <2>3. PICK c, c2 : c = compactor /\ c2 = compactor'
    BY Zenon
  <2>4. c \in Scans /\ c2 = [c EXCEPT !.left = l, !.skip = skip2]
    BY Zenon, <1>1, <1>5, <2>2, <2>3
  <2>5. /\ c2 \in Scans /\ c2.step = "scan" /\ c2.rev = c.rev
        /\ c2.deletes = c.deletes /\ c2.left = l /\ c2.skip = skip2
    BY Zenon, <2>1, <2>4 DEF Scans
  <2> QED BY Zenon, <1>3, <2>2, <2>3, <2>5
<1>7. /\ index' \in Indexes /\ objects' \subseteq objects
      /\ Chained(objects)' /\ Sound(objects, current)'
      /\ Behind(index)' /\ IndexNamesNewest'
      /\ d.key \in skip2 \/ d.at = 0 \/ VersionOf(d) \notin objects'
  <2>1. CASE UNCHANGED <<index, objects>> /\ d.key \in skip2
    <3>1. Chained(objects)' /\ Behind(index)' /\ IndexNamesNewest'
      BY Zenon, <1>1, <2>1 DEF Chained, Behind, IndexNamesNewest
    <3>2. \A v : Dispensable(v) => Dispensable(v)'
      BY Zenon, <1>1 DEF Dispensable, Outlived
    <3>3. Sound(objects, current)'
      BY Zenon, <1>1, <2>1, <3>2 DEF Sound
    <3>4. index' \in Indexes
      BY Zenon, <1>1, <2>1 DEF TypeOK
    <3> QED BY Zenon, <2>1, <3>1, <3>3, <3>4
  <2>2. CASE d.key \notin skip /\ RemoveRow(d)
    BY Zenon, <1>1, <1>2, <1>3, <2>2, RowRemoved
  <2>3. \/ UNCHANGED <<index, objects>> /\ d.key \in skip2
        \/ d.key \notin skip /\ RemoveRow(d)
    BY Zenon, <1>2, <1>3, <1>5
  <2> QED BY Zenon, <2>1, <2>2, <2>3
<1>8. TypeOK'
  <2>1. compactor' \in Compactors
    BY Zenon, <1>6 DEF Compactors, Scans
  <2> QED BY Zenon, <1>1, <1>7, <2>1 DEF TypeOK
<1>9. Step
  <2>1. now <= now' /\ current <= current' /\ compacted <= compacted'
    BY <1>1, Numbers
  <2> QED BY Zenon, <1>1, <1>7, <2>1 DEF Step
<1>10. Scanning'
  <2>1. \A x \in dels : Judged(x)'
    BY Zenon, <1>1, <1>4, <1>8, <1>9, StaysJudged
  <2>2. \A x \in dels : InOrder(x, compactor.deletes)'
    BY Zenon, <1>4, <1>6, <1>7 DEF InOrder
  <2>3. ASSUME NEW x \in left \ {d}, NEW e \in dels \ (left \ {d})
        PROVE  Before(e, x) /\ (e.key = x.key => Settled(e)')
    <3>1. Before(d, x)
      BY Zenon, <1>2, <1>3
    <3>2. CASE e = d
      BY Zenon, <1>6, <1>7, <3>1, <3>2 DEF Settled
    <3>3. CASE e \in dels \ left
      <4>1. Before(e, x) /\ Before(e, d) /\ (e.key = x.key => Settled(e))
        BY Zenon, <1>4, <3>3
      <4>2. e.key = x.key => e.key = d.key
        <5>1. /\ e.key \in Nat /\ d.key \in Nat /\ x.key \in Nat
              /\ e.key <= d.key /\ d.key <= x.key
          BY Zenon, <1>1, <1>4, <3>1, <4>1, BeforeOrder
        <5> QED BY <5>1
      <4>3. e.key = x.key => Settled(e)'
        BY Zenon, <1>3, <1>5, <1>6, <1>7, <4>1, <4>2 DEF Settled
      <4> QED BY Zenon, <4>1, <4>3
    <3> QED BY Zenon, <3>2, <3>3
  <2> QED BY Zenon, <1>1, <1>4, <1>6, <2>1, <2>2, <2>3 DEF Scanning
<1>11. Snapped'
  BY Zenon, <1>6 DEF Snapped
<1>12. Ranging' /\ Logged'
  BY Zenon, <1>1, <1>8, <1>9, RangingKept, LoggedKept
<1>13. Clamped' /\ Once' /\ HasNewest'
  BY Zenon, <1>1, <1>6 DEF Clamped, Once, HasNewest
<1> QED BY Zenon, <1>7, <1>8, <1>9, <1>10, <1>11, <1>12, <1>13 DEF Inv

-----------------------------------------------------------------------------
(* The theorems.                                                           *)

\* The invariant holds of the empty store.
LEMMA InitInv ==
  ASSUME Init
  PROVE  Inv
<1>1. /\ now = 0 /\ current = 0 /\ record = 0 /\ compacted = 0 /\ requests = 0
      /\ histories = <<>> /\ compactor = Idle /\ ranger = Idle
      /\ objects = {} /\ written = [v \in {} |-> 0] /\ index = [k \in Keys |-> Absent]
  BY Zenon DEF Init
<1>2. DOMAIN written = {} /\ objects = {}
  BY Zenon, <1>1
<1>3. TypeOK
  <2>1. /\ now \in 0 .. MaxClock /\ current \in 0 .. MaxRevision /\ record \in 0 .. current
        /\ compacted \in 0 .. current /\ requests \in 0 .. MaxCompactions
    BY <1>1, ScannerAssumption
  <2>2. index \in Indexes
    <3>1. Absent \in [rev : 0 .. MaxRevision, del : BOOLEAN]
      BY ScannerAssumption DEF Absent
    <3> QED BY Zenon, <1>1, <3>1 DEF Indexes
  <2>3. written \in [DOMAIN written -> 0 .. now]
    BY Zenon, <1>1, <1>2
  <2>4. histories \in Seq([rev : 1 .. current, time : 0 .. now])
    BY <1>1
  <2>5. compactor \in Compactors /\ ranger \in Rangers
    BY Zenon, <1>1 DEF Compactors, Rangers
  <2>6. DOMAIN written \subseteq Versions /\ objects \subseteq DOMAIN written
    BY Zenon, <1>2
  <2> QED BY Zenon, <2>1, <2>2, <2>3, <2>4, <2>5, <2>6 DEF TypeOK
<1>4. Once /\ HasNewest /\ Chained(objects) /\ Sound(objects, current) /\ IndexNamesNewest
  BY Zenon, <1>2 DEF Once, HasNewest, Chained, Sound, IndexNamesNewest, NewestAt,
    VersionsOf
<1>5. Logged
  BY Zenon, <1>2 DEF Logged
<1>6. Behind(index)
  <2>1. Absent.rev <= current
    BY <1>1 DEF Absent
  <2> QED BY Zenon, <1>1, <2>1 DEF Behind
<1>7. Clamped /\ Snapped /\ Scanning /\ Ranging
  BY Zenon, <1>1 DEF Clamped, Snapped, Scanning, Ranging, RangeExactIfRecorded, Idle
<1> QED BY Zenon, <1>3, <1>4, <1>5, <1>6, <1>7 DEF Inv

\* Every step keeps the invariant.
LEMMA NextInv ==
  ASSUME Inv, [Next]_vars
  PROVE  Inv' /\ [Step]_vars
<1>1. CASE UNCHANGED vars
  <2>1. UNCHANGED <<now, current, index, objects, written, record, histories, compactor,
                    requests, compacted, ranger>>
    BY Zenon, <1>1 DEF vars, storeVars, compactVars
  <2>2. UNCHANGED <<now, storeVars, compactVars>> /\ UNCHANGED ranger
    BY Zenon, <2>1 DEF storeVars, compactVars
  <2>3. ranger' \in Rangers /\ (ranger' # Idle => ranger'.rev <= current)
    BY Zenon, <2>1 DEF Inv, TypeOK, Clamped
  <2>4. Ranging'
    <3>1. \A v : Dispensable(v) => Dispensable(v)'
      BY Zenon, <2>1 DEF Dispensable, Outlived
    <3>2. \A k : MayBeGone(k, ranger.rev) => MayBeGone(k, ranger.rev)'
      BY Zenon, <2>1 DEF MayBeGone
    <3>3. Sound(ranger.snap, ranger.rev) => Sound(ranger.snap, ranger.rev)'
      BY Zenon, <2>1, <3>1 DEF Sound
    <3>4. ReturnedExactly => ReturnedExactly'
      BY Zenon, <2>1, <3>2 DEF ReturnedExactly
    <3> QED BY Zenon, <2>1, <3>3, <3>4 DEF Inv, Ranging, RangeExactIfRecorded
  <2> QED BY Zenon, <1>1, <2>2, <2>3, <2>4, ReadKept
<1>2. CASE Next
  BY Zenon, <1>2, WriteInv, TickInv, CompactBeginInv, SetCompactRecordInv,
    CompactSnapshotInv,
     CompactPutInv, CompactDeleteInv, CompactRetryInv, CompactRangeDoneInv,
     RangeSnapshotInv, RangeReadInv, RangeReturnInv DEF Next
<1> QED BY Zenon, <1>1, <1>2

\* The invariant holds throughout: compaction (scanner.go, worker.run) takes
\* the versions of a key away oldest first and only those that no read at or
\* above its revision needs, and the snapshot of every read stays sound.
THEOREM Invariant == Spec => []Inv
<1>1. Init => Inv
  BY Zenon, InitInv
<1>2. Inv /\ [Next]_vars => Inv'
  BY Zenon, NextInv
<1> QED BY <1>1, <1>2, PTL DEF Spec

\* The variables have their types: rows are never changed, only deleted.
THEOREM TypeCorrect == Spec => []TypeOK
<1>1. Inv => TypeOK
  BY Zenon DEF Inv
<1> QED BY <1>1, Invariant, PTL

\* Compaction is invisible to every read at or above its revision, whatever
\* deletions fail and however often worker.run starts again.
THEOREM CompactionHides == Spec => []CompactionInvisible
<1>1. Inv => CompactionInvisible
  <2> SUFFICES ASSUME Inv, NEW k \in Keys, NEW r \in compacted .. current
               PROVE  \/ VisibleAt(objects, k, r) = VisibleAt(DOMAIN written, k, r)
                      \/ VisibleAt(objects, k, r) = {} /\ MayBeGone(k, r)
    BY Zenon DEF CompactionInvisible
  <2>1. TypeOK /\ Once /\ HasNewest /\ Sound(objects, current)
    BY Zenon DEF Inv
  <2>2. r \in Nat /\ compacted <= r /\ r <= current
    BY <2>1, Numbers
  <2>3. \A v \in DOMAIN written : v.rev <= r => v.rev <= current
    BY <2>1, <2>2, Numbers, VersionTypes
  <2>4. PICK rows : rows = objects
    BY Zenon
  <2>5. Sound(rows, r)
    BY Zenon, <2>1, <2>3, <2>4 DEF Sound
  <2> QED BY Zenon, <2>1, <2>2, <2>4, <2>5, Exact
<1> QED BY <1>1, Invariant, PTL

\* The index row of a key names its newest version, or that is deleted or
\* expired: compactCurrent never takes the row of a key written again.
THEOREM IndexRowsAgree == Spec => []IndexNamesNewest
<1>1. Inv => IndexNamesNewest
  BY Zenon DEF Inv
<1> QED BY <1>1, Invariant, PTL

\* A range read that checkCompactRace lets through, with the compact record
\* not behind the deletions, returns what was visible at its revision.
THEOREM RecordedReadsAreExact == Spec => []RangeExactIfRecorded
<1>1. Inv => RangeExactIfRecorded
  BY Zenon DEF Inv, Ranging
<1> QED BY <1>1, Invariant, PTL

\* No step rewrites history: the clock, the committed and the compacted
\* revision only go up, what was written stays written as it was, and only a
\* write above the committed revision adds a row (scanner.go only deletes).
THEOREM HistoryIsKept == Spec => [][Step]_vars
<1>1. Inv /\ [Next]_vars => [Step]_vars
  BY Zenon, NextInv
<1> QED BY <1>1, Invariant, PTL DEF Spec
==============================================================================
