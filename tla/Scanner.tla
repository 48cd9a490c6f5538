------------------------------- MODULE Scanner -------------------------------
(***************************************************************************)
(* Compaction and range reads over the rows of the storage engine          *)
(* (scanner/scanner.go, scanner/compact.go, the compact record of          *)
(* compact.go), interleaved with writes and with the passing of time.      *)
(*                                                                         *)
(* A key has an index row and one row per version.  A compaction reads a   *)
(* snapshot and deletes rows one by one from the live store; a deletion    *)
(* may fail, or take effect and still report an error, and the scan of the *)
(* snapshot may break off and start again.  A range read takes a snapshot, *)
(* compares its revision with the compact record and then reads the        *)
(* snapshot.  Writes are the outcome of WritePath: index and version       *)
(* change together.                                                        *)
(***************************************************************************)
EXTENDS Integers, Sequences

CONSTANTS
  Keys,                  \* raw keys, as numbers in the order of the store
  Events,                \* those that contain "/events/" and expire
  Ranges,                \* the key ranges of getCompactBorders, in order
  TTL,                   \* ticks of the clock an event lives
  DelFaults,             \* what a deletion, or a write of the record, may suffer
  MaxTries,              \* scanBackoffSteps
  MaxRevision,           \* bound: no revision above it is written
  MaxClock,              \* bound: the last tick
  MaxCompactions         \* bound: requests to Compact

\* "error": the row stays and the deletion fails; "applied": the row is gone
\* and the deletion reports an error all the same.
Faults == {"error", "applied"}

ASSUME ScannerAssumption ==
  /\ Keys \subseteq Nat
  /\ Events \subseteq Keys
  /\ Ranges \in Seq(SUBSET Keys)
  /\ TTL \in Nat \ {0}
  /\ DelFaults \subseteq Faults
  /\ {MaxTries, MaxRevision, MaxClock, MaxCompactions} \subseteq Nat

VARIABLES
  now,                   \* the clock
  current,               \* the committed revision
  index,                 \* key -> [rev, del]; Absent when there is none
  objects,               \* the version rows, [key, rev, del]
  written,               \* every version ever written -> the tick it was
  record,                \* the value of the compact key; 0 when there is none
  histories,             \* compactHistories: [rev, time], oldest first
  compactor,             \* the Compact request in progress
  requests,              \* the number of requests to Compact so far
  compacted,             \* the highest revision whose deletions have begun
  ranger                 \* a range read in progress

storeVars == <<current, index, objects, written>>
compactVars == <<record, histories, compactor, requests, compacted>>
vars == <<now, storeVars, compactVars, ranger>>

Absent == [rev |-> 0, del |-> FALSE]
Idle == [step |-> "idle"]

Version(k, rev, del) == [key |-> k, rev |-> rev, del |-> del]

VersionsOf(rows, k) == {o \in rows : o.key = k}

\* The newest version of k among rows not above revision r, as a set.
NewestAt(rows, k, r) ==
  LET below == {o \in VersionsOf(rows, k) : o.rev <= r} IN
  {o \in below : \A p \in below : p.rev <= o.rev}

\* What a reader at revision r sees of k.
VisibleAt(rows, k, r) == {o \in NewestAt(rows, k, r) : ~o.del}

-----------------------------------------------------------------------------
(* Writes and time.                                                        *)

\* A write that succeeded: a create or an update, or the delete of a key that
\* exists.
Write(k, del) ==
  LET rev == current + 1 IN
  /\ rev <= MaxRevision
  /\ del => index[k] # Absent /\ ~index[k].del
  /\ current' = rev
  /\ index' = [index EXCEPT ![k] = [rev |-> rev, del |-> del]]
  /\ objects' = objects \cup {Version(k, rev, del)}
  /\ written' = [v \in DOMAIN written \cup {Version(k, rev, del)} |->
                   IF v \in DOMAIN written THEN written[v] ELSE now]
  /\ UNCHANGED <<now, compactVars, ranger>>

Tick ==
  /\ now < MaxClock
  /\ now' = now + 1
  /\ UNCHANGED <<storeVars, compactVars, ranger>>

-----------------------------------------------------------------------------
(* The deletions of one scan, with the row at which the iterator comes to  *)
(* each: of a key the index row first, at 0, then its versions by revision. *)

\* The index row of k, and the version o at the row of revision at.
DelIndex(k, entry) == [key |-> k, at |-> 0, rev |-> entry.rev, del |-> entry.del]
DelVersion(o, at) == [key |-> o.key, at |-> at, rev |-> o.rev, del |-> o.del]

\* d is carried out before e.
Before(d, e) ==
  \/ d.key < e.key
  \/ d.key = e.key /\ d.at < e.at
  \/ d.key = e.key /\ d.at = e.at /\ d.rev < e.rev

\* p is the version after o.
Follows(rows, o, p) ==
  /\ p.key = o.key /\ o.rev < p.rev
  /\ \A q \in VersionsOf(rows, o.key) : q.rev <= o.rev \/ p.rev <= q.rev

\* compactIfExpired, for a row that was written at revision rev.
Expired(k, rev, timeout) == timeout # 0 /\ k \in Events /\ rev <= timeout

\* The index row of k goes when it is expired, or marked deleted not above the
\* revision.
IndexDeletes(snap, range, rev, timeout) ==
  {DelIndex(k, snap.index[k]) : k \in
     {k \in range : LET entry == snap.index[k] IN
        /\ entry # Absent
        /\ Expired(k, entry.rev, timeout) \/ (entry.del /\ entry.rev <= rev)}}

\* A version goes at its own row when it is expired, or a tombstone.
RowDeletes(snap, range, rev, timeout) ==
  {DelVersion(o, o.rev) : o \in
     {o \in snap.objects :
        /\ o.key \in range
        /\ Expired(o.key, o.rev, timeout) \/ (o.del /\ o.rev <= rev)}}

\* At the row of a version not above the revision its predecessor goes.
PrevDeletes(snap, range, rev, timeout) ==
  {DelVersion(op[1], op[2].rev) : op \in
     {op \in snap.objects \X snap.objects :
        /\ op[1].key \in range
        /\ Follows(snap.objects, op[1], op[2])
        /\ ~Expired(op[1].key, op[1].rev, timeout)
        /\ ~Expired(op[2].key, op[2].rev, timeout)
        /\ op[2].rev <= rev}}

\* worker.run over the keys of a range, with compact set.
ScanDeletes(snap, range, rev, timeout) ==
  IndexDeletes(snap, range, rev, timeout)
    \cup RowDeletes(snap, range, rev, timeout)
    \cup PrevDeletes(snap, range, rev, timeout)

-----------------------------------------------------------------------------
(* Compact.                                                                *)

\* Compact clamps the revision to the committed one and reads the compact
\* record.
CompactBegin(rev) ==
  /\ compactor = Idle
  /\ requests < MaxCompactions
  /\ requests' = requests + 1
  /\ compactor' = [step |-> "record", rev |-> rev, seen |-> record]
  /\ UNCHANGED <<now, storeVars, record, histories, compacted, ranger>>

\* Mutant of AtRange: one range too many.
AtRange_OneMore(rev, i) ==
  IF i > Len(Ranges) + 1 THEN Idle ELSE [step |-> "range", rev |-> rev, range |-> i]

\* The loop of compact over the ranges.
AtRange(rev, i) ==
  IF i > Len(Ranges) THEN Idle ELSE [step |-> "range", rev |-> rev, range |-> i]

\* The record after a write of it that reported an error.
RecordAfterError(rev) == {record} \cup (IF "applied" \in DelFaults THEN {rev} ELSE {})

\* setCompactRecord: a record above the revision stays and Compact goes on;
\* else it is swapped, and Compact ends when that fails.
SetCompactRecord ==
  /\ compactor.step = "record"
  /\ \/ /\ compactor.seen > compactor.rev
        /\ compactor' = AtRange(compactor.rev, 1)
        /\ UNCHANGED record
     \/ /\ compactor.seen <= compactor.rev
        /\ record = compactor.seen
        /\ record' = compactor.rev
        /\ compactor' = AtRange(compactor.rev, 1)
     \/ /\ compactor.seen <= compactor.rev
        /\ record # compactor.seen \/ DelFaults # {}
        /\ compactor' = Idle
        /\ record' \in IF record = compactor.seen THEN RecordAfterError(compactor.rev)
                                                  ELSE {record}
  /\ UNCHANGED <<now, storeVars, histories, requests, compacted, ranger>>

\* scanner.Compact logs the revision; scan takes its snapshot.
CompactSnapshot ==
  /\ compactor.step = "range"
  /\ histories' = Append(histories, [rev |-> compactor.rev, time |-> now])
  /\ compactor' = [step |-> "put", rev |-> compactor.rev, range |-> compactor.range,
                   snap |-> [index |-> index, objects |-> objects]]
  /\ UNCHANGED <<now, storeVars, record, requests, compacted, ranger>>

\* The first n records of the histories are TTL old, the next one is not.
Aged(n) ==
  /\ \A i \in 1 .. n : now - histories[i].time >= TTL
  /\ n < Len(histories) => now - histories[n + 1].time < TTL

\* checkCompactRace puts the compact record whatever it holds;
\* getTimeoutRevision pops the histories that are old enough; the deletions of
\* the scan follow.  A put that fails, or an error before the workers start,
\* ends the scan of this range.
CompactPut ==
  /\ compactor.step = "put"
  /\ \/ \E aged \in 0 .. Len(histories) :
        LET timeout == IF aged = 0 THEN 0 ELSE histories[aged].rev
            deletes == ScanDeletes(compactor.snap, Ranges[compactor.range],
                                   compactor.rev, timeout)
        IN
        /\ Aged(aged)
        /\ record' = compactor.rev
        /\ histories' = SubSeq(histories, aged + 1, Len(histories))
        /\ compacted' = IF compacted < compactor.rev THEN compactor.rev ELSE compacted
        /\ compactor' = [step |-> "scan", rev |-> compactor.rev, range |-> compactor.range,
                         deletes |-> deletes, left |-> deletes, skip |-> {}, tries |-> 1]
     \/ /\ DelFaults # {}
        /\ compactor' = AtRange(compactor.rev, compactor.range + 1)
        /\ record' \in RecordAfterError(compactor.rev)
        /\ UNCHANGED <<histories, compacted>>
  /\ UNCHANGED <<now, storeVars, requests, ranger>>

\* Mutant of DelCurrentMatches: the row is deleted whatever it holds by now.
DelCurrentMatches_Blind(d) == TRUE

\* DelCurrent deletes a row only while it has the value of the snapshot.
DelCurrentMatches(d) == index[d.key] = [rev |-> d.rev, del |-> d.del]

RemoveRow(d) ==
  IF d.at = 0
  THEN /\ index' = [index EXCEPT ![d.key] = IF DelCurrentMatches(d) THEN Absent ELSE @]
       /\ UNCHANGED objects
  ELSE objects' = objects \ {Version(d.key, d.rev, d.del)} /\ UNCHANGED index

\* Mutant of SkippedAfter: a failed deletion is forgotten.
SkippedAfter_Forget(d) == {}

\* updateSkippedRawKey: lastCompactFailedRawKey after the deletion d failed.
SkippedAfter(d) == {d.key}

\* The first deletion that is left.  One for the key that failed last is
\* passed over; a lost compare is an error the worker does not remember.
CompactDelete ==
  /\ compactor.step = "scan"
  /\ \E d \in compactor.left :
     /\ \A e \in compactor.left : e = d \/ Before(d, e)
     /\ \/ /\ d.key \in compactor.skip
           /\ compactor' = [compactor EXCEPT !.left = @ \ {d}]
           /\ UNCHANGED <<index, objects>>
        \/ /\ d.key \notin compactor.skip
           /\ compactor' = [compactor EXCEPT !.left = @ \ {d}]
           /\ RemoveRow(d)
        \/ /\ d.key \notin compactor.skip
           /\ "error" \in DelFaults
           /\ compactor' = [compactor EXCEPT !.left = @ \ {d}, !.skip = SkippedAfter(d)]
           /\ UNCHANGED <<index, objects>>
        \/ /\ d.key \notin compactor.skip
           /\ "applied" \in DelFaults
           /\ compactor' = [compactor EXCEPT !.left = @ \ {d}, !.skip = SkippedAfter(d)]
           /\ RemoveRow(d)
  /\ UNCHANGED <<now, current, written, record, histories, requests, compacted, ranger>>

\* The iterator breaks off: the worker starts its snapshot again, and what it
\* skips stays; after MaxTries the scan of the range ends.
CompactRetry ==
  /\ compactor.step = "scan"
  /\ DelFaults # {}
  /\ compactor' = IF compactor.tries < MaxTries
                  THEN [compactor EXCEPT !.left = compactor.deletes, !.tries = @ + 1]
                  ELSE AtRange(compactor.rev, compactor.range + 1)
  /\ UNCHANGED <<now, storeVars, record, histories, requests, compacted, ranger>>

CompactRangeDone ==
  /\ compactor.step = "scan"
  /\ compactor.left = {}
  /\ compactor' = AtRange(compactor.rev, compactor.range + 1)
  /\ UNCHANGED <<now, storeVars, record, histories, requests, compacted, ranger>>

-----------------------------------------------------------------------------
(* Range.                                                                  *)

\* scan and rangeWithLimit take the snapshot first.
RangeSnapshot(rev) ==
  /\ ranger = Idle
  /\ ranger' = [step |-> "check", rev |-> rev, snap |-> objects]
  /\ UNCHANGED <<now, storeVars, compactVars>>

\* Mutant of Raced: off by one.
Raced_OffByOne(rev) == record > rev + 1

\* checkCompactRace of a read: its revision has already been compacted.
Raced(rev) == record > rev

\* checkCompactRace, then the workers read the snapshot.  The field recorded
\* notes for RangeExactIfRecorded whether the record was up to date.
RangeRead ==
  /\ ranger.step = "check"
  /\ ranger' = IF Raced(ranger.rev) THEN Idle
               ELSE [step |-> "done", rev |-> ranger.rev,
                     kvs |-> UNION {VisibleAt(ranger.snap, k, ranger.rev) : k \in Keys},
                     recorded |-> record >= compacted]
  /\ UNCHANGED <<now, storeVars, compactVars>>

RangeReturn ==
  /\ ranger.step = "done"
  /\ ranger' = Idle
  /\ UNCHANGED <<now, storeVars, compactVars>>

-----------------------------------------------------------------------------
Init ==
  /\ now = 0
  /\ current = 0
  /\ index = [k \in Keys |-> Absent]
  /\ objects = {}
  /\ written = [v \in {} |-> 0]
  /\ record = 0
  /\ histories = <<>>
  /\ compactor = Idle
  /\ requests = 0
  /\ compacted = 0
  /\ ranger = Idle

Next ==
  \/ \E k \in Keys, del \in BOOLEAN : Write(k, del)
  \/ Tick
  \/ \E rev \in 1 .. current : CompactBegin(rev)
  \/ SetCompactRecord
  \/ CompactSnapshot
  \/ CompactPut
  \/ CompactDelete
  \/ CompactRetry
  \/ CompactRangeDone
  \/ \E rev \in 1 .. current : RangeSnapshot(rev)
  \/ RangeRead
  \/ RangeReturn

Spec == Init /\ [][Next]_vars

-----------------------------------------------------------------------------
(* Properties.                                                             *)

Versions == [key : Keys, rev : 1 .. MaxRevision, del : BOOLEAN]
Indexes == [Keys -> [rev : 0 .. MaxRevision, del : BOOLEAN]]
Deletions == [key : Keys, at : 0 .. MaxRevision, rev : 0 .. MaxRevision, del : BOOLEAN]
Compactors ==
  {Idle}
    \cup [step : {"record"}, rev : 1 .. MaxRevision, seen : 0 .. MaxRevision]
    \cup [step : {"range"}, rev : 1 .. MaxRevision, range : DOMAIN Ranges]
    \cup [step : {"put"}, rev : 1 .. MaxRevision, range : DOMAIN Ranges,
          snap : [index : Indexes, objects : SUBSET Versions]]
    \cup [step : {"scan"}, rev : 1 .. MaxRevision, range : DOMAIN Ranges,
          deletes : SUBSET Deletions, left : SUBSET Deletions, skip : SUBSET Keys,
          tries : Nat]
Rangers ==
  {Idle}
    \cup [step : {"check"}, rev : 1 .. MaxRevision, snap : SUBSET Versions]
    \cup [step : {"done"}, rev : 1 .. MaxRevision, kvs : SUBSET Versions,
          recorded : BOOLEAN]

\* The variables have their types, and the rows in the store were written
\* (rows are only ever deleted by scanner.go, never changed).
TypeOK ==
  /\ now \in 0 .. MaxClock
  /\ current \in 0 .. MaxRevision
  /\ index \in Indexes
  /\ DOMAIN written \subseteq Versions
  /\ written \in [DOMAIN written -> 0 .. now]
  /\ objects \subseteq DOMAIN written
  /\ record \in 0 .. current
  /\ histories \in Seq([rev : 1 .. current, time : 0 .. now])
  /\ compactor \in Compactors
  /\ requests \in 0 .. MaxCompactions
  /\ compacted \in 0 .. current
  /\ ranger \in Rangers

\* An event that may be missing at the revision r: what was visible then has
\* lived for its TTL.
MayBeGone(k, r) ==
  /\ k \in Events
  /\ \A v \in VisibleAt(DOMAIN written, k, r) : now - written[v] >= TTL

\* Compaction (worker.run) is invisible to reads at or above its revision,
\* whatever deletions failed and however often it was started again: no live
\* version is lost, no deleted key comes back, no event goes before its TTL.
CompactionInvisible ==
  \A k \in Keys, r \in compacted .. current :
    \/ VisibleAt(objects, k, r) = VisibleAt(DOMAIN written, k, r)
    \/ VisibleAt(objects, k, r) = {} /\ MayBeGone(k, r)

\* The index row of a key names its newest version, and is only missing when
\* that is a deletion or an expired event: compaction (compactCurrent) never
\* takes away the index row of a key that was written again.
IndexNamesNewest ==
  \A k \in Keys : \A v \in NewestAt(DOMAIN written, k, current) :
    \/ index[k] = [rev |-> v.rev, del |-> v.del]
    \/ index[k] = Absent /\ (v.del \/ (k \in Events /\ now - written[v] >= TTL))

\* What a range read returned is what was visible at its revision, but for
\* expired events.
ReturnedExactly ==
  \A k \in Keys :
    LET kvs == VersionsOf(ranger.kvs, k) IN
    \/ kvs = VisibleAt(DOMAIN written, k, ranger.rev)
    \/ kvs = {} /\ MayBeGone(k, ranger.rev)

\* While the compact record is not behind the deletions, a range read that
\* succeeds is exact: with its snapshot taken before checkCompactRace it needs
\* no lock against a compaction that starts, runs or ends meanwhile.
RangeExactIfRecorded ==
  ranger.step = "done" /\ ranger.recorded => ReturnedExactly

\* What the comment on checkCompactRace (scanner.go:593) promises: a range
\* read and compaction never conflict.
RangeExact == ranger.step = "done" => ReturnedExactly
==============================================================================
