------------------------------ MODULE RangeScan ------------------------------
(***************************************************************************)
(* How a range read is carried out on the rows of the engine: the internal *)
(* keys (coder/normal.go), the partitions of the store and their borders,  *)
(* the workers that scan one partition each and start again when the       *)
(* iterator breaks off (scanner/scanner.go), the receivers that put their  *)
(* results together (scanner/receiver.go), and List, Count, GetPartitions  *)
(* and ListByStream on top (range.go).                                     *)
(*                                                                         *)
(* Keys are sequences of bytes, since their order is what this is about.   *)
(* The magic bytes all internal keys begin with are left out, and a        *)
(* revision takes one byte: big-endian numbers are ordered as the numbers. *)
(* The scan works on a snapshot; compaction is the matter of Scanner.      *)
(***************************************************************************)
EXTENDS Integers, Sequences, FiniteSets, FiniteSetsExt, SequencesExt

CONSTANTS
  UserKeys,              \* raw keys, all of bytes above Split
  Split,                 \* splitByte
  Bounds,                \* the raw keys a range may begin or end at
  Borders,               \* internal keys at which a region of the store may end
  Limits,                \* limits of a List, above 0
  StreamBatch,           \* rangeStreamBatch
  MaxTries,              \* scanBackoffSteps
  MaxBorders,            \* bound: the number of regions less one
  MaxRevision            \* bound: the number of writes

RangeScanAssumption ==
  /\ {UserKeys, Bounds} \subseteq SUBSET Seq(Nat)
  /\ Borders \subseteq Seq(Nat)
  /\ Limits \subseteq Nat \ {0}
  /\ {StreamBatch, MaxTries} \subseteq Nat \ {0}
  /\ \A k \in UserKeys : \A i \in DOMAIN k : k[i] > Split

VARIABLES
  written,               \* the versions: revision -> [key, live]
  borders,               \* where the regions of the store end
  scan                   \* the request in progress

vars == <<written, borders, scan>>

Idle == [of |-> "none"]

-----------------------------------------------------------------------------
(* Internal keys.                                                          *)

\* bytes.Compare
Less(a, b) ==
  \/ IsStrictPrefix(a, b)
  \/ \E i \in 1 .. Min({Len(a), Len(b)}) :
       a[i] < b[i] /\ SubSeq(a, 1, i - 1) = SubSeq(b, 1, i - 1)

EncodeObjectKey(k, rev) == k \o <<Split, rev>>
EncodeRevisionKey(k) == EncodeObjectKey(k, 0)

\* Decode: an error, or the raw key and the revision.
Decodable(x) == Len(x) > 2 /\ x[Len(x) - 1] = Split
RawKey(x) == SubSeq(x, 1, Len(x) - 2)
Revision(x) == Last(x)

Within(x, p) == ~Less(x, p.start) /\ Less(x, p.end)

\* The index row of a key, and one row per version.
Rows ==
  {[key |-> EncodeRevisionKey(written[r].key), live |-> TRUE] : r \in DOMAIN written}
    \cup {[key |-> EncodeObjectKey(written[r].key, r), live |-> written[r].live] :
            r \in DOMAIN written}

\* The iterator over a partition.  It runs backwards when the end is below the
\* start, and does not compare the first row it comes to with the end (tikv).
Iter(p) ==
  IF ~Less(p.end, p.start)
  THEN SetToSortSeq({row \in Rows : Within(row.key, p)}, LAMBDA a, b : Less(a.key, b.key))
  ELSE LET back == SetToSortSeq({row \in Rows : ~Less(p.start, row.key)},
                                LAMBDA a, b : Less(b.key, a.key))
           past == SelectInSeq(Tail(back), LAMBDA row : ~Less(p.end, row.key))
       IN IF back = <<>> \/ past = 0 THEN back ELSE SubSeq(back, 1, past)

-----------------------------------------------------------------------------
(* Partitions.                                                             *)

\* GetPartitions of the store: the regions, cut to the range.
GetPartitions(start, end) ==
  LET cuts == {b \in borders : Less(start, b) /\ Less(b, end)}
      ends == Append(SetToSortSeq(cuts, Less), end)
  IN [i \in DOMAIN ends |-> [start |-> IF i = 1 THEN start ELSE ends[i - 1], end |-> ends[i]]]

\* Mutant of AdjustedEnd: the border stays where it is.
AdjustedEnd_Keep(x) == x

\* A border between two versions of a key moves before the first of them.
AdjustedEnd(x) ==
  IF Decodable(x) /\ Revision(x) # 0 THEN EncodeRevisionKey(RawKey(x)) ELSE x

\* adjustPartitionsBorders: the outer borders stay, the others fit together.
adjustPartitionsBorders(ps) ==
  LET end(i) == IF i = Len(ps) THEN ps[i].end ELSE AdjustedEnd(ps[i].end)
  IN [i \in DOMAIN ps |-> [start |-> IF i = 1 THEN ps[i].start ELSE end(i - 1), end |-> end(i)]]

-----------------------------------------------------------------------------
(* worker.run without compaction.                                          *)

NoRow == [key |-> <<>>, rev |-> 0, live |-> FALSE]

\* needMore of a receiver; limit 0 is none.
NeedMore(limit, kvs) == limit = 0 \/ Len(kvs) < limit

\* The newest version of the key left behind is a result unless it is a deletion.
Result(acc) ==
  IF acc.prev.rev > 0 /\ acc.prev.live
  THEN Append(acc.kvs, <<acc.prev.key, acc.prev.rev>>) ELSE acc.kvs

\* One turn of the loop: acc has the row before this one and the results so far.
Visit(acc, row, rev, limit) ==
  IF ~NeedMore(limit, acc.kvs) \/ Revision(row.key) > rev THEN acc
  ELSE [prev |-> [key |-> RawKey(row.key), rev |-> Revision(row.key), live |-> row.live],
        kvs |-> IF RawKey(row.key) # acc.prev.key THEN Result(acc) ELSE acc.kvs]

VisitAll(rows, rev, limit) ==
  FoldLeft(LAMBDA acc, row : Visit(acc, row, rev, limit), [prev |-> NoRow, kvs |-> <<>>], rows)

\* The results of a partition.
Run(p, rev, limit) ==
  LET acc == VisitAll(Iter(p), rev, limit) IN
  IF NeedMore(limit, acc.kvs) THEN Result(acc) ELSE acc.kvs

\* The results when the iterator breaks off after n rows.
RunBroken(p, rev, n) == VisitAll(SubSeq(Iter(p), 1, n), rev, 0).kvs

-----------------------------------------------------------------------------
(* Writes, regions and requests.                                           *)

NewestAt(k, rev) == Max({0} \cup {r \in DOMAIN written : r <= rev /\ written[r].key = k})
LiveAt(k, rev) == NewestAt(k, rev) # 0 /\ written[NewestAt(k, rev)].live

Write(k, live) ==
  /\ scan = Idle
  /\ Len(written) < MaxRevision
  /\ ~live => LiveAt(k, Len(written))
  /\ written' = Append(written, [key |-> k, live |-> live])
  /\ UNCHANGED <<borders, scan>>

\* The store splits a region; it may do so between two versions of a key.
SplitRegion(b) ==
  /\ scan = Idle
  /\ Cardinality(borders) < MaxBorders
  /\ borders' = borders \cup {b}
  /\ UNCHANGED <<written, scan>>

NewWorker == [step |-> "run", tries |-> 0, kvs |-> <<>>]

\* scan: one worker for each partition, all on the same snapshot.
Begin(of, start, end, rev, limit) ==
  LET ps == IF limit > 0 THEN <<[start |-> start, end |-> end]>>
            ELSE adjustPartitionsBorders(GetPartitions(start, end))
  IN scan' = [of |-> of, start |-> start, end |-> end, rev |-> rev, limit |-> limit,
              parts |-> ps, worker |-> [i \in DOMAIN ps |-> NewWorker], stream |-> <<>>]

\* List, with a limit or without, and Count.  List asks for one more than the
\* limit, and rangeWithLimit scans the range as one partition.  Count is that of
\* EnableEtcdCompatibility; without it the answer is 0 and nothing is scanned.
List(start, end, rev, limit) ==
  /\ scan = Idle
  /\ Less(start, end)
  /\ Begin(IF limit > 0 THEN "page" ELSE "list", EncodeRevisionKey(start),
           EncodeRevisionKey(end), rev, IF limit > 0 THEN limit + 1 ELSE 0)
  /\ UNCHANGED <<written, borders>>

Count(start, end) ==
  /\ scan = Idle
  /\ Less(start, end)
  /\ Begin("count", EncodeRevisionKey(start), EncodeRevisionKey(end), Len(written), 0)
  /\ UNCHANGED <<written, borders>>

\* ListByStream of a partition as GetPartitions has told it to the client, when
\* some of the regions may still have been one: the borders are internal keys and
\* nobody has adjusted them.
ListByStream(start, end, rev) ==
  /\ scan = Idle
  /\ Less(start, end)
  /\ LET ps == GetPartitions(EncodeRevisionKey(start), EncodeRevisionKey(end)) IN
     \E i, j \in DOMAIN ps : i <= j /\ Begin("stream", ps[i].start, ps[j].end, rev, 0)
  /\ UNCHANGED <<written, borders>>

-----------------------------------------------------------------------------
(* The workers.                                                            *)

Working(i) == scan # Idle /\ i \in DOMAIN scan.parts /\ scan.worker[i].step = "run"

\* Mutant of Sent: what does not fill a batch is not sent at the end.
Sent_NoFlush(kvs, done) == SubSeq(kvs, 1, (Len(kvs) \div StreamBatch) * StreamBatch)

\* What a stream receiver has sent: all at the end of a run, before that full
\* batches.  Which worker's batch comes first does not matter to the client.
Sent(kvs, done) ==
  IF done THEN kvs ELSE SubSeq(kvs, 1, (Len(kvs) \div StreamBatch) * StreamBatch)

Emit(kvs, done) == IF scan.of = "stream" THEN scan.stream \o Sent(kvs, done) ELSE <<>>

WorkerDone(i) ==
  LET kvs == Run(scan.parts[i], scan.rev, scan.limit) IN
  /\ Working(i)
  /\ scan' = [scan EXCEPT !.worker[i] = [step |-> "done", tries |-> 0, kvs |-> kvs],
                          !.stream = Emit(kvs, TRUE)]
  /\ UNCHANGED <<written, borders>>

\* The iterator breaks off after n rows, which makes a difference to a stream
\* only; the receiver forgets what it has not sent.  rangeWithLimit does not try
\* again, the workers do.
WorkerBroken(i, n) ==
  /\ Working(i)
  /\ n \in 0 .. IF scan.of = "stream" THEN Len(Iter(scan.parts[i])) ELSE 0
  /\ scan' = [scan EXCEPT
       !.worker[i] = IF scan.limit > 0 \/ @.tries + 1 = MaxTries
                     THEN [NewWorker EXCEPT !.step = "failed"]
                     ELSE [@ EXCEPT !.tries = @ + 1],
       !.stream = Emit(RunBroken(scan.parts[i], scan.rev, n), FALSE)]
  /\ UNCHANGED <<written, borders>>

\* merge in the order of the partitions; then the answer goes to the client.
Return ==
  /\ scan # Idle
  /\ \A i \in DOMAIN scan.worker : scan.worker[i].step # "run"
  /\ scan' = Idle
  /\ UNCHANGED <<written, borders>>

-----------------------------------------------------------------------------
Init ==
  /\ written = <<>>
  /\ borders = {}
  /\ scan = Idle

Revisions == 1 .. Len(written)

Next ==
  \/ \E k \in UserKeys, live \in BOOLEAN : Write(k, live)
  \/ \E b \in Borders : SplitRegion(b)
  \/ \E start, end \in Bounds :
       \/ \E rev \in Revisions, limit \in {0} \cup Limits : List(start, end, rev, limit)
       \/ Count(start, end)
       \/ \E rev \in Revisions : ListByStream(start, end, rev)
  \/ \E i \in 1 .. (MaxBorders + 1) :
       WorkerDone(i) \/ \E n \in 0 .. 2 * MaxRevision : WorkerBroken(i, n)
  \/ Return

Spec == Init /\ [][Next]_vars

-----------------------------------------------------------------------------
(* Properties.                                                             *)

\* The workers have all ended, none with an error.
Succeeded == scan # Idle /\ \A i \in DOMAIN scan.worker : scan.worker[i].step = "done"

Merged == FlattenSeq([i \in DOMAIN scan.worker |-> scan.worker[i].kvs])

\* The reference: the keys of the raw range that are live at the revision, in
\* the order of the raw keys.
Expected ==
  LET raw == [start |-> RawKey(scan.start), end |-> RawKey(scan.end)]
      ks == {k \in UserKeys : Within(k, raw) /\ LiveAt(k, scan.rev)}
  IN LET sorted == SetToSortSeq(ks, Less) IN
     [i \in DOMAIN sorted |-> <<sorted[i], NewestAt(sorted[i], scan.rev)>>]

\* A border between two versions of a key.
Cuts(x) == Decodable(x) /\ Revision(x) # 0

\* The variables have their types, and the partitions of a scan make up its
\* range without gap or overlap, unless it begins between the versions of a key.
TypeOK ==
  /\ written \in Seq([key : UserKeys, live : BOOLEAN])
  /\ borders \subseteq Borders
  /\ scan.of \in {"none", "list", "page", "count", "stream"}
  /\ scan # Idle =>
       /\ scan.parts[1].start = scan.start
       /\ Last(scan.parts).end = scan.end
       /\ \A i \in 2 .. Len(scan.parts) : scan.parts[i].start = scan.parts[i - 1].end
       /\ \A i \in DOMAIN scan.parts :
            /\ ~Cuts(scan.start) => ~Less(scan.parts[i].end, scan.parts[i].start)
            /\ scan.worker[i].tries \in 0 .. MaxTries

\* A List or Count that succeeds has each key of the range that is live at the
\* revision, once and in order, wherever the regions of the store end and
\* however often a worker began again (adjustPartitionsBorders "to avoid object
\* keys generated from an internal key are scanned by multiple workers"); with a
\* limit it has the first of them, and one more exactly when there is more.
ListExact ==
  Succeeded /\ scan.of # "stream" =>
    Merged = IF scan.limit = 0 THEN Expected
             ELSE SubSeq(Expected, 1, Min({scan.limit, Len(Expected)}))

\* A stream that ends without error has brought every visible version whose row
\* lies in its part of the range, so that the streams of all parts miss nothing;
\* and it has brought nothing else, though some of it twice, when its ends do not
\* cut through the versions of a key (streamResultReceiver: append, flush, reset).
StreamCovers ==
  Succeeded /\ scan.of = "stream" =>
    LET visible == {<<k, NewestAt(k, scan.rev)>> : k \in {j \in UserKeys : LiveAt(j, scan.rev)}}
        here == {v \in visible : Within(EncodeObjectKey(v[1], v[2]), scan)}
    IN /\ here \subseteq Range(scan.stream)
       /\ ~Cuts(scan.start) /\ ~Cuts(scan.end) => here = Range(scan.stream)
==============================================================================
