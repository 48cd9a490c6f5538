------------------------------ MODULE WritePath ------------------------------
(***************************************************************************)
(* The write path of a leader: Create, Update and Delete of the backend    *)
(* (txn.go, creator/naive.go) against a storage engine whose commits may   *)
(* return an uncertain result, the ring and the collector of EventRing,    *)
(* the asynchronous retry queue that repairs uncertain writes (retry/),    *)
(* the choice of the revision to compact (compact.go), and a client that   *)
(* lists and then follows the watch events.                                *)
(*                                                                         *)
(* A key has an index entry (its latest revision, with a deletion flag)    *)
(* and object versions; both change in one storage batch, by compare and   *)
(* swap on the index.  The value of a version is the revision dealt to the *)
(* request that brought it, or Tombstone.                                  *)
(***************************************************************************)
EXTENDS EventRing, Sequences, FiniteSetsExt

CONSTANTS
  Keys,
  Writers,               \* concurrent client requests
  StartRevision,         \* the version the leader got with its lease
  MaxRevision,           \* bound: no revision above it is dealt
  Ahead,                 \* how far ahead of the clock a client may be
  WriteFaults,           \* what a client's commit may suffer
  RewriteFaults,         \* what the commit of the retry loop may suffer
  CompactRequests        \* the revisions Compact is asked for

\* "limbo": the commit returns an uncertain result and takes effect later or
\* never; "applied": it returns one and has taken effect; "error": it fails.
Faults == {"limbo", "applied", "error"}

ASSUME WritePathAssumption ==
  /\ StartRevision \in Nat \ {0}
  /\ MaxRevision \in Nat /\ StartRevision <= MaxRevision
  /\ Ahead \in SUBSET Nat
  /\ WriteFaults \in SUBSET Faults
  /\ RewriteFaults \in SUBSET Faults
  /\ CompactRequests \in SUBSET (Nat \ {0})

VARIABLES
  index,                 \* key -> [rev, del]; Absent when there is none
  objects,               \* key -> set of versions [rev, val]
  limbo,                 \* batches whose outcome the engine has not settled
  writer,                \* the requests in progress
  retryQueue,            \* asyncFifoRetry: uncertain events, oldest first
  retrier,               \* the goroutine draining it
  compactor,             \* the Compact request in progress
  view                   \* what a client that lists and watches knows

storeVars == <<index, objects, limbo>>
retryVars == <<retryQueue, retrier>>
vars == <<ringVars, storeVars, writer, retryVars, compactor, view>>

Tombstone == 0
Absent == [rev |-> 0, del |-> FALSE]
NoVersion == [rev |-> 0, val |-> Tombstone]
Idle == [step |-> "idle"]

-----------------------------------------------------------------------------
(* The storage engine, as the backend uses it.                             *)

\* The newest version of a key not above r, as the iterator of getInternalVal
\* finds it.
LatestAt(k, r) ==
  LET below == {o \in objects[k] : o.rev <= r} IN
  IF below = {} THEN NoVersion
  ELSE CHOOSE o \in below : \A p \in below : p.rev <= o.rev

Latest(k) == LatestAt(k, dealRevision)

\* A batch moves the index of a key from one entry to the one of a new version
\* and puts that version.
Batch(k, from, rev, val) == [key |-> k, from |-> from, rev |-> rev, val |-> val]

Matches(b) == index[b.key] = b.from

\* Mutant of Apply: the index of a deleted key lacks the deletion flag.
Apply_NoFlag(b) ==
  /\ index' = [index EXCEPT ![b.key] = [rev |-> b.rev, del |-> FALSE]]
  /\ objects' = [objects EXCEPT ![b.key] = @ \cup {[rev |-> b.rev, val |-> b.val]}]

Apply(b) ==
  /\ index' = [index EXCEPT ![b.key] = [rev |-> b.rev, del |-> b.val = Tombstone]]
  /\ objects' = [objects EXCEPT ![b.key] = @ \cup {[rev |-> b.rev, val |-> b.val]}]

\* BatchWrite.Commit; res is what the caller learns.
Commit(b, faults, res) ==
  \/ res = "ok" /\ Matches(b) /\ Apply(b) /\ UNCHANGED limbo
  \/ res = "failed" /\ (~Matches(b) \/ "error" \in faults) /\ UNCHANGED storeVars
  \/ res = "uncertain" /\ "limbo" \in faults
       /\ limbo' = limbo \cup {b} /\ UNCHANGED <<index, objects>>
  \/ res = "uncertain" /\ "applied" \in faults
       /\ Matches(b) /\ Apply(b) /\ UNCHANGED limbo

\* The engine settles a batch whose commit returned an uncertain result.
Settle(b) ==
  /\ ~panicked
  /\ b \in limbo
  /\ limbo' = limbo \ {b}
  /\ \/ Matches(b) /\ Apply(b)
     \/ UNCHANGED <<index, objects>>
  /\ UNCHANGED <<ringVars, writer, retryVars, compactor, view>>

-----------------------------------------------------------------------------
(* The requests of clients.  A request that was dealt a revision holds the  *)
(* batch it tries to commit.                                                *)

Request(step, batch) == [step |-> step, batch |-> batch, result |-> "failed"]

Live(rev) == [rev |-> rev, del |-> FALSE]

\* The revisions a client may send for a key: one it read, or one ahead of
\* this leader's clock.
KnownRevisions(k) ==
  {o.rev : o \in objects[k]} \cup {dealRevision + d : d \in Ahead}

\* deal reports ErrRevisionDriftBack.
DriftBack(prev) == dealRevision + 1 < prev

Begin(w, q) ==
  /\ ~panicked
  /\ dealRevision < MaxRevision
  /\ TSODeal
  /\ writer' = [writer EXCEPT ![w] = q]
  /\ UNCHANGED <<committedRevision, ring, collector, panicked, storeVars, retryVars,
                 compactor, view>>

\* Create, and Update without a revision: a revision is dealt, then the
\* creator tries to put a key that does not exist.
Create(w, k) ==
  LET rev == dealRevision + 1 IN
  /\ writer[w].step = "idle"
  /\ Begin(w, Request("put", Batch(k, Absent, rev, rev)))

\* Update.  On a drift back revision 0 is returned, which notify ignores.
Update(w, k, prev) ==
  LET rev == dealRevision + 1 IN
  /\ writer[w].step = "idle"
  /\ Begin(w, IF DriftBack(prev) THEN Idle
              ELSE Request("commit", Batch(k, Live(prev), rev, rev)))

\* Delete, first half: the latest value is read.  A read that fails goes on
\* like one that finds nothing.
DeleteRead(w, k, prev) ==
  /\ ~panicked
  /\ writer[w].step = "idle"
  /\ \E old \in {Latest(k)} \cup (IF "error" \in WriteFaults THEN {NoVersion} ELSE {}) :
       writer' = [writer EXCEPT ![w] =
         [step |-> "read", key |-> k, prev |-> prev, old |-> old]]
  /\ UNCHANGED <<ringVars, storeVars, retryVars, compactor, view>>

\* Delete, second half: a revision is dealt (also when there is nothing to
\* delete) and the old revision compared with the one the client expects and
\* with the new one.
DeleteDeal(w) ==
  LET d == writer[w]
      rev == dealRevision + 1
      missing == d.old.val = Tombstone
      refused == missing \/ (d.prev > 0 /\ d.prev # d.old.rev) \/ rev <= d.old.rev
  IN
  /\ d.step = "read"
  /\ Begin(w, IF ~missing /\ DriftBack(d.prev) THEN Idle
              ELSE IF refused THEN Request("notify", Batch(d.key, Absent, rev, Tombstone))
              ELSE Request("commit", Batch(d.key, Live(d.old.rev), rev, Tombstone)))

\* The result of the request is final and goes to notify.
Finish(w, res) ==
  writer' = [writer EXCEPT ![w].step = "notify", ![w].result = res,
                           ![w].batch.from = Absent]

\* naiveCreator.create: PutIfNotExist.  On a conflict the index entry is
\* looked up; an engine that returns it with the conflict does so at once.
PutIfNotExist(w) ==
  LET b == writer[w].batch IN
  /\ ~panicked
  /\ writer[w].step = "put"
  /\ \E res \in Results :
       /\ Commit(b, WriteFaults, res)
       /\ \/ Finish(w, res) /\ (res = "failed" => "error" \in WriteFaults)
          \/ /\ res = "failed" /\ ~Matches(b)
             /\ writer' = [writer EXCEPT ![w].step = "lookup"]
  /\ UNCHANGED <<ringVars, retryVars, compactor, view>>

\* Mutant of Lookup: a tombstone is replaced even when it is newer.
Lookup_AnyTombstone(w) ==
  LET old == index[writer[w].batch.key]
      again == old = Absent \/ old.del
  IN
  /\ ~panicked
  /\ writer[w].step = "lookup"
  /\ \/ again /\ writer' = [writer EXCEPT ![w].step = "commit", ![w].batch.from = old]
     \/ (~again \/ "error" \in WriteFaults) /\ Finish(w, "failed")
  /\ UNCHANGED <<ringVars, storeVars, retryVars, compactor, view>>

\* naiveCreator.CreateWithTTL after a conflict: an older tombstone is
\* replaced, a vanished entry lets it create again, anything else (or a read
\* that fails) refuses the request.
Lookup(w) ==
  LET b == writer[w].batch
      old == index[b.key]
      again == old = Absent \/ (old.del /\ old.rev < b.rev)
  IN
  /\ ~panicked
  /\ writer[w].step = "lookup"
  /\ \/ again /\ writer' = [writer EXCEPT ![w].step = "commit", ![w].batch.from = old]
     \/ (~again \/ "error" \in WriteFaults) /\ Finish(w, "failed")
  /\ UNCHANGED <<ringVars, storeVars, retryVars, compactor, view>>

\* The last commit of a request; its result is final.
CommitWrite(w) ==
  /\ ~panicked
  /\ writer[w].step = "commit"
  /\ \E res \in Results : Commit(writer[w].batch, WriteFaults, res) /\ Finish(w, res)
  /\ UNCHANGED <<ringVars, retryVars, compactor, view>>

\* backend.notify.  The check and the store are one step here; Sequencer has
\* them apart.
HandIn(k, rev, val, res) ==
  IF BufferFull(rev)
  THEN panicked' = TRUE /\ UNCHANGED ring
  ELSE /\ StoreEvent([revision |-> rev, result |-> res, key |-> k, val |-> val])
       /\ UNCHANGED panicked

Notify(w) ==
  LET b == writer[w].batch IN
  /\ ~panicked
  /\ writer[w].step = "notify"
  /\ HandIn(b.key, b.rev, b.val, writer[w].result)
  /\ writer' = [writer EXCEPT ![w] = Idle]
  /\ UNCHANGED <<committedRevision, dealRevision, collector, storeVars, retryVars,
                 compactor, view>>

-----------------------------------------------------------------------------
(* The collector.  Sequencer has its accesses to the ring one by one; here  *)
(* it takes an event out of the ring in one step, and makes it known in a   *)
(* second one.                                                              *)

\* Mutant of Take: an uncertain event is dropped like a failed one.
Take_NoRetry ==
  LET e == ring[Slot(committedRevision + 1)] IN
  /\ ~panicked
  /\ collector.step = "load"
  /\ e # Nil
  /\ ring' = [ring EXCEPT ![Slot(e.revision)] = Nil]
  /\ collector' = [step |-> "commit", event |-> e]
  /\ UNCHANGED <<committedRevision, dealRevision, panicked, storeVars, writer, retryVars,
                 compactor, view>>

\* Load and clear of the slot of the next revision; an uncertain event is
\* appended to the retry queue before the revision advances.
Take ==
  LET e == ring[Slot(committedRevision + 1)] IN
  /\ ~panicked
  /\ collector.step = "load"
  /\ e # Nil
  /\ ring' = [ring EXCEPT ![Slot(e.revision)] = Nil]
  /\ collector' = [step |-> "commit", event |-> e]
  /\ retryQueue' = IF e.result = "uncertain" THEN Append(retryQueue, e) ELSE retryQueue
  /\ UNCHANGED <<committedRevision, dealRevision, panicked, storeVars, writer, retrier,
                 compactor, view>>

\* SetCurrentRevision, and the event of a successful write for the watchers.
Publish ==
  LET e == collector.event IN
  /\ ~panicked
  /\ collector.step = "commit"
  /\ TSOCommit(e.revision)
  /\ collector' = [step |-> "load", event |-> Nil]
  /\ view' = IF e.result = "ok" THEN [view EXCEPT ![e.key] = e.val] ELSE view
  /\ UNCHANGED <<ring, panicked, storeVars, writer, retryVars, compactor>>

-----------------------------------------------------------------------------
(* The retry loop.                                                         *)

\* overwrite, up to its commit.  The loop waits RetryInterval, after which the
\* outcome of the uncertain write is settled.  A head that is not the latest
\* version of its key needs no repair and is popped; otherwise a revision is
\* dealt for writing the same value again.
RetryRead ==
  LET u == Head(retryQueue)
      cur == Latest(u.key)
  IN
  /\ ~panicked
  /\ retrier.step = "idle"
  /\ retryQueue # <<>>
  /\ \A b \in limbo : b.rev # u.revision
  /\ IF cur.rev # u.revision
     THEN retryQueue' = Tail(retryQueue) /\ UNCHANGED <<dealRevision, retrier>>
     ELSE /\ dealRevision < MaxRevision
          /\ TSODeal
          /\ retrier' = [step |-> "commit", rev |-> dealRevision', val |-> cur.val]
          /\ UNCHANGED retryQueue
  /\ UNCHANGED <<committedRevision, ring, collector, panicked, storeVars, writer,
                 compactor, view>>

\* The commit of overwrite: the index moves from the uncertain revision to
\* the new one, with the deletion flag of the value.
RetryCommit ==
  LET u == Head(retryQueue)
      from == [rev |-> u.revision, del |-> retrier.val = Tombstone]
  IN
  /\ ~panicked
  /\ retrier.step = "commit"
  /\ \E res \in Results :
       /\ Commit(Batch(u.key, from, retrier.rev, retrier.val), RewriteFaults, res)
       /\ retrier' = [step |-> "dispatch", rev |-> retrier.rev, result |-> res]
  /\ UNCHANGED <<ringVars, writer, retryQueue, compactor, view>>

\* The dispatcher is backend.notify, with the new revision.
RetryDispatch ==
  LET u == Head(retryQueue) IN
  /\ ~panicked
  /\ retrier.step = "dispatch"
  /\ HandIn(u.key, retrier.rev, u.val, retrier.result)
  /\ retrier' = [step |-> "pop"]
  /\ UNCHANGED <<committedRevision, dealRevision, collector, storeVars, writer,
                 retryQueue, compactor, view>>

\* The head is popped, whatever the result of the rewrite.
RetryPop ==
  /\ ~panicked
  /\ retrier.step = "pop"
  /\ retryQueue' = Tail(retryQueue)
  /\ retrier' = Idle
  /\ UNCHANGED <<ringVars, storeVars, writer, compactor, view>>

-----------------------------------------------------------------------------
(* Compaction.                                                             *)

\* Compact: a revision above the committed one is lowered to it.
CompactRead(r) ==
  /\ ~panicked
  /\ compactor.step = "idle"
  /\ compactor' = [step |-> "bound", rev |-> Min({r, committedRevision})]
  /\ UNCHANGED <<ringVars, storeVars, writer, retryVars, view>>

\* Mutant of CompactBound: the head itself may be compacted.
CompactBound_Inclusive ==
  /\ ~panicked
  /\ compactor.step = "bound"
  /\ compactor' = [step |-> "scan",
       rev |-> IF retryQueue # <<>> THEN Min({Head(retryQueue).revision, compactor.rev})
               ELSE compactor.rev]
  /\ UNCHANGED <<ringVars, storeVars, writer, retryVars, view>>

\* Mutant of CompactBound: MinRevision of an empty queue, 0, is a bound too.
CompactBound_EmptyQueue ==
  LET least == IF retryQueue # <<>> THEN Head(retryQueue).revision ELSE 0 IN
  /\ ~panicked
  /\ compactor.step = "bound"
  /\ compactor' = [step |-> "scan", rev |-> Min({least - 1, compactor.rev})]
  /\ UNCHANGED <<ringVars, storeVars, writer, retryVars, view>>

\* The revision stays below the head of the retry queue.
CompactBound ==
  /\ ~panicked
  /\ compactor.step = "bound"
  /\ compactor' = [step |-> "scan",
       rev |-> IF retryQueue # <<>> THEN Min({Head(retryQueue).revision - 1, compactor.rev})
               ELSE compactor.rev]
  /\ UNCHANGED <<ringVars, storeVars, writer, retryVars, view>>

\* Mutant of Kept: only the newest version of all survives next to those
\* above r.
Kept_NewestOnly(k, r) ==
  {o \in objects[k] : o.rev > r \/ (o = Latest(k) /\ o.val # Tombstone)}

\* What compaction at r keeps of a key: the versions above r, and the newest
\* one not above r unless it is a tombstone.
Kept(k, r) ==
  {o \in objects[k] : o.rev > r \/ (o = LatestAt(k, r) /\ o.val # Tombstone)}

\* The scan, taken as one step: versions and deleted index entries go.
CompactScan ==
  LET r == compactor.rev IN
  /\ ~panicked
  /\ compactor.step = "scan"
  /\ objects' = [k \in Keys |-> Kept(k, r)]
  /\ index' = [k \in Keys |-> IF index[k].del /\ index[k].rev <= r THEN Absent
                              ELSE index[k]]
  /\ compactor' = Idle
  /\ UNCHANGED <<ringVars, limbo, writer, retryVars, view>>

-----------------------------------------------------------------------------

ViewAt(r) == [k \in Keys |-> LatestAt(k, r).val]

\* The client lists at the committed revision; from there on it follows the
\* events.
List ==
  /\ ~panicked
  /\ view' = ViewAt(committedRevision)
  /\ UNCHANGED <<ringVars, storeVars, writer, retryVars, compactor>>

\* A key starts absent, alive or deleted at the start revision.
Init ==
  /\ RingInit(StartRevision)
  /\ \E there \in SUBSET Keys, alive \in SUBSET Keys :
       LET val(k) == IF k \in alive THEN StartRevision ELSE Tombstone IN
       /\ alive \subseteq there
       /\ index = [k \in Keys |->
            IF k \in there THEN [rev |-> StartRevision, del |-> k \notin alive] ELSE Absent]
       /\ objects = [k \in Keys |->
            IF k \in there THEN {[rev |-> StartRevision, val |-> val(k)]} ELSE {}]
       /\ view = [k \in Keys |-> val(k)]
  /\ limbo = {}
  /\ writer = [w \in Writers |-> Idle]
  /\ retryQueue = <<>>
  /\ retrier = Idle
  /\ compactor = Idle

Next ==
  \/ \E w \in Writers, k \in Keys : Create(w, k)
  \/ \E w \in Writers, k \in Keys : \E prev \in KnownRevisions(k) : Update(w, k, prev)
  \/ \E w \in Writers, k \in Keys : \E prev \in KnownRevisions(k) \cup {0} :
       DeleteRead(w, k, prev)
  \/ \E w \in Writers : DeleteDeal(w)
  \/ \E w \in Writers : PutIfNotExist(w)
  \/ \E w \in Writers : Lookup(w)
  \/ \E w \in Writers : CommitWrite(w)
  \/ \E w \in Writers : Notify(w)
  \/ \E b \in limbo : Settle(b)
  \/ Take
  \/ Publish
  \/ RetryRead
  \/ RetryCommit
  \/ RetryDispatch
  \/ RetryPop
  \/ \E r \in CompactRequests : CompactRead(r)
  \/ CompactBound
  \/ CompactScan
  \/ List

Spec == Init /\ [][Next]_vars

-----------------------------------------------------------------------------
(* Properties.                                                             *)

Revisions == 1 .. MaxRevision
Values == Revisions \cup {Tombstone}
Versions == [rev : Revisions, val : Values]
Entries == [rev : Revisions, del : BOOLEAN] \cup {Absent}
Batches == [key : Keys, from : [rev : Nat, del : BOOLEAN], rev : Revisions, val : Values]
Events == [revision : Revisions, result : Results, key : Keys, val : Values]
Deletes == [step : {"read"}, key : Keys, prev : Nat, old : Versions \cup {NoVersion}]
Requests == [step : {"put", "lookup", "commit", "notify"}, batch : Batches, result : Results]
Retriers ==
  {Idle, [step |-> "pop"]}
    \cup [step : {"commit"}, rev : Revisions, val : Values]
    \cup [step : {"dispatch"}, rev : Revisions, result : Results]

\* The variables have their types.
TypeOK ==
  /\ committedRevision \in Nat
  /\ dealRevision \in StartRevision .. MaxRevision
  /\ ring \in [Slots -> Events \cup {Nil}]
  /\ collector \in [step : {"load", "commit"}, event : Events \cup {Nil}]
  /\ panicked \in BOOLEAN
  /\ index \in [Keys -> Entries]
  /\ objects \in [Keys -> SUBSET Versions]
  /\ view \in [Keys -> Values]
  /\ limbo \subseteq Batches
  /\ writer \in [Writers -> {Idle} \cup Deletes \cup Requests]
  /\ retryQueue \in Seq(Events)
  /\ retrier \in Retriers
  /\ compactor \in {Idle} \cup [step : {"bound", "scan"}, rev : Nat]

\* The index entry of a key and its versions never disagree: the entry names
\* the newest version and says whether that is a tombstone, and it is missing
\* only with the last version (the batches of creator and txn, the rewrite of
\* the retry loop, compaction).
IndexIsLatest ==
  \A k \in Keys :
    index[k] = IF objects[k] = {} THEN Absent
               ELSE [rev |-> Latest(k).rev, del |-> Latest(k).val = Tombstone]

\* The revision of a key never goes back: neither a slow request, nor a batch
\* that takes effect late, nor a rewrite puts a version below one that is
\* there or below a compaction that may have removed one.
VersionsAscend ==
  [][\A k \in Keys : \A o \in objects'[k] \ objects[k] :
       /\ \A p \in objects[k] : p.rev < o.rev
       /\ compactor.step = "scan" => compactor.rev < o.rev]_vars

\* An uncertain write of the key may still surface: its event is on its way
\* to the retry queue, or in it, or being rewritten.
Pending(k) ==
  \/ \E w \in Writers : writer[w].step = "notify" /\ writer[w].result = "uncertain"
                          /\ writer[w].batch.key = k
  \/ \E s \in Slots : ring[s] # Nil /\ ring[s].result = "uncertain" /\ ring[s].key = k
  \/ collector.step = "commit" /\ collector.event.key = k
  \/ \E i \in DOMAIN retryQueue : retryQueue[i].key = k

\* A client that lists and follows the events knows the present value of every
\* key whose newest version is committed and of which no uncertain write is
\* pending: no successful or late change escapes the watchers (notify,
\* collectStorageWriteEvents and the retry loop together).
ViewInSync ==
  \A k \in Keys :
    ~Pending(k) /\ Latest(k).rev <= committedRevision => view[k] = Latest(k).val

\* Compact stays below every write whose outcome is open: the revision it
\* scans with is below each uncertain event queued and each batch in limbo.
CompactBelowUncertain ==
  compactor.step = "scan" =>
    /\ \A i \in DOMAIN retryQueue : compactor.rev < retryQueue[i].revision
    /\ \A b \in limbo : compactor.rev < b.rev

\* A read at a committed revision is repeatable: its result only changes by
\* an uncertain write at or below it, or is given up by a compaction above it.
ReadsRepeatable ==
  [][\A k \in Keys, r \in StartRevision .. committedRevision :
       \/ \E b \in limbo : b.key = k /\ b.rev <= r
       \/ compactor.step = "scan" /\ compactor'.step # "scan" /\ compactor.rev > r
       \/ LatestAt(k, r)'.val = LatestAt(k, r).val]_vars
=============================================================================
