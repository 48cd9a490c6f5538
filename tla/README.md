# KubeBrain in TLA+

KubeBrain serves the etcd API that Kubernetes needs on top of a key-value store
with transactions. One node, the leader, takes all writes: it numbers them with a
logical clock, stores every version of a key beside an index entry, publishes the
successful writes as watch events in revision order, repairs writes whose outcome
the store did not tell, and compacts old versions. Followers serve reads and
forward the rest.

This directory holds TLA+ modules translated from the Go source, TLC configurations
that check them on small instances, and proofs checked by TLAPS. `PROJECT.json`
maps every definition to the lines it models.

## The system and its modules

| Part | State | What makes it hard | Modules |
|---|---|---|---|
| sequencer (`tso.go`, `backend.go`, `notify` in `txn.go`) | dealt and committed revision, ring of results | results in any order, slots reused, unsigned subtraction, a wait for one particular revision | `EventRing`, `RevisionLog`, `Sequencer`, `EventsProofs` |
| write path (`txn.go`, `creator/`) | index and versions of a key | several storage calls per request, conflicts, uncertain commits, stale reads, clients ahead of the clock | `WritePath`, `WritePathProofs`, `EtcdKV`, `EtcdKVProofs` |
| retry queue (`retry/`) | FIFO of uncertain events | late effects, rewrites that fail themselves, race with compaction | `WritePath`, `WritePathProofs` |
| compaction (`compact.go`, `scanner/`) | compact record, history of compactions | several deletions that may fail, concurrent lists and creates, lower revision after a higher one | `WritePath`, `WritePathProofs`, `Scanner`, `ScannerProofs` |
| range reads (`range.go`, `scanner/`) | none of its own | snapshots against compaction, restarts of half a scan, borders inside a key | `Scanner`, `ScannerProofs`, `RangeScan`, `EtcdKV`, `EtcdKVProofs` |
| watch (`watch.go`, `watcherhub.go`, `ring.go`) | event cache, channels | joining cached and live events, full channels | `WatchCache`, `Watch`, `WatchProofs`, `CatchUp`, `EventsProofs` |
| key coder (`coder/`) | none | byte order equals (key, revision) order | `RangeScan` |
| election and leader service (`election/`, `service/leader/`) | lease record with a version, leader flag | fail-over, a leader that does not know its lease is over | `Leader`, `EngineProofs` |
| revision sync (`service/revision/`) | follower's committed revision | late answers, leader change between question and answer | `RevisionSync`, `RevisionSyncProofs` |
| etcd server (`server/etcd/`) | transactions, watch streams | answers read in a second step, pages, cancellation from three sides | `EtcdKV`, `EtcdKVProofs`, `EtcdWatch`, `EtcdServerProofs` |
| etcd proxy (`service/etcdproxy/`) | client connection under a lock | closing a client in use, finding a new leader | `EtcdProxy`, `EtcdServerProofs` |
| storage engines (`storage/`) | the data | one comparison per batch, uncertain results, TTL | `KvStore`, `KvEngine`, `EngineProofs` |
| brain server, endpoint, options, metrics | none relevant | see "Not modelled" | |

How the modules rely on each other. `KvEngine` shows that each engine is the store
`KvStore`; `WritePath` takes its batches as atomic, with uncertain results, and shows
that index and newest version agree; `EtcdKV` uses that and reduces a key to its
versions. `Sequencer` shows that revisions are committed one after the other, which
is how `Watch` begins. `Leader` shows that a new leader starts above all that was dealt,
on which `RevisionSync` and every start revision rely. `RangeScan` shows that a scan of a
snapshot returns what is visible in it, which is one step of `Scanner`.

* `EventRing` - state and steps shared by the two closed models below:
  `naiveTSO`, `watchEventsRingBuffer`, `notify`, and `collectStorageWriteEvents`
  with one operator per access to shared state.
* `RevisionLog` - what the sequencer promises: a write begins, its result becomes
  known, results are published in revision order without a gap.
* `Sequencer` - `EventRing` closed with abstract writers. `Deal` and
  `DealDriftBack` are `backend.deal`; `NotifyCheck` and `NotifyStore` the two halves
  of `notify`; `Load`, `Clear`, `AppendRetry`, `Commit`, `Publish` the collector.
  `dropped` is a history variable for the revisions given up after a drift back.
* `WritePath` - `EventRing` closed with the real writers. Each request is a small
  process: `Create` then `PutIfNotExist`, `Lookup`, `CommitWrite` (the creator);
  `Update` then `CommitWrite`; `DeleteRead`, `DeleteDeal`, `CommitWrite`; always
  `Notify` last. `Take` and `Publish` are the collector, with the accesses to the
  ring that `Sequencer` separates merged. `RetryRead`, `RetryCommit`,
  `RetryDispatch`, `RetryPop` are `retry` and `overwrite`. `CompactRead` and
  `CompactBound` are `Compact`, which reads the clock and the queue one after the
  other; `CompactScan` is the effect of the scan in one step. `view` is a client
  that lists (`List`) and then applies every published event.
  The store is `index` (a revision and a deletion flag) and `objects` (versions);
  `limbo` holds batches whose commit returned an uncertain result: `Settle` lets one
  take effect, if its comparison still holds, or never. Values are the revision
  of the request that brought them; verbs and previous values of events are left
  out, a deletion is the value `Tombstone`.
* `WatchCache` - `Ring` as operators on its value, with the array and the two
  running positions; `sort.Search` by its contract.
* `Watch` - the collector after the commit, the hub and `Watch`. An event is its
  revision; `WithPrefix` and `FilterByRevision` are the two filters a batch passes.
  `overrun` and `history` are history variables.
* `CatchUp` - `catchUpEvents`: how the cached events are cut into batches for a
  channel nobody reads yet. The events are only counted.
* `Scanner` - compaction and range reads over the rows of the store. A key has an
  `index` row and one row per version in `objects`. `CompactBegin` and
  `SetCompactRecord` are `Compact` and `setCompactRecord`; per range, `CompactSnapshot`
  logs the revision and takes the snapshot, `CompactPut` is `checkCompactRace`
  and `getTimeoutRevision`. `ScanDeletes` is the set of what `worker.run` deletes by the
  snapshot, each deletion with the row `at` which the iterator comes to it (a predecessor goes
  at the row of its successor); `Before` is the order of the iterator, and `CompactDelete`
  makes the first deletion that is left in the live store: it may fail, or take effect and report an error; `CompactRetry`
  is `runWithBackoffRetry`. `RangeSnapshot`, `RangeRead` and `RangeReturn` are a list.
  `Write` is the outcome of a successful request of `WritePath`; `written` keeps every
  version with its time, and `compacted` the revision whose deletions have begun.
* `RangeScan` - a range read on the rows of the engine. Internal keys are byte sequences
  (`EncodeObjectKey`, `Decode`, the order of `bytes.Compare`); the store is cut into
  regions at arbitrary borders, `adjustPartitionsBorders` moves them, one worker scans
  each partition and starts again when its iterator breaks off, and receivers join the
  results: `List` with and without a limit, `Count`, `GetPartitions` and `ListByStream`.
* `EtcdKV` - the KV service: which transactions are recognised, the request in the
  steps of the backend (put, look, commit, reread), `Get`, `List` and its pages, and
  the answer in the words of etcd. `seen` is a history variable: the kvs a key has been
  during a request.
* `EtcdWatch` - one watch stream: the receive loop, the map of watches, the goroutine of
  each watch and range stream, cancellation by the client, by the hub and by a broken
  stream, progress, and `Close`.
* `EtcdProxy` - `checkLeaderLoop` in the steps of `updateClient` with its lock, the
  client, the leader and the error it keeps, forwarded transactions and watches, against
  elections, unreachable peers and restarts.
* `KvStore` - what the backend relies on of an engine: a batch is committed at one moment
  at which its comparisons are true, or not at all, or uncertain.
* `KvEngine` - the batches of memkv (under its mutex), badger and tikv (on a snapshot, with
  the conflict check of the database), `DelCurrent` after an iterator, and the timers that
  implement a TTL in memkv. The two databases are external.
* `Leader` - the election key with its holder (`LockGet`, `LockUpdate`, and
  their failures), `OnStartedLeading` in the steps `StartStore`, `StartRaise` (the
  two halves of `naiveTSO.Commit`) and `StartFlag`, `Release` and the end of a process
  (`Crash`), and the revisions each leader deals. `Update` does not refresh
  `lastVal` and `record`, and neither does the model.
* `RevisionSync` - one node and its reads: `SyncBegin` joins or begins the shared fetch,
  `FlightAnswer`, `FlightFail` and `FlightReturn` are its life, `SyncStore` and
  `SyncRaise` store the answer, `Read` takes the revision the backend reads at.
  Around it the leader deals and commits, changes, or becomes this node.
* `MCEvents`, `MCScanner`, `MCEtcdServer`, `MCKvService` - for TLC, neighbouring parts that
  share no variable in one run. A variable `focus` is chosen at the start, and only the
  part in focus moves, so that each is explored by itself, over every interleaving of its
  own steps; the state space is the sum of the two or three, not the product.
  `MCWritePath` adds the symmetry of the requests.

A definition named `X_Y` before a definition `X` is a mutant of it: a plausible mistake
under which a property of a run no longer holds.

## Runs

| Run | Bounds | Question |
|---|---|---|
| `events` | ring of 3, revisions to 6; cache of 2, batches of 2, channel of 1; up to 40 cached events | panic only when full, refinement of `RevisionLog`, every revision committed unless one was given up; `FindEvents` against a reference, each event once and in order, delivery; the catch-up never blocks |
| `sequencer_driftback` | ring of 3, 3 revisions | violated: a revision burnt by a drift back stops the collector |
| `write_path` | 1 key, 2 requests, 3 revisions, uncertain and failing commits | index and versions agree, revisions ascend, the watching client is in sync |
| `write_path_compact` | 1 key, 1 request, retry loop, compaction, clients ahead of the clock | compaction below open writes, repeatable reads |
| `write_path_rewrite` | as above, rewrites may be uncertain without effect | violated: the event of the first write is lost |
| `watch_slow` | as `events` | violated: an event after a hole |
| `scanner` | a plain key and an event, 3 revisions, 2 compactions, 2 tries, failing deletions; 2 keys, 3 versions, up to 3 regions | compaction is invisible at and above its revision, the index is not lost, ranges are exact while the record is not behind; lists and pages exact, streams complete, wherever regions end |
| `scanner_regress` | 1 key, 2 ranges, no failures | violated: a second compaction with a lower revision sets the record back |
| `revision_sync` | 2 reads at a time, 3 revisions | nothing uncommitted is read, a lone read is fresh, a new leader deals above its version, every read ends |
| `revision_sync_late` | 1 read | violated: a late answer sets the revision of a leader back |
| `etcd_server` | 2 peers, 1 transaction, 1 watch, 4 changes; 2 watch ids, 2 batches | no client closed under a transaction, stale watches told, reconnection, transactions end; map and goroutines agree, every end is told, `Close` returns |
| `kv_service` | 2 clients, 4 commits of an engine; 2 clients, 2 keys, 3 revisions; 2 nodes, 3 updates of the lock, 2 ends of a process | every engine implements `KvStore` and fails for a reason; answers are those of etcd, get then watch has no gap, pages are one snapshot; one leader, ascending revisions |

Bounds. A ring of three slots is reused within five revisions, meets the full case
and the wrap of the slot. Three revisions after the start give an uncertain write,
its rewrite and a competing write; a key starts absent, alive or deleted. With a cache
of two events and a channel of one batch, five revisions wrap the cache several
times, refuse watches that are too old and overrun the channel. Watchers do not
influence each other except through the order in the hub's loop, so one is enough.
Forty events are many more than a channel of four batches of two can hold.
Three revisions of two keys give a version with a predecessor and a tombstone, or an
event beside a plain key. Compaction has one range in `scanner`: all a later range adds is the
second reading of record and history, and the theorems of `ScannerProofs` are for any ranges; in
`scanner_regress` there is a second, empty one. In `RangeScan` one key is
the beginning of the other, and regions end between two versions of the first key or
between the keys; the limit of 1 makes every list a paged one.
Three updates of the lock and two ends of a process give two changes of leader. Two reads
are enough for one to join, outrun or overwrite the other. One of the two peers of the
proxy answers only to the second TLS configuration, so that the loop over them is used.
Two batches of an engine with two keys each are enough to overtake each other on either.
In the passing write-path runs a rewrite may be refused, succeed, or take effect with
an uncertain result; the two other outcomes are the subject of `write_path_rewrite`.

Deadlock is checked for `RevisionSync`, where reads come for ever. Elsewhere it is not:
the bounds end every behaviour, and a panic or a burnt revision stops the system for
good.

Fairness. `Sequencer`: the collector spins without blocking, and a write whose
storage call returned (calls carry deadlines) runs `notify` to its end. `Watch`:
collector, hub, `processEvents` (its client reads: the servers drain the channel)
and a started deletion go on. `RevisionSync`: the client of the fetch has a timeout of a
second, and a read that has its answer runs on. `EtcdProxy`: `checkLeaderLoop` runs every
second, a process that ended is started again, the goroutine of a watch runs and its select
takes a channel that stays ready; a transaction that waits for the lock gets it when the lock
is free again and again (strong fairness: `Unlock` lets the readers in that wait).
`EtcdWatch`: goroutines run, a send to the watch channel or the stream returns or fails, a
select takes the context that is done when it comes to it again and again. No fairness is
assumed of clients' requests, of elections or of the network.

The retry loop waits `retryInterval` before it looks at an event. The model takes this
for what the comment in `overwrite` assumes: the outcome of the uncertain
write is settled by then.

Timing. `Leader` takes two things from the code's configuration: revisions are dealt
more slowly than the clock of the engine advances (`Deal`), and a holder that cannot renew
has stopped before its lease is over (`LeaseExpires`; the renew deadline is 5 s, the lease
8 s). Its constant `Races` names two narrow races, which the passing instance
leaves out. With `"oracle"` a renewal that fails to read the clock resets the version
before the callback has read it, and `RevisionsAscend` fails: the new leader starts from
0. With `"release"` another node takes the lock after `ReleaseOnCancel` gave it up
and before the flag is cleared, and `OneLeader` fails.

## What the violations show

1. `deal` takes a revision from the clock before it finds the client's revision
   ahead of it; `update` and `delete` then return revision 0, and nobody hands the
   revision in. The collector waits for it for ever.
2. `retry` pops the event it repairs even when the rewrite failed or was
   uncertain. If the rewrite had no effect, the event queued for it has another
   revision than the stored version, and the loop decides there is nothing to fix.
3. `Stream` drops a batch for a full channel and starts the deletion of the watcher
   in the background. If the watcher makes room first it gets later batches.
4. `setCompactRecord` keeps a record above the requested revision, but the compaction
   goes on and `checkCompactRace` puts the lower revision in its place. A list between
   the two revisions is then served although versions it needs are gone.
5. `SyncReadRevision` checks for the leader before it asks and not before it stores. The
   answer of the old leader, stored after this node has begun to lead, sets its
   committed revision back, and when that lies below its start the collector waits for a
   revision this process never dealt.

## Observations

What the code does elsewhere that its comments, or a reader, may not expect. Each is a
behaviour of the modules; the properties of the runs are stated so that they hold beside it.

* Proxy (`etcd_proxy.go`). An error other than a deadline stays in the proxy, and
  `updateClient` (line 174 against line 59) does not connect again until the process restarts:
  `Reconnects` is stated for a proxy without such an error. A client that did not answer
  is dropped without `Close` (167 against 126), the variable `leaked`. The goroutine of a
  forwarded watch reads the client after the lock is released (256); when it is nil by then
  the process ends, the state `run = "panic"`.
* Watch stream. A range stream that is cancelled stops reading while the scan behind it runs
  with a context of its own (`backendshim.go:351`), so its workers stay blocked on the full
  channel. A progress notification carries the current revision (`etcd/watch.go:115`)
  while events below it wait in the channel of the watch.
* Transactions. The kv of a failed delete is read after the failure was found, and may be the
  very kv the client expected (`txn.go:113`, `txn.go:231` against `backendshim.go:143`); an update
  of revision 0 may fail with an empty range.
* Pages. A client that continues a list at the last key with a zero byte appended gets
  that key again, because the zero byte sorts before `splitByte`; with a limit of 1 it never
  advances.
* Streams. `GetPartitions` tells borders nobody has adjusted: streams of two
  neighbours may bring two versions of a key, and an inner border may be moved below the start of
  its stream. The first row of a tikv iterator is not compared with the end. Batches carry
  the header revision 0 (`receiver.go:162`). A worker that starts again repeats the batches it
  has sent. `Count` answers 0 unless the compatibility option is set.
* Compaction. `getTimeoutRevision` takes the entries it passes out of the history
  (`scanner.go:168`), so that events of later ranges of the same compaction expire later; two
  compactions at a time would share the history without a lock (`scanner.go:161`, not modelled).
* Engines. A CAS on a missing key returns `ErrKeyNotFound` in tikv (`tikv/batch.go:56` against
  `interface.go:90`). The value memkv returns with a conflict is the one of the request
  (`memkv/batch.go:84` against `errors.go:54`). The timer of a memkv key with a TTL removes what the
  key holds by then (`memkv/batch.go:174` against `design_in_detail.md:159`).
* Clock. The raise of the dealt revision is one attempt at a compare and swap (`tso.go:68`): a
  new leader that loses it to a concurrent `SyncReadRevision` may deal below its version,
  the exception in `DealsAboveVersion`.

## What is proved

Every theorem holds for all values of the constants, under the assumptions named in the
modules; none of them is about the small instances of the runs.

`EventsProofs`, of `Sequencer` for every `Capacity`, `StartRevision` and `MaxRevision`
(assumed natural, the capacity positive): `TypeCorrect`; `Invariance`, the inductive
invariant `Inv`; `NothingLost`, `PanicMeansFull` and `SlotsNotOverwritten`, its consequences;
`Refinement`, that `Sequencer` implements `RevisionLog`.
`NoRevisionLost` alone is not inductive: that the collector finds the next
revision in its slot needs that what passed the capacity check lies within
`Capacity` revisions of the committed one (`CheckedFits`, `RingFits`), where a slot
determines the revision (`SlotUnique`, from quotient and remainder), that a
revision is in one place at a time (`OnePlace`, `DroppedApart`), and that the
collector is always at the next revision (`CollectorAtNext`). Then the store of
`notify` always meets an empty slot (`SlotFree`), and committing only moves the window.
The refinement maps the revisions with their writers to `inflight`, the ring and the
event in the collector's hand to `waiting`, and counts a committed event as
published.

`WritePathProofs`, for any keys, writers, ring, first revision, injected
faults, revisions ahead of the clock and compact requests: `TypeCorrect`, `IndexAgrees`,
`CompactStaysBelow`, `RevisionsOfAKeyAscend` and `ReadsAreRepeatable`, all from `Invariant`
(`Inv`). Neither
`IndexIsLatest` nor `CompactBelowUncertain` is inductive. That the index follows the newest version
needs that no batch that may still take effect (a request's, one in limbo, the rewrite of
the retry loop) has the revision of a version or one below what it compares with
(`Effective`), which holds because a dealt revision is with one request or with the retry
loop, and in neither the ring nor beyond (`Apart`, `Ringed`, `Collecting`). That compaction
stays below the open writes needs that each one is on its way to the retry queue or in it
(`Tracked`, `Limbo`) and that the queue ascends, so that its head is the least
(`Queued`); and that the loop only takes off a head whose batch is settled (`Retrying`). That a
read at a revision is well defined needs a newest version below each revision
(`Ordered`), which is an invariant here, as a theorem about finite sets would need induction.
The two action properties say that versions come only from a batch above them, and go only
by a scan, which leaves what a read at or above its revision sees.
`MaxRevision` bounds the runs only: the theorems hold for every value not below `StartRevision`.

Also in `WritePathProofs`: `ClientStaysInSync`, that a client which lists and then applies the
published events has the present value of every key whose newest version is committed and which
no uncertain write is pending for (`ViewInSync`). Its hypothesis is
`RewriteFaults \subseteq {"applied"}`: a rewrite of the retry loop has its effect by the time its
commit returns, with or without an error, or is refused because the key has moved on. It is what
separates `write_path`, which passes, from `write_path_rewrite`, which does not; clients'
commits may fail, surface late or never. The second invariant, `Sync`, has four parts. No event
on its way or queued is wrong: a version or a batch in limbo with its revision is the one it
speaks of, one that says "ok" has its version and one that says "failed" has none and will have
none (`Told`). An uncertain event in the hand of the collector is queued, or its version is no
longer the newest (`Resolved`). The loop writes the value of the head again, and takes the head off
only when a newer version is there (`Rewritten`). So the newest version of a key is what the
client has, once it is committed, unless its event is still in the retry queue (`InSync`), which
gives `ViewInSync`. Compaction keeps that because it removes a newest version only if that is a
tombstone, and it stays below all that is queued.

`ScannerProofs`, for any keys, events, ranges, TTL, number of tries and injected faults:
`CompactionHides`, `IndexRowsAgree`, `RecordedReadsAreExact`, `TypeCorrect` and `HistoryIsKept`, all
from `Invariant`. `CompactionInvisible` is not inductive: it says what readers see and nothing of
the deletions that are still to come. The invariant says that the rows are `Sound`: of each
key the newest versions are there down to some revision, and what is missing below is
`Dispensable`, that is a tombstone, an event past its TTL, or replaced by a version not above
the compacted revision. A deletion keeps that if what it takes is dispensable (`Judged`) and the
oldest that is left of its key. The latter is `InOrder` and the last conjunct of `Scanning`: each
older version has a deletion `Before` it, and what is no longer left to do is done or has its key
skipped; so a deletion that failed must stop those of the same key, whose deletions
are neighbours in the order. Where the deletions are computed (`DeletesRight`), an older version
is either expired, and goes at its own row, or its successor is not, and takes it away (`Chained`: there
is a successor); an expired row is past its TTL because a record of the histories is
not older than what its revision covers (`Logged`). The snapshot of a read is sound at its
revision and stays so, as does that of a compaction against later writes (`Snapped`); a
sound set of rows shows at a revision not compacted what was written (`Exact`), and that is where a
record that is behind (`scanner_regress`) breaks the argument.

`EventsProofs`, of `CatchUp` for every number of events, every channel of at least two batches
and every batch size that is at least the channel length less two (what 100 and 300 satisfy):
`CatchUpNeverBlocks`. The invariant counts: the events that are left, and a full batch
for each one in the channel, never exceed what the channel has room for.

`WatchProofs`, of `Watch` for any watchers, requests, events outside the prefix and sizes of cache,
batch and channel: `CacheAnswersRight`, `WatchersMissNothing`, `ClientsGetInOrder` and `WatchTypes`,
all from `WatchInvariant`. None of the three is inductive. The invariant follows an event from
the collector to a client. The array of the cache holds the last events at
their places (`CacheRight`): a new one overwrites the one that is `CacheSize` older and no
other (`IndexApart`, from quotient and remainder). What the hub has not seen, in the batch and in
its channel, are the last events in order (`ChanRight`), and the channel of a watcher lies below
that. For a watcher that is registered and has not looked at the cache yet, its channel and what
the hub has not seen are all the events from some point on (`WatcherRight`), because it was
registered first; so when it joins the cached events and the live ones from the newest cached
one on, nothing is between them. When the cache is empty or all below the request, nothing that was asked
for has happened yet, since the revision of an event is committed before it is added
(`CollectRight`). From then on what the client got and what passes its filter is what it asked
for (`GotRight`), for as long as the hub has dropped no batch. That `filterByPrefix`
keeps the order is a statement about the n-th kept element for every n; it and
the least element of a set of numbers are proved from the well-foundedness of the naturals.

`RevisionSyncProofs`, for any number of reads and revisions: `TypeCorrect`, `NeverAhead`,
`LoneReadsAreFresh`, `NewLeaderDealsAbove`. Inductive with them: whatever is on its way, in the
fetch or in a request, is at most the highest revision committed by any leader (`Bounded`); while
another node leads, it has committed all that was ever committed (`Follows`); the dealt
revision only grows after the load of a new leader (`Above`); a request marked as alone has no
other beside it (`Lone`), and what it has got so far is not older than its beginning (`Fresh`).

`EngineProofs`, of `KvEngine` for any set of clients, keys, values and batches of different keys:
`EveryEngineIsAStore` (each engine implements `KvStore`, with the values of the database as the
store and the batch of each client as pending) and `BatchesFailForAReason`. The invariant:
a busy client of memkv holds the mutex and has seen the present database (`Locked`); what
has not changed since the start of a batch of badger or tikv is as the batch has seen it
(`Snapshot`); a version of badger stands for one value (`Versioned`); and what a batch was
evaluated to is what its operations say of its snapshot (`Judged`). The conflict check of the
database then carries the comparisons from the snapshot to the commit.

`EngineProofs`, of `Leader` for any number of nodes, crashes, updates of the lock and revisions:
`TypeCorrect`, `OneNodeHolds`, `AtMostOneLeader` and `RevisionsAlwaysAscend`, all from `Invariant`.
The last two have a hypothesis on `Races`: `OneLeader` holds if `"release"` is not in it,
`RevisionsAscend` if it is empty. `OneNodeHolds` needs none: whatever races, at most one node
is between the start of its callback and the release of the lock, so two nodes that both admit
writes are one that leads and others on their way out. `OneLeader` speaks of flags and the
elector of values it has read, and the invariant joins the two: a node in its callback has the
lock and a lease that runs (`HoldersHold`), and a node whose last `Get` still matches the record
saw it free, its own or expired, as it is now (`GotIsCurrent`), because every write of the record
changes its value. So an update that matches finds no other node in its callback. A node that
released the lock is alone until it ends (`Alone`). For the revisions, what was dealt is not above
the clock, and from the read of the clock that follows an update to the flag it stays below the
version (`Above`): nobody else deals meanwhile, and the compare and swap of `Commit` finds the
value it loaded. That clocks outrun dealing and that a holder has stopped when its lease is over
are the guards of `Deal` and `LeaseExpires`, not hypotheses of the theorems.

`EtcdServerProofs`, of `EtcdProxy` for any number of peers, configurations, transactions and watches:
`ProxyTypeCorrect`, `NoClientClosedUnderTxn`, `NoWatchLeftBehind`. Neither is inductive without
`Trying`: while the loop tries configurations it has the leader it read, no transaction holds
the lock in reading, and every watch that has begun has been told. Of `EtcdWatch`, for any number of
watches, batches of a list and capacity of its channel: `StreamTypeCorrect`, `MapIsRight` and
`EndsAreTold`, from `StreamInvariant`. The map is inductive with the types, since every path that
takes an entry out cancels the context first. `EndedIsTold` is not: a list that ends sends nothing,
and relies on what was sent before. The invariant (`Told`) therefore says the same of a watch that is
cancelled and of a list that has nothing left to scan or to send; the first holds because a stream
that is up always gets the cancel response through, the second because the last batch is the end marker.

`EtcdKVProofs`, of `EtcdKV` for any clients, keys, limit of a page and number of revisions:
`TxnsAreEtcds`, `GetsThenWatch`, `PagesAreASnapshot` and `KvTypes`, all from `KvInvariant`. The
properties speak of answers, the invariant of the requests that lead to them. A revision with
a request belongs to no version and to no other request (`Dealt`, `Fresh`), so a version that comes
later is above whatever was collected. For each step of a transaction the invariant says
why its answer will be right (`AskedRight`): what the key shows now is always among what was seen; a
create that found a tombstone still finds it, or the key was seen alive; and once a comparison
has failed, the key has moved past the version the client expects and never returns to it
(`Passed`), so that the reread after the failure cannot make it wrong. A list in progress has
exactly the snapshot at its revision below the key it goes on from (`ListingRight`), which no
later commit changes because that is above the committed revision, and a page is the
first keys of the rest: that there is such a page for every limit is an induction over the limit.

Induction over data is done here with sets: the library's theorems on induction take an
operator and cannot be used, but well-foundedness of the natural numbers and of finite sets
speaks of sets (`WFMin`), and gives least elements and induction for a set of numbers
(`LeastOf` in `WatchProofs`, `NatSet` in `EtcdKVProofs`).

Not proved, only model-checked: `ListExact` and `StreamCovers` of `RangeScan`, whose loop over the
rows and merge of the results are recursive functions that need an induction for every list of rows;
with `ScannerTypesOK`, of which the half of `Scanner` is proved; `ServiceTypesOK`, of which the parts
of `Leader` and `EtcdKV` are proved; and all liveness properties, for which fairness and
`ENABLED` are beyond the prover. `Sequencer`, `RevisionSync`, `EtcdProxy`, `EtcdWatch` and `Watch` have
their type invariants proved and in no run.

## Not modelled

* Leases of keys, empty values, the reads that only fill a response, the capacity of
  the channel to the hub, the conversion of events to those of etcd.
* `CompactScan` of `WritePath` is atomic; the single deletions and their failures are in
  `Scanner`, which has one compaction and one list at a time and lists at revisions that were
  committed. The ranges of a compaction are a constant.
* Lease, cluster and maintenance services of the etcd server answer constants. The watch stream
  of the brain server is the loop of `EtcdWatch` without the map of watches; its other handlers
  check for the leader or sync the revision and hand the backend's answer on.
* The elector, badger and the tikv client are libraries, modelled from their use. The
  metrics wrapper of the storage and the disabled proxy forward or refuse every call.
* Endpoint, options, certificates, metrics and utilities: I/O and wiring without protocol
  state.
