-------------------------------- MODULE Watch --------------------------------
(***************************************************************************)
(* From the collector to the watchers of a leader: the second half of      *)
(* collectStorageWriteEvents, the event cache (WatchCache), the hub that   *)
(* fans batches out to one channel per watcher (watcherhub.go), and Watch  *)
(* itself (watch.go), which joins the cached events and the live ones.     *)
(*                                                                         *)
(* An event is its revision; Other are the revisions of the events whose   *)
(* key does not have the prefix watched.  The names leave room for those   *)
(* of the modules this one is checked with.                                *)
(***************************************************************************)
EXTENDS WatchCache, FiniteSets, FiniteSetsExt

CONSTANTS
  Watchers,
  Requests,              \* the start revisions of watch requests; 0: from now
  Other,                 \* events outside the prefix
  FirstRevision,         \* the revision the leader starts from
  LastRevision,          \* bound: no revision above it is committed
  BatchSize,             \* eventBatchSize
  Buffer                 \* watchBuffer, the capacity of a watcher's channel

ASSUME WatchAssumption ==
  /\ Requests \subseteq Nat
  /\ FirstRevision \in Nat
  /\ LastRevision \in Nat
  /\ BatchSize \in Nat \ {0}
  /\ Buffer \in Nat \ {0}

VARIABLES
  committed,             \* tso.committedRevision
  adding,                \* the event committed and not yet in the cache, or 0
  cache,                 \* watchCache
  batch,                 \* the events collected and not yet sent to the hub
  watchChan,             \* the channel to the hub: a queue of batches
  sub,                   \* watcher -> its channel, a queue of batches
  subs,                  \* WatcherHub.subs: the watchers registered
  deleting,              \* watchers a DeleteWatcher is under way for
  watch,                 \* watcher -> [step, req, from]
  out,                   \* watcher -> the events handed to its client
  history,               \* history: every event added to the cache
  overrun                \* history: watchers the hub dropped a batch for

collectVars == <<committed, adding, cache, batch, history>>
hubVars == <<watchChan, sub, subs, deleting, overrun>>
clientVars == <<watch, out>>
watchVars == <<collectVars, hubVars, clientVars>>

HasPrefix(e) == e \notin Other

\* The events of a batch with the prefix, in their order.
WithPrefix(events) ==
  LET kept == {i \in DOMAIN events : HasPrefix(events[i])}
      place(n) == CHOOSE i \in kept : Cardinality({j \in kept : j <= i}) = n
  IN [n \in 1 .. Cardinality(kept) |-> events[place(n)]]

WatchInit ==
  /\ committed = FirstRevision
  /\ adding = 0
  /\ cache = NewRing
  /\ batch = <<>>
  /\ history = <<>>
  /\ watchChan = <<>>
  /\ sub = [w \in Watchers |-> <<>>]
  /\ subs = {}
  /\ deleting = {}
  /\ overrun = {}
  /\ watch = [w \in Watchers |-> [step |-> "off", req |-> 0, from |-> 0]]
  /\ out = [w \in Watchers |-> <<>>]

-----------------------------------------------------------------------------
(* collectStorageWriteEvents, after a slot of the ring buffer was read.     *)

\* The revision of a write that did not succeed is committed without event.
CommitInvalid ==
  /\ adding = 0
  /\ Len(batch) < BatchSize
  /\ committed < LastRevision
  /\ committed' = committed + 1
  /\ UNCHANGED <<adding, cache, batch, history, hubVars, clientVars>>

\* The revision of a successful write is committed before its event is there.
CommitValid ==
  /\ adding = 0
  /\ Len(batch) < BatchSize
  /\ committed < LastRevision
  /\ committed' = committed + 1
  /\ adding' = committed + 1
  /\ UNCHANGED <<cache, batch, history, hubVars, clientVars>>

\* The event joins the batch and the cache.
AddEvent ==
  /\ adding # 0
  /\ batch' = Append(batch, adding)
  /\ cache' = Add(cache, adding)
  /\ history' = Append(history, adding)
  /\ adding' = 0
  /\ UNCHANGED <<committed, hubVars, clientVars>>

\* The batch is full, or no further event is there: it goes to the hub.
SendBatch ==
  /\ adding = 0
  /\ batch # <<>>
  /\ watchChan' = Append(watchChan, batch)
  /\ batch' = <<>>
  /\ UNCHANGED <<committed, adding, cache, history, sub, subs, deleting, overrun,
                 clientVars>>

-----------------------------------------------------------------------------
(* The hub.                                                                *)

Full(w) == Len(sub[w]) >= Buffer

\* Mutant of Stream: a slow watcher misses the batch and stays registered.
Stream_KeepSlow ==
  LET slow == {w \in subs : Full(w)} IN
  /\ watchChan # <<>>
  /\ watchChan' = Tail(watchChan)
  /\ sub' = [w \in Watchers |->
       IF w \in subs \ slow THEN Append(sub[w], Head(watchChan)) ELSE sub[w]]
  /\ overrun' = overrun \cup slow
  /\ UNCHANGED <<subs, deleting, collectVars, clientVars>>

\* Stream: a batch is offered to every registered channel, under the read
\* lock.  A full channel misses the batch, and its deletion is started.
Stream ==
  LET slow == {w \in subs : Full(w)} IN
  /\ watchChan # <<>>
  /\ watchChan' = Tail(watchChan)
  /\ sub' = [w \in Watchers |->
       IF w \in subs \ slow THEN Append(sub[w], Head(watchChan)) ELSE sub[w]]
  /\ deleting' = deleting \cup slow
  /\ overrun' = overrun \cup slow
  /\ UNCHANGED <<subs, collectVars, clientVars>>

\* DeleteWatcher: the channel is closed and taken from the registry.
DeleteWatcher(w) ==
  /\ w \in deleting
  /\ deleting' = deleting \ {w}
  /\ subs' = subs \ {w}
  /\ UNCHANGED <<watchChan, sub, overrun, collectVars, clientVars>>

-----------------------------------------------------------------------------
(* Watch.                                                                  *)

\* The watcher is registered first, so that nothing is missed from here on.
AddWatcher(w, revision) ==
  /\ watch[w].step = "off"
  /\ subs' = subs \cup {w}
  /\ watch' = [watch EXCEPT ![w] = [step |-> "added", req |-> revision, from |-> revision]]
  /\ UNCHANGED <<watchChan, sub, deleting, overrun, out, collectVars>>

\* The request goes on with the live events from the given revision.
Serve(w, from) == watch' = [watch EXCEPT ![w].step = "serving", ![w].from = from]

\* The request fails and its context is cancelled.
Refuse(w) ==
  /\ watch' = [watch EXCEPT ![w].step = "refused"]
  /\ deleting' = deleting \cup {w}

\* Mutant of FromCache: the newest cached event is delivered again.
FromCache_Overlap(w, events) ==
  /\ Serve(w, IF events = <<>> THEN watch[w].req ELSE Newest(cache))
  /\ out' = [out EXCEPT ![w] = events]

\* The cached events (those with the prefix) are sent and the live ones
\* follow after the newest of the cache.
FromCache(w, events) ==
  /\ Serve(w, IF events = <<>> THEN watch[w].req ELSE Newest(cache) + 1)
  /\ out' = [out EXCEPT ![w] = events]

\* A request for "from now" needs no history; any other asks the cache.
FindCached(w) ==
  LET revision == watch[w].req
      ret == FindEvents(cache, revision)
  IN
  /\ watch[w].step = "added"
  /\ \/ /\ revision = 0 \/ ret.kind = "high"
        /\ Serve(w, revision)
        /\ UNCHANGED <<out, deleting>>
     \/ /\ revision # 0 /\ ret.kind = "empty"
        /\ watch' = [watch EXCEPT ![w].step = "empty"]
        /\ UNCHANGED <<out, deleting>>
     \/ /\ revision # 0 /\ ret.kind = "low"
        /\ Refuse(w)
        /\ UNCHANGED out
     \/ /\ revision # 0 /\ ret.kind = "found"
        /\ FromCache(w, WithPrefix(ret.events))
        /\ UNCHANGED deleting
  /\ UNCHANGED <<watchChan, sub, subs, overrun, collectVars>>

\* The cache was empty: only a revision not yet committed can be served.
CheckRevision(w) ==
  /\ watch[w].step = "empty"
  /\ IF watch[w].req > committed
     THEN Serve(w, watch[w].req) /\ UNCHANGED deleting
     ELSE Refuse(w)
  /\ UNCHANGED <<watchChan, sub, subs, overrun, out, collectVars>>

\* Mutant of FilterByRevision: a batch is taken as a whole.
FilterByRevision_Whole(events, revision) ==
  IF events # <<>> /\ events[Len(events)] >= revision THEN events ELSE <<>>

\* The leading events of a batch below the revision are dropped.
FilterByRevision(events, revision) ==
  LET later == {i \in DOMAIN events : events[i] >= revision} IN
  IF later = {} THEN <<>> ELSE SubSeq(events, Min(later), Len(events))

\* processEvents.
ProcessEvents(w) ==
  /\ watch[w].step = "serving"
  /\ sub[w] # <<>>
  /\ sub' = [sub EXCEPT ![w] = Tail(@)]
  /\ out' = [out EXCEPT ![w] =
       @ \o WithPrefix(FilterByRevision(Head(sub[w]), watch[w].from))]
  /\ UNCHANGED <<watchChan, subs, deleting, overrun, watch, collectVars>>

\* The channel is closed and drained: so is the client's.
CloseResult(w) ==
  /\ watch[w].step = "serving"
  /\ w \notin subs
  /\ sub[w] = <<>>
  /\ watch' = [watch EXCEPT ![w].step = "closed"]
  /\ UNCHANGED <<hubVars, out, collectVars>>

\* The client goes away: its context is done.
Cancel(w) ==
  /\ watch[w].step = "serving"
  /\ w \in subs
  /\ deleting' = deleting \cup {w}
  /\ UNCHANGED <<watchChan, sub, subs, overrun, clientVars, collectVars>>

CollectBatch == AddEvent \/ SendBatch

WatchNext ==
  \/ CommitInvalid
  \/ CommitValid
  \/ AddEvent
  \/ SendBatch
  \/ Stream
  \/ \E w \in Watchers : DeleteWatcher(w)
  \/ \E w \in Watchers, r \in Requests : AddWatcher(w, r)
  \/ \E w \in Watchers : FindCached(w)
  \/ \E w \in Watchers : CheckRevision(w)
  \/ \E w \in Watchers : ProcessEvents(w)
  \/ \E w \in Watchers : CloseResult(w)
  \/ \E w \in Watchers : Cancel(w)

WatchSpec == WatchInit /\ [][WatchNext]_watchVars

\* The collector and the hub run for ever, and so does processEvents while
\* its client reads; a deletion that was started ends.
WatchFairness ==
  /\ WF_watchVars(CollectBatch)
  /\ WF_watchVars(Stream)
  /\ \A w \in Watchers :
       /\ WF_watchVars(ProcessEvents(w))
       /\ WF_watchVars(DeleteWatcher(w))
       /\ WF_watchVars(CloseResult(w))
       /\ WF_watchVars(FindCached(w) \/ CheckRevision(w))

WatchFairSpec == WatchSpec /\ WatchFairness

-----------------------------------------------------------------------------
(* Properties.                                                             *)

\* The variables have their types.
WatchTypeOK ==
  /\ committed \in Nat
  /\ adding \in Nat
  /\ cache \in [s : Nat, e : Nat, arr : [0 .. (CacheSize - 1) -> Nat]]
  /\ batch \in Seq(Nat)
  /\ watchChan \in Seq(Seq(Nat))
  /\ sub \in [Watchers -> Seq(Seq(Nat))]
  /\ subs \subseteq Watchers
  /\ deleting \subseteq Watchers
  /\ watch \in [Watchers ->
       [step : {"off", "added", "empty", "serving", "refused", "closed"},
        req : Nat, from : Nat]]
  /\ out \in [Watchers -> Seq(Nat)]
  /\ history \in Seq(Nat)
  /\ overrun \subseteq Watchers

\* The cache answers every request with exactly the cached events from the
\* revision on, and refuses exactly the requests it cannot answer in full,
\* wherever its positions stand in the array (Ring.FindEvents, Ring.Add).
FindEventsCorrect ==
  LET oldest == Max({1, Len(history) - CacheSize + 1})
      later(r) == {n \in oldest .. Len(history) : history[n] >= r}
  IN
  \A r \in 1 .. (LastRevision + 1) :
    FindEvents(cache, r) =
      IF history = <<>> THEN [kind |-> "empty", events |-> <<>>]
      ELSE IF later(r) = {} THEN [kind |-> "high", events |-> <<>>]
      ELSE IF r < history[oldest] THEN [kind |-> "low", events |-> <<>>]
      ELSE [kind |-> "found", events |-> SubSeq(history, Min(later(r)), Len(history))]

\* What a watcher asked for, of the events so far.
Expected(w) == {e \in Range(history) : e >= watch[w].req /\ HasPrefix(e)}

\* What is on its way to a watcher.
Queued(batches) == UNION {Range(batches[i]) : i \in DOMAIN batches}
Upcoming(w) ==
  {e \in Queued(sub[w]) \cup Queued(watchChan) \cup Range(batch) :
     e >= watch[w].from /\ HasPrefix(e)}

\* A watcher the hub has not dropped a batch for gets every event it asked for
\* once and in order, whether the event came from the cache or live, and
\* whenever it was registered (Watch, processEvents, Stream): what it got and
\* what is on its way is what it asked for, and all of the latter comes after all
\* of the former.  A watcher "from now" gets all events from some point on.
NothingMissed ==
  \A w \in subs \ overrun : watch[w].step = "serving" =>
    LET got == Range(out[w]) \cup Upcoming(w) IN
    /\ \A e \in Range(out[w]), f \in Upcoming(w) : e < f
    /\ IF watch[w].req > 0 THEN got = Expected(w)
       ELSE got \subseteq Expected(w) /\ \A e \in got, f \in Expected(w) : e <= f => f \in got

\* A dropped or closed watcher, too, only ever got events it asked for, in
\* ascending order and none twice.
InOrder ==
  \A w \in Watchers :
    /\ \A i \in DOMAIN out[w] : out[w][i] >= watch[w].req /\ HasPrefix(out[w][i])
    /\ \A i \in 2 .. Len(out[w]) : out[w][i - 1] < out[w][i]

\* Every event a watcher asked for reaches its client, unless the client
\* leaves or is told by the end of its channel that it was too slow (Stream,
\* DeleteWatcher, processEvents).
EventsDelivered ==
  \A w \in Watchers, e \in 1 .. LastRevision :
    (/\ watch[w].step = "serving" /\ watch[w].req > 0 /\ watch[w].req <= e
     /\ HasPrefix(e) /\ adding = e)
      ~> (e \in Range(out[w]) \/ watch[w].step = "closed")

\* What the comment on Watch says of the channel it returns: every event from
\* the revision on is read from it; so up to any moment, what was read is an
\* unbroken beginning of what was asked for.
EveryEventRead ==
  \A w \in Watchers : watch[w].req > 0 =>
    \A e \in Range(out[w]), f \in Expected(w) : f <= e => f \in Range(out[w])
=============================================================================
