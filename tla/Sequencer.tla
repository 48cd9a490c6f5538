------------------------------ MODULE Sequencer ------------------------------
(***************************************************************************)
(* The sequencer closed with abstract writers: a write is dealt a revision *)
(* (backend.deal), does its storage work, and hands in a result through    *)
(* notify.  What the storage work is does not matter here.                 *)
(***************************************************************************)
EXTENDS EventRing, Sequences

CONSTANTS
  StartRevision,         \* the version the leader got with its lease
  MaxRevision            \* bound: no revision above it is dealt

ASSUME SequencerAssumption ==
  /\ StartRevision \in Nat
  /\ MaxRevision \in Nat

VARIABLES
  writing,               \* revisions dealt, notify not yet reached
  checked,               \* events past the capacity check, not yet stored
  dropped,               \* history: revisions dealt and then given up
  events                 \* revisions of the events published, in order

writerVars == <<writing, checked, dropped>>
vars == <<ringVars, writerVars, events>>

Event == [revision : Nat \ {0}, result : Results]

Init ==
  /\ RingInit(StartRevision)
  /\ writing = {}
  /\ checked = {}
  /\ dropped = {}
  /\ events = <<>>

\* backend.deal on behalf of some write.
Deal ==
  /\ ~panicked
  /\ dealRevision < MaxRevision
  /\ TSODeal
  /\ writing' = writing \cup {dealRevision'}
  /\ UNCHANGED <<committedRevision, ring, collector, panicked, checked, dropped,
                 events>>

\* deal finds the client's revision ahead of the clock (ErrRevisionDriftBack):
\* update and delete return revision 0 and notify(0) returns at once, so the
\* revision dealt is never handed in.
DealDriftBack ==
  /\ ~panicked
  /\ dealRevision < MaxRevision
  /\ TSODeal
  /\ dropped' = dropped \cup {dealRevision'}
  /\ UNCHANGED <<committedRevision, ring, collector, panicked, writing, checked,
                 events>>

\* notify, first half: a full buffer panics, which ends the process.
NotifyCheck(r, res) ==
  /\ ~panicked
  /\ r \in writing
  /\ IF BufferFull(r)
     THEN panicked' = TRUE /\ UNCHANGED <<writing, checked>>
     ELSE /\ writing' = writing \ {r}
          /\ checked' = checked \cup {[revision |-> r, result |-> res]}
          /\ UNCHANGED panicked
  /\ UNCHANGED <<committedRevision, dealRevision, ring, collector, dropped, events>>

\* notify, second half: the atomic store into the slot.
NotifyStore(e) ==
  /\ ~panicked
  /\ e \in checked
  /\ StoreEvent(e)
  /\ checked' = checked \ {e}
  /\ UNCHANGED <<committedRevision, dealRevision, collector, panicked, writing,
                 dropped, events>>

\* The steps of the collector, in the order of the code.
Load ==
  /\ ~panicked
  /\ CollectorLoad
  /\ UNCHANGED <<panicked, writerVars, events>>

Clear ==
  /\ ~panicked
  /\ CollectorClear
  /\ UNCHANGED <<panicked, writerVars, events>>

AppendRetry ==
  /\ ~panicked
  /\ CollectorAppend
  /\ UNCHANGED <<panicked, writerVars, events>>

Commit ==
  /\ ~panicked
  /\ CollectorCommit
  /\ UNCHANGED <<panicked, writerVars, events>>

Publish ==
  /\ ~panicked
  /\ CollectorPublish
  /\ events' = Append(events, collector.event.revision)
  /\ UNCHANGED <<panicked, writerVars>>

Collect == Load \/ Clear \/ AppendRetry \/ Commit \/ Publish

Next ==
  \/ Deal
  \/ DealDriftBack
  \/ \E r \in writing, res \in Results : NotifyCheck(r, res)
  \/ \E e \in checked : NotifyStore(e)
  \/ Collect

Spec == Init /\ [][Next]_vars

\* The collector spins without blocking, and a write whose storage call
\* returned (every call carries a deadline) runs notify to its end.
Fairness ==
  /\ WF_vars(Collect)
  /\ \A r \in 1 .. MaxRevision :
       /\ WF_vars(\E res \in Results : NotifyCheck(r, res))
       /\ WF_vars(\E e \in checked : e.revision = r /\ NotifyStore(e))

FairSpec == Spec /\ Fairness

-----------------------------------------------------------------------------
(* Properties.                                                             *)

TypeOK ==
  /\ committedRevision \in Nat
  /\ dealRevision \in Nat
  /\ ring \in [Slots -> Event \cup {Nil}]
  /\ collector \in [step : CollectorSteps, event : Event \cup {Nil}]
  /\ panicked \in BOOLEAN
  /\ writing \in SUBSET (Nat \ {0})
  /\ checked \in SUBSET Event
  /\ dropped \in SUBSET (Nat \ {0})
  /\ events \in Seq(Nat)

\* The collector has an event that is no longer in the ring and not committed.
Holding == collector.step \in {"append", "commit"}

\* Where a revision that is dealt and not committed may be: with its writer,
\* past notify's check, in the ring, in the collector's hand, or given up.
Located(r) ==
  \/ r \in writing
  \/ \E e \in checked : e.revision = r
  \/ \E s \in Slots : ring[s] # Nil /\ ring[s].revision = r
  \/ Holding /\ collector.event.revision = r
  \/ r \in dropped

\* Whatever lies between the committed and the dealt revision is on its way
\* to the collector (with its writer, in the ring, or in the collector's hand)
\* unless its writer gave it up.  collectStorageWriteEvents waits on exactly
\* committedRevision+1, so a revision lost anywhere else would stop it.
NoRevisionLost == \A r \in (committedRevision + 1) .. dealRevision : Located(r)

\* notify never stores over an event that was not collected: a filled slot
\* is emptied by the collector, when it holds that very event, and by nobody
\* else (the ring is reused every watchersChanCapacity revisions).
NoOverwrite ==
  [][\A s \in Slots : ring[s] # Nil =>
       \/ ring'[s] = ring[s]
       \/ ring'[s] = Nil /\ collector.event = ring[s]]_vars

\* The panic of notify is about the buffer being full: it never comes from
\* the unsigned subtraction wrapping around, i.e. from a write handed in
\* after its revision was committed.
PanicOnlyWhenFull ==
  panicked => dealRevision - committedRevision >= Capacity

\* How the state looks to RevisionLog.  A revision that was given up stays in
\* flight; a committed event counts as published.
Inflight == writing \cup {e.revision : e \in checked} \cup dropped
Waiting ==
  {ring[s] : s \in {t \in Slots : ring[t] # Nil}}
    \cup (IF Holding THEN {collector.event} ELSE {})
Published ==
  IF collector.step = "publish" THEN Append(events, collector.event.revision)
  ELSE events

RL == INSTANCE RevisionLog WITH
  Start <- StartRevision, last <- dealRevision, tail <- committedRevision,
  inflight <- Inflight, waiting <- Waiting, log <- Published

\* The sequencer does what RevisionLog promises: results are published in
\* revision order, without gap or duplicate, and exactly the successful ones
\* become events (backend.notify and collectStorageWriteEvents together).
ImplementsRevisionLog == RL!Spec

\* A revision that was dealt is committed in the end, unless the process dies
\* of a full buffer or an earlier revision was given up: readers and watchers
\* are not stuck behind a write that failed (collectStorageWriteEvents).
RevisionsCommitted ==
  \A r \in 1 .. MaxRevision :
    (dealRevision >= r)
      ~> (panicked \/ committedRevision >= r \/ \E d \in dropped : d <= r)

\* The same without the exception: whatever the outcome of a write, its result
\* reaches the ring buffer and the collector advances past it.
EveryRevisionCommitted ==
  \A r \in 1 .. MaxRevision :
    (dealRevision >= r) ~> (panicked \/ committedRevision >= r)

-----------------------------------------------------------------------------
(* The inductive invariant behind NoRevisionLost, NoOverwrite and           *)
(* PanicOnlyWhenFull.                                                       *)

\* Everything not yet committed lies in the window above the committed
\* revision, and what passed the capacity check lies in its first Capacity-1
\* revisions, where a slot determines the revision.
InWindow(r) == committedRevision < r /\ r <= dealRevision
Fits(r) == InWindow(r) /\ r - committedRevision < Capacity

WritersInWindow ==
  /\ committedRevision <= dealRevision
  /\ \A r \in writing : InWindow(r)

CheckedFits ==
  /\ \A e \in checked : Fits(e.revision)
  /\ \A e, f \in checked : e.revision = f.revision => e = f

RingFits ==
  \A s \in Slots : ring[s] # Nil =>
    Fits(ring[s].revision) /\ Slot(ring[s].revision) = s

\* A revision is in one place at a time.
OnePlace ==
  /\ \A e \in checked : e.revision \notin writing
  /\ \A s \in Slots : ring[s] # Nil =>
       /\ ring[s].revision \notin writing
       /\ \A e \in checked : e.revision # ring[s].revision

\* A revision that was given up is nobody's.
DroppedApart ==
  \A r \in dropped :
    /\ r <= dealRevision
    /\ r \notin writing
    /\ \A e \in checked : e.revision # r

\* The collector is always at the revision next to the committed one.
CollectorAtNext ==
  LET e == collector.event IN
  /\ collector.step = "load" => e = Nil
  /\ collector.step # "load" => e # Nil
  /\ collector.step \in {"clear", "append", "commit"} =>
       /\ e.revision = committedRevision + 1
       /\ e.revision <= dealRevision
  /\ collector.step = "clear" => ring[Slot(e.revision)] = e
  /\ collector.step \in {"append", "commit"} =>
       /\ ring[Slot(e.revision)] = Nil
       /\ e.revision \notin writing
       /\ \A f \in checked : f.revision # e.revision

\* All of it together.  A reader of the ring may rely on every conjunct: the
\* ring, the writers and the collector never disagree on who owns a revision.
Inv ==
  /\ WritersInWindow
  /\ CheckedFits
  /\ RingFits
  /\ OnePlace
  /\ DroppedApart
  /\ CollectorAtNext
  /\ NoRevisionLost
  /\ PanicOnlyWhenFull
=============================================================================
