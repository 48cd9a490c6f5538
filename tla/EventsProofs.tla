---------------------------- MODULE EventsProofs -----------------------------
(***************************************************************************)
(* Proofs about the way of an event.  Sequencer, for every capacity of the *)
(* ring buffer, start revision and bound: arithmetic of slots, type        *)
(* correctness, the inductive invariant Inv with one lemma per action, its *)
(* consequences, and the refinement of RevisionLog.  CatchUp, for every    *)
(* number of events and every size of a batch and of the result channel:   *)
(* catchUpEvents never waits for room.                                     *)
(***************************************************************************)
EXTENDS Sequencer, CatchUp, TLAPS

\* Quotient and remainder, as the provers know them.
LEMMA DivMod ==
  ASSUME NEW n \in Nat, NEW c \in Nat \ {0}
  PROVE  /\ n \div c \in Int
         /\ n % c \in 0 .. (c - 1)
         /\ n = c * (n \div c) + (n % c)
OBVIOUS

\* Two multiples of c that are less than c apart are equal.
LEMMA NoMultipleBetween ==
  ASSUME NEW c \in Nat \ {0}, NEW p \in Int, NEW q \in Int,
         c * p <= c * q, c * q - c * p < c
  PROVE  p = q
<1>1. c * (q - p) = c * q - c * p
  OBVIOUS
<1>2. CASE q - p >= 1
  <2>1. c * (q - p) >= c
    BY <1>2
  <2> QED BY <1>1, <2>1
<1>3. CASE q - p <= -1
  <2>1. c * (q - p) <= -c
    BY <1>3
  <2> QED BY <1>1, <2>1
<1> QED BY <1>2, <1>3

\* Slot yields a position of watchEventsRingBuffer.
LEMMA SlotInSlots ==
  ASSUME NEW r \in Nat
  PROVE  Slot(r) \in Slots
BY CapacityAssumption DEF Slot, Slots

\* Two revisions less than Capacity apart that share a slot are the same.
LEMMA SlotDetermines ==
  ASSUME NEW a \in Nat, NEW b \in Nat, Slot(a) = Slot(b),
         a <= b, b - a < Capacity
  PROVE  a = b
<1> DEFINE p == a \div Capacity
           q == b \div Capacity
<1>1. p \in Int /\ q \in Int
  BY CapacityAssumption, DivMod
<1>2. a = Capacity * p + (a % Capacity) /\ b = Capacity * q + (b % Capacity)
  BY CapacityAssumption, DivMod
<1>3. a % Capacity = b % Capacity /\ a % Capacity \in Int /\ b % Capacity \in Int
  BY CapacityAssumption, DivMod DEF Slot
<1>4. Capacity * p \in Int /\ Capacity * q \in Int
  BY <1>1, CapacityAssumption
<1> HIDE DEF p, q
<1>5. Capacity * p <= Capacity * q /\ Capacity * q - Capacity * p < Capacity
  BY <1>1, <1>2, <1>3, <1>4, CapacityAssumption
<1>6. p = q
  BY <1>1, <1>5, NoMultipleBetween, CapacityAssumption
<1> QED BY <1>2, <1>3, <1>6, <1>1

\* Two revisions less than Capacity above a common one that share a slot are
\* the same.
LEMMA SlotUnique ==
  ASSUME NEW c \in Nat, NEW a \in Nat, NEW b \in Nat, Slot(a) = Slot(b),
         c < a, a - c < Capacity, c < b, b - c < Capacity
  PROVE  a = b
<1>1. CASE a <= b
  <2>1. b - a < Capacity
    BY CapacityAssumption
  <2> QED BY <1>1, <2>1, SlotDetermines
<1>2. CASE b <= a
  <2>1. a - b < Capacity
    BY CapacityAssumption
  <2> QED BY <1>2, <2>1, SlotDetermines
<1> QED BY <1>1, <1>2

-----------------------------------------------------------------------------
\* Every step of the writers (deal, notify) and of collectStorageWriteEvents
\* keeps the sequencer's state in its types.
THEOREM TypeCorrect == Spec => []TypeOK
<1> USE CapacityAssumption, SequencerAssumption
<1>1. Init => TypeOK
  <2> SUFFICES ASSUME Init PROVE TypeOK
    BY Zenon
  <2>1. events \in Seq(Nat)
    BY DEF Init
  <2>2. ring \in [Slots -> Event \cup {Nil}]
    BY Zenon DEF Init, RingInit
  <2>3. collector \in [step : CollectorSteps, event : Event \cup {Nil}]
    BY Zenon DEF Init, RingInit, CollectorSteps
  <2> QED BY Zenon, <2>1, <2>2, <2>3 DEF Init, RingInit, TypeOK
<1>2. TypeOK /\ [Next]_vars => TypeOK'
  <2> SUFFICES ASSUME TypeOK, [Next]_vars
               PROVE  TypeOK'
    BY Zenon
  <2> USE DEF TypeOK
  <2>1. CASE Deal
    BY <2>1 DEF Deal, TSODeal
  <2>2. CASE DealDriftBack
    BY <2>2 DEF DealDriftBack, TSODeal
  <2>3. ASSUME NEW r \in writing, NEW res \in Results, NotifyCheck(r, res)
        PROVE  TypeOK'
    <3>1. [revision |-> r, result |-> res] \in Event
      BY Zenon DEF Event
    <3> QED BY Zenon, <2>3, <3>1 DEF NotifyCheck
  <2>4. ASSUME NEW e \in checked, NotifyStore(e)
        PROVE  TypeOK'
    BY Zenon, <2>4 DEF NotifyStore, StoreEvent
  <2>5. CASE Load
    <3>1. Slot(committedRevision + 1) \in Slots
      BY SlotInSlots
    <3> QED BY Zenon, <2>5, <3>1 DEF Load, CollectorLoad, CollectorSteps, writerVars
  <2>6. CASE Clear
    BY Zenon, <2>6 DEF Clear, CollectorClear, CollectorSteps, writerVars
  <2>7. CASE AppendRetry
    BY Zenon, <2>7 DEF AppendRetry, CollectorAppend, CollectorSteps, writerVars
  <2>8. CASE Commit
    <3>1. collector.event.revision \in Nat
      BY DEF Event, Nil
    <3> QED BY Zenon, <2>8, <3>1 DEF Commit, CollectorCommit, TSOCommit, CollectorSteps,
              writerVars
  <2>9. CASE Publish
    <3>1. collector.event.revision \in Nat
      BY DEF Event, Nil
    <3> QED BY <2>9, <3>1 DEF Publish, CollectorPublish, CollectorSteps, writerVars
  <2>10. CASE UNCHANGED vars
    BY Zenon, <2>10 DEF vars, ringVars, writerVars
  <2> QED
    BY Zenon, <2>1, <2>2, <2>3, <2>4, <2>5, <2>6, <2>7, <2>8, <2>9, <2>10 DEF Next,
      Collect
<1> QED BY <1>1, <1>2, PTL DEF Spec

-----------------------------------------------------------------------------
\* A filled slot or the collector's hand holds an event.
LEMMA Typed ==
  ASSUME TypeOK
  PROVE  /\ \A s \in Slots : ring[s] # Nil => ring[s] \in Event
         /\ collector.event # Nil => collector.event \in Event
         /\ \A e \in Event : /\ e.revision \in Nat \ {0}
                            /\ e.result \in Results
                            /\ e # Nil
BY DEF TypeOK, Event, Nil

\* backend.deal keeps the invariant: the new revision is above all others.
LEMMA InvDeal ==
  ASSUME TypeOK, Inv, Deal
  PROVE  Inv'
<1> USE Typed DEF Deal, TSODeal, TypeOK, Inv
<1>1. WritersInWindow'
  BY DEF WritersInWindow, InWindow
<1>2. CheckedFits'
  BY DEF CheckedFits, Fits, InWindow
<1>3. RingFits'
  BY DEF RingFits, Fits, InWindow
<1>4. OnePlace'
  BY DEF OnePlace, RingFits, CheckedFits, Fits, InWindow
<1>5. CollectorAtNext'
  BY DEF CollectorAtNext
<1>6. NoRevisionLost'
  BY DEF NoRevisionLost, Located, Holding
<1>7. PanicOnlyWhenFull'
  BY Zenon, CapacityAssumption DEF PanicOnlyWhenFull
<1>8. DroppedApart'
  BY DEF DroppedApart, WritersInWindow, CheckedFits, InWindow, Fits
<1> QED BY Zenon, <1>1, <1>2, <1>3, <1>4, <1>5, <1>6, <1>7, <1>8

\* A revision that is given up at once (drift back) keeps the invariant.
LEMMA InvDealDriftBack ==
  ASSUME TypeOK, Inv, DealDriftBack
  PROVE  Inv'
<1> USE Typed DEF DealDriftBack, TSODeal, TypeOK, Inv
<1>1. WritersInWindow'
  BY DEF WritersInWindow, InWindow
<1>2. CheckedFits'
  BY DEF CheckedFits, Fits, InWindow
<1>3. RingFits'
  BY DEF RingFits, Fits, InWindow
<1>4. OnePlace'
  BY Zenon DEF OnePlace
<1>5. CollectorAtNext'
  BY DEF CollectorAtNext
<1>6. NoRevisionLost'
  BY DEF NoRevisionLost, Located, Holding
<1>7. PanicOnlyWhenFull'
  BY Zenon DEF PanicOnlyWhenFull
<1>8. DroppedApart'
  BY DEF DroppedApart, WritersInWindow, CheckedFits, InWindow, Fits
<1> QED BY Zenon, <1>1, <1>2, <1>3, <1>4, <1>5, <1>6, <1>7, <1>8

\* The capacity check of notify keeps the invariant: who passes it fits.
LEMMA InvNotifyCheck ==
  ASSUME TypeOK, Inv, NEW r \in writing, NEW res \in Results, NotifyCheck(r, res)
  PROVE  Inv'
<1> DEFINE e == [revision |-> r, result |-> res]
<1> USE Typed DEF TypeOK, Inv
<1>a. e.revision = r /\ e \in Event
  BY Zenon DEF Event
<1>b. CASE BufferFull(r)
  <2> USE <1>b DEF NotifyCheck
  <2>1. r - committedRevision >= Capacity /\ r <= dealRevision
    BY DEF BufferFull, WritersInWindow, InWindow
  <2>2. PanicOnlyWhenFull'
    BY <2>1, CapacityAssumption DEF PanicOnlyWhenFull
  <2>3. /\ WritersInWindow' /\ CheckedFits' /\ RingFits' /\ OnePlace'
        /\ DroppedApart' /\ CollectorAtNext'
    BY DEF WritersInWindow, CheckedFits, RingFits, OnePlace, DroppedApart,
           CollectorAtNext, InWindow, Fits
  <2>4. NoRevisionLost'
    BY Zenon DEF NoRevisionLost, Located, Holding
  <2> QED BY Zenon, <2>2, <2>3, <2>4
<1>c. CASE ~BufferFull(r)
  <2>0. /\ checked' = checked \cup {e}
        /\ writing' = writing \ {r}
        /\ UNCHANGED <<ringVars, dropped, events>>
    BY Zenon, <1>c, NotifyCheck(r, res) DEF NotifyCheck, ringVars
  <2> HIDE DEF e
  <2> USE <2>0, <1>a DEF ringVars
  <2>1. WritersInWindow'
    BY Zenon DEF WritersInWindow, InWindow
  <2>2. CheckedFits'
    <3>1. Fits(r)
      BY <1>c, CapacityAssumption DEF BufferFull, WritersInWindow, InWindow, Fits
    <3>2. \A f \in checked : f.revision # r
      BY Zenon DEF OnePlace
    <3> QED BY Zenon, <3>1, <3>2 DEF CheckedFits, Fits, InWindow
  <2>3. RingFits'
    BY Zenon DEF RingFits, Fits, InWindow
  <2>4. OnePlace'
    BY Zenon DEF OnePlace
  <2>5. CollectorAtNext'
    BY Zenon DEF CollectorAtNext
  <2>6. NoRevisionLost'
    BY Zenon DEF NoRevisionLost, Located, Holding
  <2>7. PanicOnlyWhenFull'
    BY Zenon DEF PanicOnlyWhenFull
  <2>8. DroppedApart'
    BY Zenon DEF DroppedApart
  <2> QED BY Zenon, <2>1, <2>2, <2>3, <2>4, <2>5, <2>6, <2>7, <2>8
<1> QED BY Zenon, <1>b, <1>c

\* The slot an event is stored into is empty, because within Capacity
\* revisions of the committed one a slot stands for one revision only.
LEMMA SlotFree ==
  ASSUME TypeOK, Inv, NEW e \in checked
  PROVE  ring[Slot(e.revision)] = Nil
<1> USE Typed DEF TypeOK, Inv
<1> DEFINE s == Slot(e.revision)
<1>1. e.revision \in Nat /\ s \in Slots
  BY Zenon, SlotInSlots
<1>2. SUFFICES ASSUME ring[s] # Nil PROVE FALSE
  BY Zenon
<1>3. /\ ring[s].revision \in Nat
      /\ Slot(ring[s].revision) = s
      /\ Fits(ring[s].revision)
      /\ Fits(e.revision)
  BY Zenon, <1>1, <1>2 DEF RingFits, CheckedFits
<1>4. ring[s].revision = e.revision
  <2> DEFINE a == ring[s].revision
             b == e.revision
  <2>1. /\ a \in Nat /\ b \in Nat /\ committedRevision \in Nat /\ Slot(a) = Slot(b)
        /\ committedRevision < a /\ a - committedRevision < Capacity
        /\ committedRevision < b /\ b - committedRevision < Capacity
    BY Zenon, <1>1, <1>3 DEF Fits, InWindow
  <2> HIDE DEF a, b
  <2>2. a = b
    BY Zenon, <2>1, SlotUnique
  <2> QED BY Zenon, <2>2 DEF a, b
<1> QED BY Zenon, <1>1, <1>2, <1>4 DEF OnePlace

\* The store of notify keeps the invariant: it fills an empty slot.
LEMMA InvNotifyStore ==
  ASSUME TypeOK, Inv, NEW e \in checked, NotifyStore(e)
  PROVE  Inv'
<1> USE Typed DEF TypeOK, Inv
<1> DEFINE s == Slot(e.revision)
<1>0. s \in Slots /\ e \in Event /\ e.revision \in Nat /\ e # Nil
  BY Zenon, SlotInSlots
<1>a. /\ ring' = [ring EXCEPT ![s] = e]
      /\ checked' = checked \ {e}
      /\ UNCHANGED <<committedRevision, dealRevision, collector, panicked, writing,
                     dropped, events>>
  BY Zenon DEF NotifyStore, StoreEvent
<1>b. ring[s] = Nil
  BY Zenon, SlotFree
<1>1. WritersInWindow'
  BY Zenon, <1>a DEF WritersInWindow, InWindow
<1>2. CheckedFits'
  BY Zenon, <1>a DEF CheckedFits, Fits, InWindow
<1>3. RingFits'
  <2>1. Fits(e.revision)
    BY Zenon DEF CheckedFits
  <2> QED BY Zenon, <1>0, <1>a, <2>1 DEF RingFits, Fits, InWindow
<1>4. OnePlace'
  BY Zenon, <1>0, <1>a DEF OnePlace, CheckedFits
<1>5. CollectorAtNext'
  <2>1. CASE collector.step = "clear"
    <3>1. collector.event.revision \in Nat
      BY Zenon, <2>1 DEF CollectorAtNext
    <3>2. Slot(collector.event.revision) # s
      BY Zenon, <2>1, <1>b, <3>1 DEF CollectorAtNext
    <3> QED BY Zenon, <1>0, <1>a, <3>1, <3>2, <2>1, SlotInSlots DEF CollectorAtNext
  <2>2. CASE collector.step \in {"append", "commit"}
    <3>1. /\ collector.event.revision \in Nat
          /\ collector.event.revision = committedRevision + 1
          /\ collector.event.revision # e.revision
      BY Zenon, <2>2 DEF CollectorAtNext
    <3>2. Fits(e.revision)
      BY Zenon DEF CheckedFits
    <3>3. Slot(collector.event.revision) # s
      <4> DEFINE a == collector.event.revision
                 b == e.revision
      <4>1. /\ a \in Nat /\ b \in Nat /\ committedRevision \in Nat /\ a # b
            /\ committedRevision < a /\ a - committedRevision < Capacity
            /\ committedRevision < b /\ b - committedRevision < Capacity
        BY <1>0, <3>1, <3>2, CapacityAssumption DEF Fits, InWindow
      <4> HIDE DEF a, b
      <4>2. Slot(a) # Slot(b)
        BY Zenon, <4>1, SlotUnique
      <4> QED BY Zenon, <4>2 DEF a, b
    <3> QED BY Zenon, <1>0, <1>a, <3>1, <3>3, <2>2, SlotInSlots DEF CollectorAtNext
  <2>3. CASE collector.step \in {"load", "publish"}
    BY Zenon, <1>a, <2>3 DEF CollectorAtNext
  <2> QED BY Zenon, <2>1, <2>2, <2>3 DEF CollectorSteps
<1>6. NoRevisionLost'
  <2> SUFFICES ASSUME NEW r \in (committedRevision + 1) .. dealRevision, Located(r)
               PROVE  Located(r)'
    BY Zenon, <1>a DEF NoRevisionLost
  <2>1. CASE r = e.revision
    BY Zenon, <1>0, <1>a, <2>1 DEF Located
  <2>2. CASE r # e.revision
    BY Zenon, <1>0, <1>a, <1>b, <2>2 DEF Located, Holding
  <2> QED BY Zenon, <2>1, <2>2
<1>7. PanicOnlyWhenFull'
  BY Zenon, <1>a DEF PanicOnlyWhenFull
<1>8. DroppedApart'
  BY Zenon, <1>a DEF DroppedApart
<1> QED BY Zenon, <1>1, <1>2, <1>3, <1>4, <1>5, <1>6, <1>7, <1>8

\* Reading a filled slot keeps the invariant: it holds the next revision.
LEMMA InvLoad ==
  ASSUME TypeOK, Inv, Load
  PROVE  Inv'
<1> USE Typed DEF TypeOK, Inv
<1> DEFINE s == Slot(committedRevision + 1)
           e == ring[s]
<1>0. s \in Slots /\ e # Nil /\ e \in Event /\ e.revision \in Nat
  BY SlotInSlots DEF Load, CollectorLoad
<1>a. /\ collector.step = "load"
      /\ collector' = [step |-> "clear", event |-> e]
      /\ UNCHANGED <<committedRevision, dealRevision, ring, panicked, writing, checked,
                     dropped, events>>
  BY Zenon DEF Load, CollectorLoad, writerVars
<1>b. e.revision = committedRevision + 1 /\ e.revision <= dealRevision
  <2> DEFINE a == e.revision
             b == committedRevision + 1
  <2>1. /\ a \in Nat /\ b \in Nat /\ committedRevision \in Nat /\ Slot(a) = Slot(b)
        /\ committedRevision < a /\ a - committedRevision < Capacity
        /\ committedRevision < b /\ b - committedRevision < Capacity
    BY <1>0, CapacityAssumption DEF RingFits, Fits, InWindow
  <2>2. a = b
    <3> HIDE DEF a, b
    <3> QED BY Zenon, <2>1, SlotUnique
  <2> QED BY Zenon, <1>0, <2>2 DEF RingFits, Fits, InWindow
<1>1. WritersInWindow' /\ CheckedFits' /\ RingFits' /\ OnePlace' /\ DroppedApart'
  BY Zenon, <1>a DEF WritersInWindow, CheckedFits, RingFits, OnePlace, DroppedApart,
    Fits, InWindow
<1>2. CollectorAtNext'
  <2>1. /\ collector'.step = "clear"
        /\ collector'.event = e
        /\ ring'[Slot(e.revision)] = e
    BY Zenon, <1>a, <1>b
  <2> HIDE DEF e
  <2> QED BY Zenon, <1>0, <1>a, <1>b, <2>1 DEF CollectorAtNext
<1>3. NoRevisionLost'
  <2>1. ~Holding
    BY Zenon, <1>a DEF Holding
  <2> QED BY Zenon, <1>a, <2>1 DEF NoRevisionLost, Located
<1>4. PanicOnlyWhenFull'
  BY Zenon, <1>a DEF PanicOnlyWhenFull
<1> QED BY Zenon, <1>1, <1>2, <1>3, <1>4

\* Emptying the slot keeps the invariant: the event is in the collector's hand.
LEMMA InvClear ==
  ASSUME TypeOK, Inv, Clear
  PROVE  Inv'
<1> USE Typed DEF TypeOK, Inv
<1> DEFINE e == collector.event
           s == Slot(e.revision)
<1>0. /\ collector.step = "clear" /\ e # Nil /\ e \in Event /\ e.revision \in Nat
      /\ e.revision = committedRevision + 1 /\ e.revision <= dealRevision
      /\ s \in Slots /\ ring[s] = e
  BY Zenon, SlotInSlots DEF Clear, CollectorClear, CollectorAtNext
<1>a. /\ ring' = [ring EXCEPT ![s] = Nil]
      /\ collector'.step \in {"append", "commit"} /\ collector'.event = e
      /\ UNCHANGED <<committedRevision, dealRevision, panicked, writing, checked,
                     dropped, events>>
  BY Zenon DEF Clear, CollectorClear, writerVars
<1>1. WritersInWindow' /\ CheckedFits' /\ DroppedApart'
  BY Zenon, <1>a DEF WritersInWindow, CheckedFits, DroppedApart, Fits, InWindow
<1>2. RingFits'
  BY Zenon, <1>a DEF RingFits, Fits, InWindow
<1>3. OnePlace'
  BY Zenon, <1>a DEF OnePlace
<1>4. CollectorAtNext'
  <2>1. e.revision \notin writing /\ \A f \in checked : f.revision # e.revision
    BY Zenon, <1>0 DEF OnePlace
  <2>2. ring'[s] = Nil
    BY Zenon, <1>0, <1>a
  <2> HIDE DEF e
  <2> QED BY Zenon, <1>0, <1>a, <2>1, <2>2 DEF CollectorAtNext
<1>5. NoRevisionLost'
  <2> SUFFICES ASSUME NEW r \in (committedRevision + 1) .. dealRevision, Located(r)
               PROVE  Located(r)'
    BY Zenon, <1>a DEF NoRevisionLost
  <2>1. CASE r = e.revision
    BY Zenon, <1>a, <2>1 DEF Located, Holding
  <2>2. CASE r # e.revision
    BY Zenon, <1>0, <1>a, <2>2 DEF Located, Holding
  <2> QED BY Zenon, <2>1, <2>2
<1>6. PanicOnlyWhenFull'
  BY Zenon, <1>a DEF PanicOnlyWhenFull
<1> QED BY Zenon, <1>1, <1>2, <1>3, <1>4, <1>5, <1>6

\* Handing an uncertain event to the retry queue keeps the invariant.
LEMMA InvAppendRetry ==
  ASSUME TypeOK, Inv, AppendRetry
  PROVE  Inv'
<1> USE Typed DEF TypeOK, Inv
<1>a. /\ collector.step = "append"
      /\ collector'.step = "commit" /\ collector'.event = collector.event
      /\ UNCHANGED <<committedRevision, dealRevision, ring, panicked, writing, checked,
                     dropped, events>>
  BY Zenon DEF AppendRetry, CollectorAppend, writerVars
<1>1. WritersInWindow' /\ CheckedFits' /\ RingFits' /\ OnePlace' /\ DroppedApart'
  BY Zenon, <1>a DEF WritersInWindow, CheckedFits, RingFits, OnePlace, DroppedApart,
    Fits, InWindow
<1>2. CollectorAtNext'
  BY Zenon, <1>a DEF CollectorAtNext
<1>3. NoRevisionLost'
  BY Zenon, <1>a DEF NoRevisionLost, Located, Holding
<1>4. PanicOnlyWhenFull'
  BY Zenon, <1>a DEF PanicOnlyWhenFull
<1> QED BY Zenon, <1>1, <1>2, <1>3, <1>4

\* Committing moves the window up by one: nothing else lives at the revision
\* that leaves it.
LEMMA InvCommit ==
  ASSUME TypeOK, Inv, Commit
  PROVE  Inv'
<1> USE Typed DEF TypeOK, Inv
<1> DEFINE e == collector.event
<1>0. /\ collector.step = "commit" /\ e # Nil /\ e \in Event /\ e.revision \in Nat
      /\ e.revision = committedRevision + 1 /\ e.revision <= dealRevision
      /\ Slot(e.revision) \in Slots /\ ring[Slot(e.revision)] = Nil
      /\ e.revision \notin writing /\ \A f \in checked : f.revision # e.revision
  BY Zenon, SlotInSlots DEF Commit, CollectorCommit, CollectorAtNext
<1>a. /\ committedRevision' = committedRevision + 1
      /\ \/ collector'.step = "publish" /\ collector'.event = e
         \/ collector' = [step |-> "load", event |-> Nil]
      /\ ~panicked
      /\ UNCHANGED <<dealRevision, ring, panicked, writing, checked, dropped, events>>
  BY <1>0 DEF Commit, CollectorCommit, TSOCommit, writerVars
<1>1. WritersInWindow'
  BY <1>0, <1>a DEF WritersInWindow, InWindow
<1>2. CheckedFits'
  BY <1>0, <1>a, CapacityAssumption DEF CheckedFits, Fits, InWindow
<1>3. RingFits'
  <2>1. \A s \in Slots : ring[s] # Nil => ring[s].revision # e.revision
    BY Zenon, <1>0 DEF RingFits
  <2> QED BY <1>0, <1>a, <2>1, CapacityAssumption DEF RingFits, Fits, InWindow
<1>4. OnePlace'
  BY Zenon, <1>a DEF OnePlace
<1>5. CollectorAtNext'
  <2> HIDE DEF e
  <2> QED BY <1>0, <1>a DEF CollectorAtNext
<1>6. NoRevisionLost'
  <2> SUFFICES ASSUME NEW r \in (committedRevision' + 1) .. dealRevision
               PROVE  Located(r)'
    BY Zenon, <1>a DEF NoRevisionLost
  <2>1. r \in (committedRevision + 1) .. dealRevision /\ r # e.revision
    BY <1>0, <1>a
  <2>2. Located(r)
    BY Zenon, <2>1 DEF NoRevisionLost
  <2> QED BY Zenon, <1>a, <2>1, <2>2 DEF Located, Holding
<1>7. PanicOnlyWhenFull'
  BY Zenon, <1>a DEF PanicOnlyWhenFull
<1>8. DroppedApart'
  BY Zenon, <1>a DEF DroppedApart
<1> QED BY Zenon, <1>1, <1>2, <1>3, <1>4, <1>5, <1>6, <1>7, <1>8

\* Publishing an event keeps the invariant.
LEMMA InvPublish ==
  ASSUME TypeOK, Inv, Publish
  PROVE  Inv'
<1> USE Typed DEF TypeOK, Inv
<1>a. /\ collector.step = "publish"
      /\ collector' = [step |-> "load", event |-> Nil]
      /\ UNCHANGED <<committedRevision, dealRevision, ring, panicked, writing, checked,
                     dropped>>
  BY Zenon DEF Publish, CollectorPublish, writerVars
<1>1. WritersInWindow' /\ CheckedFits' /\ RingFits' /\ OnePlace' /\ DroppedApart'
  BY Zenon, <1>a DEF WritersInWindow, CheckedFits, RingFits, OnePlace, DroppedApart,
    Fits, InWindow
<1>2. CollectorAtNext'
  BY Zenon, <1>a DEF CollectorAtNext
<1>3. NoRevisionLost'
  BY Zenon, <1>a DEF NoRevisionLost, Located, Holding
<1>4. PanicOnlyWhenFull'
  BY Zenon, <1>a DEF PanicOnlyWhenFull
<1> QED BY Zenon, <1>1, <1>2, <1>3, <1>4

\* The state of NewBackend satisfies the invariant.
LEMMA InvInit == Init => Inv
<1> SUFFICES ASSUME Init PROVE Inv
  BY Zenon
<1> USE SequencerAssumption DEF Init, RingInit
<1>1. WritersInWindow /\ CheckedFits /\ RingFits /\ OnePlace /\ DroppedApart
  BY DEF WritersInWindow, CheckedFits, RingFits, OnePlace, DroppedApart
<1>2. CollectorAtNext /\ NoRevisionLost /\ PanicOnlyWhenFull
  BY DEF CollectorAtNext, NoRevisionLost, PanicOnlyWhenFull
<1> QED BY Zenon, <1>1, <1>2 DEF Inv

\* Every step keeps the invariant.
LEMMA InvNext ==
  ASSUME TypeOK, Inv, [Next]_vars
  PROVE  Inv'
<1>1. CASE Deal
  BY Zenon, <1>1, InvDeal
<1>2. CASE DealDriftBack
  BY Zenon, <1>2, InvDealDriftBack
<1>3. ASSUME NEW r \in writing, NEW res \in Results, NotifyCheck(r, res)
      PROVE  Inv'
  BY Zenon, <1>3, InvNotifyCheck
<1>4. ASSUME NEW e \in checked, NotifyStore(e)
      PROVE  Inv'
  BY Zenon, <1>4, InvNotifyStore
<1>5. CASE Collect
  BY Zenon, <1>5, InvLoad, InvClear, InvAppendRetry, InvCommit, InvPublish DEF Collect
<1>6. CASE UNCHANGED vars
  <2> USE <1>6 DEF vars, ringVars, writerVars, Inv
  <2>1. WritersInWindow' /\ CheckedFits' /\ RingFits' /\ OnePlace' /\ DroppedApart'
    BY Zenon DEF WritersInWindow, CheckedFits, RingFits, OnePlace, DroppedApart, Fits,
      InWindow
  <2>2. CollectorAtNext'
    BY Zenon DEF CollectorAtNext
  <2>3. NoRevisionLost' /\ PanicOnlyWhenFull'
    BY Zenon DEF NoRevisionLost, Located, Holding, PanicOnlyWhenFull
  <2> QED BY Zenon, <2>1, <2>2, <2>3
<1> QED BY Zenon, <1>1, <1>2, <1>3, <1>4, <1>5, <1>6 DEF Next

\* The inductive invariant holds throughout: the ring, the writers and the
\* collector never disagree on who owns a revision (backend.notify and
\* collectStorageWriteEvents), for every ring capacity and start revision.
THEOREM Invariance == Spec => []Inv
<1>1. Init => Inv
  BY Zenon, InvInit
<1>2. TypeOK /\ Inv /\ [Next]_vars => Inv'
  BY Zenon, InvNext
<1> QED BY <1>1, <1>2, TypeCorrect, PTL DEF Spec

\* No revision gets lost between deal and commit: the collector's wait for
\* committedRevision+1 ends unless that revision was given up by its writer.
THEOREM NothingLost == Spec => []NoRevisionLost
<1>1. Inv => NoRevisionLost
  BY Zenon DEF Inv
<1> QED BY <1>1, Invariance, PTL

\* notify panics only when Capacity revisions are outstanding.
THEOREM PanicMeansFull == Spec => []PanicOnlyWhenFull
<1>1. Inv => PanicOnlyWhenFull
  BY Zenon DEF Inv
<1> QED BY <1>1, Invariance, PTL

-----------------------------------------------------------------------------
\* notify never stores over an event that was not collected, for every ring
\* capacity (action property NoOverwrite).
THEOREM SlotsNotOverwritten == Spec => NoOverwrite
<1> DEFINE Kept == \A s \in Slots : ring[s] # Nil =>
                     \/ ring'[s] = ring[s]
                     \/ ring'[s] = Nil /\ collector.event = ring[s]
<1>1. TypeOK /\ Inv /\ [Next]_vars => [Kept]_vars
  <2> SUFFICES ASSUME TypeOK, Inv, Next PROVE Kept
    BY Zenon
  <2> USE DEF TypeOK
  <2>1. CASE UNCHANGED ring
    BY Zenon, <2>1
  <2>2. ASSUME NEW e \in checked, NotifyStore(e)
        PROVE  Kept
    <3>1. ring[Slot(e.revision)] = Nil
      BY Zenon, SlotFree
    <3> QED BY Zenon, <2>2, <3>1 DEF NotifyStore, StoreEvent
  <2>3. CASE Clear
    <3>1. ring[Slot(collector.event.revision)] = collector.event
      BY Zenon, <2>3 DEF Inv, CollectorAtNext, Clear, CollectorClear
    <3> QED BY Zenon, <2>3, <3>1 DEF Clear, CollectorClear
  <2>4. \/ UNCHANGED ring
        \/ \E e \in checked : NotifyStore(e)
        \/ Clear
    BY Zenon DEF Next, Collect, Deal, DealDriftBack, NotifyCheck, Load, AppendRetry,
      Commit,
           Publish, CollectorLoad, CollectorAppend, CollectorCommit, CollectorPublish
  <2> QED BY Zenon, <2>1, <2>2, <2>3, <2>4
<1> QED BY <1>1, TypeCorrect, Invariance, PTL DEF Spec, NoOverwrite

-----------------------------------------------------------------------------
(* The steps of the sequencer, seen through the mapping to RevisionLog.    *)

\* Initial states map to initial states.
LEMMA RLInit == Init => RL!Init
<1> SUFFICES ASSUME Init PROVE RL!Init
  BY Zenon
<1>1. Inflight = {} /\ Waiting = {} /\ Published = <<>>
  BY Zenon DEF Init, RingInit, Inflight, Waiting, Published, Holding
<1> QED BY Zenon, <1>1 DEF RL!Init, Init, RingInit

\* Dealing a revision, used or given up, begins a write.
LEMMA RLBegin ==
  ASSUME TypeOK, Inv, Deal \/ DealDriftBack
  PROVE  RL!Begin
<1>1. dealRevision' = dealRevision + 1
  BY Zenon DEF Deal, DealDriftBack, TSODeal
<1>2. UNCHANGED <<committedRevision, ring, collector, checked, events>>
  BY Zenon DEF Deal, DealDriftBack
<1>3. writing' \cup dropped' = writing \cup dropped \cup {dealRevision + 1}
  BY Zenon, <1>1 DEF Deal, DealDriftBack
<1>4. Inflight' = Inflight \cup {dealRevision + 1}
  BY Zenon, <1>2, <1>3 DEF Inflight
<1>5. Waiting' = Waiting /\ Published' = Published
  BY Zenon, <1>2 DEF Waiting, Published, Holding
<1> QED BY Zenon, <1>1, <1>2, <1>4, <1>5 DEF RL!Begin

\* The capacity check does not show.
LEMMA RLNotifyCheck ==
  ASSUME TypeOK, Inv, NEW r \in writing, NEW res \in Results, NotifyCheck(r, res)
  PROVE  UNCHANGED RL!logVars
<1>1. UNCHANGED <<committedRevision, dealRevision, ring, collector, dropped, events>>
  BY Zenon DEF NotifyCheck
<1>2. Inflight' = Inflight
  <2>1. CASE UNCHANGED <<writing, checked>>
    BY Zenon, <1>1, <2>1 DEF Inflight
  <2>2. CASE /\ writing' = writing \ {r}
             /\ checked' = checked \cup {[revision |-> r, result |-> res]}
    <3> DEFINE f == [revision |-> r, result |-> res]
    <3>0. f.revision = r /\ checked' = checked \cup {f}
      BY Zenon, <2>2
    <3> HIDE DEF f
    <3>1. {e.revision : e \in checked'} = {e.revision : e \in checked} \cup {r}
      BY Zenon, <3>0
    <3> QED BY Zenon, <1>1, <2>2, <3>1 DEF Inflight
  <2> QED BY Zenon, <2>1, <2>2 DEF NotifyCheck
<1>3. Waiting' = Waiting /\ Published' = Published
  BY Zenon, <1>1 DEF Waiting, Published, Holding
<1> QED BY Zenon, <1>1, <1>2, <1>3 DEF RL!logVars

\* The store into the ring makes a result known.
LEMMA RLNotifyStore ==
  ASSUME TypeOK, Inv, NEW e \in checked, NotifyStore(e)
  PROVE  RL!Resolve
<1> DEFINE s == Slot(e.revision)
<1>0. /\ e \in Event /\ e # Nil /\ e.revision \in Nat /\ s \in Slots
      /\ e.result \in Results
      /\ e = [revision |-> e.revision, result |-> e.result]
  BY Zenon, Typed, SlotInSlots DEF TypeOK, Event
<1>1. /\ ring' = [ring EXCEPT ![s] = e]
      /\ checked' = checked \ {e}
      /\ UNCHANGED <<committedRevision, dealRevision, collector, writing, dropped, events>>
  BY Zenon DEF NotifyStore, StoreEvent
<1>2. ring[s] = Nil
  BY Zenon, SlotFree
<1>3. e.revision \in Inflight
  BY Zenon DEF Inflight
<1>4. Inflight' = Inflight \ {e.revision}
  <2>1. e.revision \notin writing \cup dropped
    BY Zenon DEF Inv, OnePlace, DroppedApart
  <2>2. \A f \in checked : f.revision = e.revision => f = e
    BY Zenon DEF Inv, CheckedFits
  <2>3. {f.revision : f \in checked'} = {f.revision : f \in checked} \ {e.revision}
    BY Zenon, <1>1, <2>2
  <2> QED BY Zenon, <1>1, <2>1, <2>3 DEF Inflight
<1>5. Waiting' = Waiting \cup {e}
  <2>1. {ring'[t] : t \in {u \in Slots : ring'[u] # Nil}}
          = {ring[t] : t \in {u \in Slots : ring[u] # Nil}} \cup {e}
    BY Zenon, <1>0, <1>1, <1>2 DEF TypeOK
  <2> QED BY Zenon, <1>1, <2>1 DEF Waiting, Holding
<1>6. Published' = Published
  BY Zenon, <1>1 DEF Published
<1> QED BY Zenon, <1>0, <1>1, <1>3, <1>4, <1>5, <1>6 DEF RL!Resolve, Results

\* Emptying a slot does not show: the event is still waiting.
LEMMA RLClear ==
  ASSUME TypeOK, Inv, Clear
  PROVE  UNCHANGED RL!logVars
<1> DEFINE e == collector.event
           s == Slot(e.revision)
<1>0. /\ collector.step = "clear" /\ e # Nil /\ e \in Event
      /\ s \in Slots /\ ring[s] = e
  BY Zenon, SlotInSlots, Typed DEF Clear, CollectorClear, Inv, CollectorAtNext
<1>1. /\ ring' = [ring EXCEPT ![s] = Nil]
      /\ collector'.step \in {"append", "commit"} /\ collector'.event = e
      /\ UNCHANGED <<committedRevision, dealRevision, writing, checked, dropped, events>>
  BY Zenon DEF Clear, CollectorClear, TypeOK, writerVars
<1>2. Inflight' = Inflight
  BY Zenon, <1>1 DEF Inflight
<1>3. Waiting' = Waiting
  <2>1. ~Holding /\ Holding'
    BY Zenon, <1>0, <1>1 DEF Holding
  <2>2. {ring'[t] : t \in {u \in Slots : ring'[u] # Nil}} \cup {e}
          = {ring[t] : t \in {u \in Slots : ring[u] # Nil}}
    <3> HIDE DEF e
    <3> QED BY Zenon, <1>0, <1>1 DEF TypeOK
  <2> QED BY Zenon, <1>1, <2>1, <2>2 DEF Waiting
<1>4. Published' = Published
  BY Zenon, <1>0, <1>1 DEF Published
<1> QED BY Zenon, <1>1, <1>2, <1>3, <1>4 DEF RL!logVars

\* Committing a revision publishes the next result.
LEMMA RLCommit ==
  ASSUME TypeOK, Inv, Commit
  PROVE  RL!Publish
<1> DEFINE e == collector.event
           R == {ring[t] : t \in {u \in Slots : ring[u] # Nil}}
<1>0. /\ collector.step = "commit" /\ e # Nil /\ e \in Event /\ e.revision \in Nat
      /\ e.revision = committedRevision + 1 /\ e.revision <= dealRevision
      /\ ring[Slot(e.revision)] = Nil
  BY Zenon, Typed DEF Commit, CollectorCommit, Inv, CollectorAtNext
<1>1. /\ committedRevision' = committedRevision + 1
      /\ UNCHANGED <<dealRevision, ring, writing, checked, dropped, events>>
  BY <1>0 DEF Commit, CollectorCommit, TSOCommit, TypeOK, writerVars
<1>2. Inflight' = Inflight
  BY Zenon, <1>1 DEF Inflight
<1>3. Waiting = R \cup {e} /\ e \in Waiting
  BY Zenon, <1>0 DEF Waiting, Holding
<1>4. e \notin R
  BY Zenon, <1>0 DEF Inv, RingFits
<1>5. ~Holding' /\ Waiting' = R
  <2>1. ~Holding'
    BY Zenon DEF Commit, CollectorCommit, Holding, TypeOK
  <2> QED BY Zenon, <1>1, <2>1 DEF Waiting
<1>6. Waiting' = Waiting \ {e}
  BY Zenon, <1>3, <1>4, <1>5
<1>7. Published' = IF e.result = "ok" THEN Append(Published, e.revision) ELSE Published
  <2>1. Published = events
    BY Zenon, <1>0 DEF Published
  <2>2. CASE e.result = "ok"
    <3>1. collector'.step = "publish" /\ collector'.event = e
      BY Zenon, <2>2 DEF Commit, CollectorCommit, TypeOK
    <3> QED BY Zenon, <1>1, <2>1, <2>2, <3>1 DEF Published
  <2>3. CASE e.result # "ok"
    <3>1. collector'.step = "load"
      BY Zenon, <2>3 DEF Commit, CollectorCommit
    <3> QED BY Zenon, <1>1, <2>1, <2>3, <3>1 DEF Published
  <2> QED BY Zenon, <2>2, <2>3
<1> QED BY Zenon, <1>0, <1>1, <1>2, <1>3, <1>6, <1>7 DEF RL!Publish

\* Reading a slot, queueing a retry and publishing do not show.
LEMMA RLOther ==
  ASSUME TypeOK, Inv, Load \/ AppendRetry \/ Publish \/ UNCHANGED vars
  PROVE  UNCHANGED RL!logVars
<1>1. UNCHANGED <<committedRevision, dealRevision, ring, writing, checked, dropped>>
  BY Zenon DEF Load, AppendRetry, Publish, CollectorLoad, CollectorAppend,
    CollectorPublish,
         writerVars, vars, ringVars
<1>2. Inflight' = Inflight
  BY Zenon, <1>1 DEF Inflight
<1>3. Holding' = Holding /\ (Holding => collector'.event = collector.event)
  BY DEF Load, AppendRetry, Publish, CollectorLoad, CollectorAppend, CollectorPublish,
         Holding, TypeOK, vars, ringVars
<1>4. Waiting' = Waiting
  BY Zenon, <1>1, <1>3 DEF Waiting
<1>5. Published' = Published
  <2>1. CASE Publish
    <3>1. collector.step = "publish" /\ collector'.step = "load"
      BY Zenon, <2>1 DEF Publish, CollectorPublish
    <3>2. events' = Append(events, collector.event.revision)
      BY Zenon, <2>1 DEF Publish
    <3> QED BY Zenon, <3>1, <3>2 DEF Published
  <2>2. CASE Load \/ AppendRetry \/ UNCHANGED vars
    <3>1. events' = events
      BY Zenon, <2>2 DEF Load, AppendRetry, vars
    <3>2. CASE UNCHANGED vars
      BY Zenon, <3>1, <3>2 DEF Published, vars, ringVars
    <3>3. CASE Load \/ AppendRetry
      <4>1. collector.step # "publish" /\ collector'.step # "publish"
        BY <3>3 DEF Load, AppendRetry, CollectorLoad, CollectorAppend, TypeOK
      <4> QED BY Zenon, <3>1, <4>1 DEF Published
    <3> QED BY Zenon, <2>2, <3>2, <3>3
  <2> QED BY Zenon, <2>1, <2>2
<1> QED BY Zenon, <1>1, <1>2, <1>4, <1>5 DEF RL!logVars

\* The sequencer implements RevisionLog: whatever the capacity of the ring,
\* events come out in revision order, without gap or duplicate, one for every
\* write that succeeded and none for the others.
THEOREM Refinement == Spec => ImplementsRevisionLog
<1>1. Init => RL!Init
  BY Zenon, RLInit
<1>2. TypeOK /\ Inv /\ [Next]_vars => [RL!Next]_RL!logVars
  <2> SUFFICES ASSUME TypeOK, Inv, [Next]_vars
               PROVE  RL!Next \/ UNCHANGED RL!logVars
    BY Zenon
  <2>1. CASE Deal \/ DealDriftBack
    BY Zenon, <2>1, RLBegin DEF RL!Next
  <2>2. ASSUME NEW r \in writing, NEW res \in Results, NotifyCheck(r, res)
        PROVE  UNCHANGED RL!logVars
    BY Zenon, <2>2, RLNotifyCheck
  <2>3. ASSUME NEW e \in checked, NotifyStore(e)
        PROVE  RL!Next
    BY Zenon, <2>3, RLNotifyStore DEF RL!Next
  <2>4. CASE Clear
    BY Zenon, <2>4, RLClear
  <2>5. CASE Commit
    BY Zenon, <2>5, RLCommit DEF RL!Next
  <2>6. CASE Load \/ AppendRetry \/ Publish \/ UNCHANGED vars
    BY Zenon, <2>6, RLOther
  <2> QED BY Zenon, <2>1, <2>2, <2>3, <2>4, <2>5, <2>6 DEF Next, Collect
<1> QED BY <1>1, <1>2, TypeCorrect, Invariance, PTL DEF Spec, ImplementsRevisionLog,
          RL!Spec

-----------------------------------------------------------------------------
(* catchUpEvents.                                                          *)

\* The quotient of catchUpEvents and its rest.
LEMMA Division ==
  ASSUME NEW n \in Nat, NEW m \in Nat \ {0}
  PROVE  /\ n \div m \in Nat
         /\ m * (n \div m) <= n
         /\ n <= m * (n \div m) + m - 1
  OBVIOUS

\* A factor above 0 may be cancelled.
LEMMA Cancel ==
  ASSUME NEW i \in Nat, NEW j \in Nat, NEW b \in Nat \ {0}, i * b < j * b
  PROVE  i < j
<1>1. ASSUME j <= i PROVE FALSE
  <2>1. PICK d \in Nat : i = j + d
    <3>1. i - j \in Nat /\ i = j + (i - j)
      BY <1>1
    <3> QED BY <3>1
  <2>2. i * b = j * b + d * b /\ d * b \in Nat
    BY <2>1
  <2> QED BY <2>2
<1> QED BY <1>1

\* The batch size catchUpEvents chooses is not 0, and as many batches as the
\* channel has room for take all events.
LEMMA BatchSizeFits ==
  ASSUME NEW n \in Nat \ {0}
  PROVE  /\ BatchSizeFor(n) \in Nat \ {0}
         /\ n <= ResultChanLength * BatchSizeFor(n)
<1> DEFINE l == ResultChanLength
           b == EventBatchSize
           m == l - 1
           q == n \div m
<1>1. l \in Nat /\ l >= 2 /\ b \in Nat \ {0} /\ b >= l - 2 /\ m \in Nat \ {0}
  BY CatchUpAssumption
<1>2. CASE n <= l * b
  <2>1. BatchSizeFor(n) = b
    BY <1>1, <1>2 DEF BatchSizeFor
  <2> QED BY <1>1, <1>2, <2>1
<1>3. CASE n > l * b
  <2>1. BatchSizeFor(n) = q
    BY <1>3 DEF BatchSizeFor
  <2>2. q \in Nat /\ m * q <= n /\ n <= m * q + m - 1
    BY Zenon, <1>1, Division
  <2>3. l * b = m * b + b /\ l * q = m * q + q
    <3> HIDE DEF q
    <3> QED BY <1>1, <2>2
  <2>4. q >= b
    <3>1. m * b < m * q + m - b
      <4> HIDE DEF q, m
      <4> QED BY <1>1, <1>3, <2>2, <2>3
    <3>2. b * m < (q + 1) * m
      <4> HIDE DEF q, m
      <4> QED BY <1>1, <2>2, <3>1
    <3>3. b < q + 1
      <4> HIDE DEF q, m
      <4> QED BY <1>1, <2>2, <3>2, Cancel
    <3> HIDE DEF q, m
    <3> QED BY <1>1, <2>2, <3>3
  <2>5. n <= l * q
    <3>1. m - 1 <= q
      <4> HIDE DEF q
      <4> QED BY <1>1, <2>2, <2>4
    <3> HIDE DEF q, m
    <3> QED BY <1>1, <2>2, <2>3, <3>1
  <2> HIDE DEF q
  <2> QED BY <1>1, <2>1, <2>2, <2>4, <2>5
<1>4. n <= l * b \/ n > l * b
  BY <1>1
<1> QED BY <1>2, <1>3, <1>4

\* The inductive invariant: what is still stacked fits into the room that is left,
\* counted in batches of the size that was chosen.
CatchUpInv ==
  /\ CatchUpTypeOK
  /\ step = "sending" =>
       /\ stacked > 0
       /\ stacked + Len(result) * batchSize <= ResultChanLength * batchSize

\* catchUpEvents begins with nothing stacked.
LEMMA CatchUpInitInv == CatchUpInit => CatchUpInv
  BY CatchUpAssumption DEF CatchUpInit, CatchUpInv, CatchUpTypeOK

\* Every step of catchUpEvents keeps the room.
LEMMA CatchUpNextInv == CatchUpInv /\ [CatchUpNext]_catchUpVars => CatchUpInv'
<1> SUFFICES ASSUME CatchUpInv, [CatchUpNext]_catchUpVars PROVE CatchUpInv'
  OBVIOUS
<1> USE DEF CatchUpInv
<1>1. ASSUME NEW n \in 1 .. MaxEvents, Begin(n) PROVE CatchUpInv'
  <2>1. n \in Nat \ {0}
    OBVIOUS
  <2> QED
    BY <1>1, <2>1, BatchSizeFits, CatchUpAssumption DEF Begin, CatchUpTypeOK
<1>2. CASE Send /\ stacked > batchSize
  <2>1. stacked' = stacked - batchSize /\ batchSize' = batchSize /\ step' = step
        /\ result' = Append(result, batchSize) /\ step = "sending"
    BY <1>2 DEF Send, CatchUpTypeOK
  <2>2. CatchUpTypeOK' /\ Len(result') = Len(result) + 1 /\ Len(result) \in Nat
    BY <1>2, <2>1 DEF CatchUpTypeOK
  <2>3. (Len(result) + 1) * batchSize = Len(result) * batchSize + batchSize
    BY <2>2 DEF CatchUpTypeOK
  <2>4. Len(result) * batchSize \in Nat /\ ResultChanLength * batchSize \in Nat
    BY <2>2, CatchUpAssumption DEF CatchUpTypeOK
  <2> QED BY <1>2, <2>1, <2>2, <2>3, <2>4 DEF CatchUpTypeOK
<1>3. CASE Send /\ stacked <= batchSize
  <2>1. stacked' = 0 /\ batchSize' = batchSize /\ step' = "returned"
        /\ result' = Append(result, stacked) /\ step = "sending"
    BY <1>3 DEF Send, CatchUpTypeOK
  <2>2. stacked \in Nat \ {0} /\ result \in Seq(Nat \ {0})
    BY <2>1 DEF CatchUpTypeOK
  <2>3. CatchUpTypeOK'
    BY <2>1, <2>2 DEF CatchUpTypeOK
  <2> QED BY <2>1, <2>3
<1>4. CASE UNCHANGED catchUpVars
  BY <1>4 DEF catchUpVars, CatchUpTypeOK
<1>5. Send => stacked > batchSize \/ stacked <= batchSize
  BY DEF Send
<1> QED BY <1>1, <1>2, <1>3, <1>4, <1>5 DEF CatchUpNext

\* With something still stacked, less than the channel is full.
LEMMA InvNeverBlocks == CatchUpInv => NeverBlocks
<1> SUFFICES ASSUME CatchUpInv, step = "sending" PROVE Len(result) < ResultChanLength
  BY DEF NeverBlocks
<1>1. Len(result) \in Nat /\ ResultChanLength \in Nat /\ batchSize \in Nat \ {0} /\ stacked \in Nat \ {0}
  BY CatchUpAssumption DEF CatchUpInv, CatchUpTypeOK
<1>2. Len(result) * batchSize \in Nat /\ ResultChanLength * batchSize \in Nat
  BY <1>1
<1>3. Len(result) * batchSize < ResultChanLength * batchSize
  BY <1>1, <1>2 DEF CatchUpInv
<1> QED BY <1>1, <1>3, Cancel

\* catchUpEvents always finds room in the result channel before anyone reads it.
THEOREM CatchUpNeverBlocks == CatchUpSpec => []NeverBlocks
  BY CatchUpInitInv, CatchUpNextInv, InvNeverBlocks, PTL DEF CatchUpSpec
==============================================================================
