------------------------------ MODULE EventRing ------------------------------
(***************************************************************************)
(* The revision sequencer of a KubeBrain leader: the logical clock         *)
(* (pkg/backend/tso), the ring buffer through which every write hands in   *)
(* its result, and the single goroutine that drains the buffer in revision *)
(* order (collectStorageWriteEvents).  The module holds the shared state   *)
(* and one operator per atomic step; Sequencer closes it with abstract     *)
(* writers and WritePath with the real ones.                               *)
(*                                                                         *)
(* An event is a record whose field revision is the revision the write was *)
(* dealt and whose field result is "ok" (Valid), "uncertain" (the error is *)
(* ErrUncertainResult) or "failed" (any other error).                      *)
(***************************************************************************)
EXTENDS Integers

CONSTANT Capacity        \* watchersChanCapacity, the number of slots

ASSUME CapacityAssumption == Capacity \in Nat \ {0}

VARIABLES
  committedRevision,     \* naiveTSO.committedRevision
  dealRevision,          \* naiveTSO.dealRevision
  ring,                  \* watchEventsRingBuffer: slot -> event, or Nil
  collector,             \* the collecting goroutine: next step, event at hand
  panicked               \* a notify met a full buffer: the process is gone

ringVars == <<committedRevision, dealRevision, ring, collector, panicked>>

Results == {"ok", "uncertain", "failed"}
CollectorSteps == {"load", "clear", "append", "commit", "publish"}

Nil == [revision |-> 0]
Slots == 0 .. (Capacity - 1)
Slot(r) == r % Capacity

RingInit(start) ==
  /\ committedRevision = start
  /\ dealRevision = start
  /\ ring = [s \in Slots |-> Nil]
  /\ collector = [step |-> "load", event |-> Nil]
  /\ panicked = FALSE

-----------------------------------------------------------------------------
(* The logical clock.                                                      *)

\* naiveTSO.Deal: an atomic increment.
TSODeal == dealRevision' = dealRevision + 1

\* naiveTSO.Commit: the store is unconditional; dealRevision only follows
\* when it lags behind.
TSOCommit(r) ==
  /\ committedRevision' = r
  /\ dealRevision' = IF dealRevision < r THEN r ELSE dealRevision

-----------------------------------------------------------------------------
(* notify: the check against the capacity, then the store.                 *)

\* Mutant of BufferFull: one slot is left unused.
BufferFull_TooEarly(r) == r - committedRevision >= Capacity - 1

\* revision-b.GetCurrentRevision() >= watchersChanCapacity in uint64: a
\* revision below the committed one wraps around and is "full" as well.
BufferFull(r) ==
  \/ r < committedRevision
  \/ r - committedRevision >= Capacity

StoreEvent(e) == ring' = [ring EXCEPT ![Slot(e.revision)] = e]

-----------------------------------------------------------------------------
(* collectStorageWriteEvents, one operator per access to shared state.     *)

\* Mutant of CollectorLoad: any filled slot will do.
CollectorLoad_AnySlot ==
  /\ collector.step = "load"
  /\ \E s \in Slots : /\ ring[s] # Nil
                      /\ collector' = [step |-> "clear", event |-> ring[s]]
  /\ UNCHANGED <<committedRevision, dealRevision, ring>>

\* The slot of the next revision is read; an empty one is read again.
CollectorLoad ==
  LET e == ring[Slot(committedRevision + 1)] IN
  /\ collector.step = "load"
  /\ e # Nil
  /\ collector' = [step |-> "clear", event |-> e]
  /\ UNCHANGED <<committedRevision, dealRevision, ring>>

\* Mutant of CollectorClear: a failed write is dropped and its revision is
\* never committed.
CollectorClear_SkipFailed ==
  LET e == collector.event IN
  /\ collector.step = "clear"
  /\ ring' = [ring EXCEPT ![Slot(e.revision)] = Nil]
  /\ collector' = IF e.result = "failed" THEN [step |-> "load", event |-> Nil]
                  ELSE [collector EXCEPT !.step =
                          IF e.result = "uncertain" THEN "append" ELSE "commit"]
  /\ UNCHANGED <<committedRevision, dealRevision>>

\* The slot is emptied.
CollectorClear ==
  LET e == collector.event IN
  /\ collector.step = "clear"
  /\ ring' = [ring EXCEPT ![Slot(e.revision)] = Nil]
  /\ collector' = [collector EXCEPT
       !.step = IF e.result = "uncertain" THEN "append" ELSE "commit"]
  /\ UNCHANGED <<committedRevision, dealRevision>>

\* An uncertain event goes to the retry queue before the revision advances;
\* the queue itself belongs to WritePath.
CollectorAppend ==
  /\ collector.step = "append"
  /\ collector' = [collector EXCEPT !.step = "commit"]
  /\ UNCHANGED <<committedRevision, dealRevision, ring>>

\* SetCurrentRevision; an invalid event is done with.
CollectorCommit ==
  LET e == collector.event IN
  /\ collector.step = "commit"
  /\ TSOCommit(e.revision)
  /\ collector' = IF e.result = "ok"
                  THEN [collector EXCEPT !.step = "publish"]
                  ELSE [step |-> "load", event |-> Nil]
  /\ UNCHANGED ring

\* The event goes to the watch cache and the batch for the watchers.
CollectorPublish ==
  /\ collector.step = "publish"
  /\ collector' = [step |-> "load", event |-> Nil]
  /\ UNCHANGED <<committedRevision, dealRevision, ring>>
=============================================================================
