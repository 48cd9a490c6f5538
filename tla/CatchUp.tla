------------------------------- MODULE CatchUp -------------------------------
(***************************************************************************)
(* catchUpEvents (watch.go): Watch sends the events it found in the cache  *)
(* to the result channel before it returns the channel.  Nobody reads from *)
(* the channel until then, so a batch too many would hang the request, and *)
(* the goroutine that serves it, for ever.                                 *)
(*                                                                         *)
(* The events are told apart in Watch; here they are only counted.  The    *)
(* names leave room for those of the module this one is checked with.      *)
(***************************************************************************)
EXTENDS Integers, Sequences

CONSTANTS
  ResultChanLength,      \* resultChanLength, the capacity of the channel
  EventBatchSize,        \* eventBatchSize
  MaxEvents              \* bound: no request finds more

\* What the two constants of the package (100 and 300) have to satisfy.
ASSUME CatchUpAssumption ==
  /\ ResultChanLength \in Nat /\ ResultChanLength >= 2
  /\ EventBatchSize \in Nat \ {0}
  /\ EventBatchSize >= ResultChanLength - 2

VARIABLES
  step,                  \* of Watch: "idle", "sending", "returned"
  stacked,               \* len(events)
  batchSize,             \* the local variable of catchUpEvents
  result                 \* the channel: the lengths of the batches in it

catchUpVars == <<step, stacked, batchSize, result>>

CatchUpInit ==
  /\ step = "idle"
  /\ stacked = 0
  /\ batchSize = EventBatchSize
  /\ result = <<>>

\* Mutant of BatchSizeFor: as many batches as the channel has room for.
BatchSizeFor_Full(n) ==
  IF n > ResultChanLength * EventBatchSize THEN n \div ResultChanLength
  ELSE EventBatchSize

BatchSizeFor(n) ==
  IF n > ResultChanLength * EventBatchSize THEN n \div (ResultChanLength - 1)
  ELSE EventBatchSize

\* A request has found n events, n > 0.
Begin(n) ==
  /\ step # "sending"
  /\ step' = "sending"
  /\ stacked' = n
  /\ batchSize' = BatchSizeFor(n)
  /\ result' = <<>>

\* One turn of the loop; the send waits for room.
Send ==
  /\ step = "sending"
  /\ Len(result) < ResultChanLength
  /\ \/ /\ stacked > batchSize
        /\ result' = Append(result, batchSize)
        /\ stacked' = stacked - batchSize
        /\ UNCHANGED step
     \/ /\ stacked <= batchSize
        /\ result' = Append(result, stacked)
        /\ stacked' = 0
        /\ step' = "returned"
  /\ UNCHANGED batchSize

CatchUpNext == Send \/ \E n \in 1 .. MaxEvents : Begin(n)

CatchUpSpec == CatchUpInit /\ [][CatchUpNext]_catchUpVars

-----------------------------------------------------------------------------
(* Properties.                                                             *)

\* The variables have their types; no batch is empty.
CatchUpTypeOK ==
  /\ step \in {"idle", "sending", "returned"}
  /\ stacked \in Nat
  /\ batchSize \in Nat \ {0}
  /\ result \in Seq(Nat \ {0})

\* catchUpEvents always finds room ("to avoid result chan full and hang",
\* watch.go:104), however many events there are: the division rounds down, and
\* the batch that carries the rest fits because eventBatchSize is not much
\* smaller than resultChanLength.
NeverBlocks == step = "sending" => Len(result) < ResultChanLength
==============================================================================
