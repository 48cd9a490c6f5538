----------------------------- MODULE RevisionLog -----------------------------
(***************************************************************************)
(* What the sequencer promises, without ring, capacity or goroutines: a    *)
(* revision is dealt, later its result becomes known, and results are      *)
(* published one after the other, in revision order and without a gap.     *)
(* Only a write that succeeded leaves an entry in the log.                 *)
(***************************************************************************)
EXTENDS Integers, Sequences

CONSTANT Start           \* the revision the leader starts from

VARIABLES
  last,                  \* the last revision dealt
  tail,                  \* the last revision published
  inflight,              \* revisions dealt whose result is not known yet
  waiting,               \* results known and not published
  log                    \* the revisions of successful writes, as published

logVars == <<last, tail, inflight, waiting, log>>

Init ==
  /\ last = Start
  /\ tail = Start
  /\ inflight = {}
  /\ waiting = {}
  /\ log = <<>>

\* A write begins.
Begin ==
  /\ last' = last + 1
  /\ inflight' = inflight \cup {last + 1}
  /\ UNCHANGED <<tail, waiting, log>>

\* The result of a write becomes known.
Resolve ==
  /\ \E r \in inflight, res \in {"ok", "uncertain", "failed"} :
       /\ inflight' = inflight \ {r}
       /\ waiting' = waiting \cup {[revision |-> r, result |-> res]}
  /\ UNCHANGED <<last, tail, log>>

\* The next result in revision order is published.
Publish ==
  /\ \E e \in waiting :
       /\ e.revision = tail + 1
       /\ waiting' = waiting \ {e}
       /\ log' = IF e.result = "ok" THEN Append(log, e.revision) ELSE log
  /\ tail' = tail + 1
  /\ UNCHANGED <<last, inflight>>

Next == Begin \/ Resolve \/ Publish

Spec == Init /\ [][Next]_logVars
=============================================================================
