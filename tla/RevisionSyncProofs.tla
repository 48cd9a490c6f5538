------------------------- MODULE RevisionSyncProofs --------------------------
(***************************************************************************)
(* The safety properties of RevisionSync, for any number of requests and   *)
(* any bound on the revisions.                                             *)
(***************************************************************************)
EXTENDS RevisionSync, TLAPS

-----------------------------------------------------------------------------
(* The inductive invariant.                                                *)

\* The node follows exactly while another one leads, and a request that is idle
\* has no revision; a fetch is in progress for some request.
Shape ==
  /\ remote.on <=> role = "follower"
  /\ \A r \in Readers : reader[r].step = "idle" => reader[r] = NoRead
  /\ flight # NoFlight => Waiting # {}

\* All revisions the node has seen are committed.
Bounded ==
  /\ remote.committed <= latest
  /\ flight.rev <= latest
  /\ \A r \in Readers : reader[r].rev <= latest
  /\ NotAhead

\* While another node leads, it has committed what was ever committed.
Follows == role = "follower" => latest = remote.committed /\ remote.committed <= remote.deal

\* The dealt revision only grows from the load on.
Above == (role = "raise" => start.pre <= deal) /\ DealsAboveVersion

\* No other request is in progress.
Lone == \A r \in Readers : ghost[r].alone => \A p \in Readers \ {r} : reader[p] = NoRead

\* What a request that is alone has got so far is not older than its beginning.
FreshOf(r) ==
  /\ ghost[r].floor <= latest
  /\ reader[r].step = "waits" /\ flight.step = "answered" => flight.rev >= ghost[r].floor
  /\ reader[r].step \in {"answered", "read"} => reader[r].rev >= ghost[r].floor
  /\ reader[r].step \in {"raise", "synced"} => committed >= ghost[r].floor

Fresh == \A r \in Readers : ghost[r].alone /\ role = "follower" => FreshOf(r)

Inv == TypeOK /\ Shape /\ Bounded /\ Follows /\ Above /\ Lone /\ Fresh

-----------------------------------------------------------------------------
(* The invariant holds at the beginning and is kept by every action.       *)

\* What the record of a request may be.
Reads == [step : {"idle", "waits", "answered", "raise", "synced", "read"},
          rev : Revisions, pre : Revisions]

\* A request that has a revision, as the actions write it.
LEMMA Holding ==
  ASSUME NEW step \in {"idle", "waits", "answered", "raise", "synced", "read"},
         NEW rev \in Revisions
  PROVE  [NoRead EXCEPT !.step = step, !.rev = rev] \in Reads
<1>1. 0 \in Revisions
  BY RevisionSyncAssumption DEF Revisions
<1> QED BY Zenon, <1>1 DEF NoRead, Reads

\* The first state has the invariant.
LEMMA InitInv == Init => Inv
  BY RevisionSyncAssumption
  DEF Init, Inv, TypeOK, Shape, Bounded, Follows, Above, Lone, Fresh, FreshOf, NotAhead,
      DealsAboveVersion, NoRead, NoFlight, Revisions, Waiting

\* The leader elsewhere deals a revision.
LEMMA RemoteDealInv ==
  ASSUME Inv, RemoteDeal
  PROVE  Inv'
<1> USE RevisionSyncAssumption DEF Inv, TypeOK, Revisions, RemoteDeal, serverVars, tsoVars, readVars,
           NoRead, NoFlight
<1>1. TypeOK'
  BY DEF Waiting
<1>2. Follows'
  BY DEF Follows
<1>3. Shape' /\ Bounded' /\ Above' /\ Lone' /\ Fresh'
  BY Zenon DEF Shape, Waiting, Bounded, NotAhead, Above, DealsAboveVersion, Lone, Fresh,
    FreshOf
<1> QED BY Zenon, <1>1, <1>2, <1>3

\* It commits a revision.
LEMMA RemoteCommitInv ==
  ASSUME Inv, RemoteCommit
  PROVE  Inv'
<1> USE RevisionSyncAssumption DEF Inv, TypeOK, Revisions, RemoteCommit, serverVars, tsoVars, readVars,
           NoRead, NoFlight
<1>1. TypeOK'
  BY DEF Waiting, Reach
<1>2. Bounded'
  BY DEF Bounded, NotAhead, Reach
<1>3. Follows'
  BY DEF Follows, Reach
<1>4. Fresh'
  BY DEF Fresh, FreshOf, Reach
<1>5. Shape' /\ Above' /\ Lone'
  BY Zenon DEF Shape, Waiting, Above, DealsAboveVersion, Lone
<1> QED BY Zenon, <1>1, <1>2, <1>3, <1>4, <1>5

\* Another node leads.
LEMMA RemoteChangeInv ==
  ASSUME Inv, RemoteChange
  PROVE  Inv'
<1> USE RevisionSyncAssumption DEF Inv, TypeOK, Revisions, RemoteChange, serverVars, tsoVars, readVars,
           NoRead, NoFlight
<1>1. PICK rev \in remote.deal .. MaxRevision :
        remote' = [remote EXCEPT !.committed = rev, !.deal = rev] /\ latest' = Reach(rev)
  BY Zenon
<1>0. remote.deal \in Nat /\ rev \in Revisions /\ remote.deal <= rev
  OBVIOUS
<1>2. TypeOK'
  <2>1. remote' \in [on : BOOLEAN, committed : Revisions, deal : Revisions]
    BY Zenon, <1>1, <1>0
  <2>2. latest' \in Revisions
    BY Zenon, <1>1, <1>0 DEF Reach
  <2> QED BY <2>1, <2>2 DEF Waiting
<1>3. Bounded'
  BY <1>1, <1>0 DEF Bounded, NotAhead, Reach
<1>4. Follows'
  <2>1. latest = remote.committed /\ latest <= rev /\ latest \in Nat
    BY <1>1, <1>0 DEF Follows, Shape
  <2>2. latest' = IF latest < rev THEN rev ELSE latest
    BY Zenon, <1>1 DEF Reach
  <2>4. latest' = rev
    <3> HIDE DEF Inv, RemoteChange
    <3> QED BY <1>0, <2>1, <2>2
  <2>3. remote'.committed = rev /\ remote'.deal = rev
    BY Zenon, <1>1, <1>0
  <2> QED BY <1>0, <2>3, <2>4 DEF Follows
<1>5. Fresh'
  BY <1>1, <1>0 DEF Fresh, FreshOf, Reach
<1>6. Shape' /\ Above' /\ Lone'
  BY Zenon, <1>1, <1>0 DEF Shape, Waiting, Above, DealsAboveVersion, Lone
<1> QED BY Zenon, <1>2, <1>3, <1>4, <1>5, <1>6

\* This node wins.
LEMMA WinInv ==
  ASSUME Inv, Win
  PROVE  Inv'
<1> USE RevisionSyncAssumption DEF Inv, TypeOK, Revisions, Win, serverVars, tsoVars, readVars,
           NoRead, NoFlight
<1>1. PICK rev \in remote.deal .. MaxRevision :
        start' = [rev |-> rev, pre |-> 0]
  BY Zenon
<1>0. remote.deal \in Nat /\ rev \in Revisions /\ remote.deal <= rev
  OBVIOUS
<1>2. TypeOK'
  <2>1. start' \in [rev : Revisions, pre : Revisions]
    BY <1>1, <1>0
  <2>2. remote' \in [on : BOOLEAN, committed : Revisions, deal : Revisions]
    BY Zenon
  <2> QED BY Zenon, <2>1, <2>2 DEF Waiting
<1>3. Shape'
  BY Zenon, <1>1, <1>0 DEF Shape, Waiting
<1>4. Bounded' /\ Follows' /\ Above' /\ Lone' /\ Fresh'
  BY Zenon, <1>1, <1>0 DEF Bounded, NotAhead, Follows, Above, DealsAboveVersion, Lone,
    Fresh, FreshOf
<1> QED BY Zenon, <1>2, <1>3, <1>4

\* The new leader stores its version.
LEMMA StartStoreInv ==
  ASSUME Inv, StartStore
  PROVE  Inv'
<1> USE RevisionSyncAssumption DEF Inv, TypeOK, Revisions, StartStore, serverVars, tsoVars, readVars,
           NoRead, NoFlight
<1>1. TypeOK'
  BY Zenon DEF Waiting, Reach, Store
<1>2. Bounded'
  BY DEF Bounded, NotAhead, Reach, Store
<1>3. Above'
  BY DEF Above, DealsAboveVersion, Store
<1>4. Shape' /\ Follows' /\ Lone' /\ Fresh'
  BY Zenon DEF Shape, Waiting, Follows, Lone, Fresh, FreshOf, Store
<1> QED BY Zenon, <1>1, <1>2, <1>3, <1>4

\* It raises the dealt revision.
LEMMA StartRaiseInv ==
  ASSUME Inv, StartRaise
  PROVE  Inv'
<1> USE RevisionSyncAssumption DEF Inv, TypeOK, Revisions, StartRaise, serverVars, tsoVars, readVars,
           NoRead, NoFlight
<1>1. TypeOK'
  BY DEF Waiting, Raise
<1>2. Above'
  <2>1. start.rev \in Nat /\ start.pre \in Nat /\ deal \in Nat /\ start.pre <= deal
    BY DEF Above
  <2>2. CASE deal = start.pre /\ start.pre < start.rev
    BY Zenon, <2>1, <2>2 DEF Above, DealsAboveVersion, Raise
  <2>3. CASE deal # start.pre \/ start.rev <= start.pre
    <3>1. deal' = deal
      BY <2>1, <2>3 DEF Raise
    <3>2. CASE deal # start.pre
      <4>1. deal > start.pre
        <5> HIDE DEF Inv, StartRaise
        <5> QED BY <2>1, <3>2
      <4> QED BY Zenon, <3>1, <4>1 DEF Above, DealsAboveVersion
    <3>3. CASE start.rev <= start.pre
      BY <2>1, <3>1, <3>3 DEF Above, DealsAboveVersion
    <3> QED BY Zenon, <2>3, <3>2, <3>3
  <2> QED BY <2>1, <2>2, <2>3
<1>3. Shape' /\ Bounded' /\ Follows' /\ Lone' /\ Fresh'
  BY Zenon DEF Shape, Waiting, Bounded, NotAhead, Follows, Lone, Fresh, FreshOf, Raise
<1> QED BY Zenon, <1>1, <1>2, <1>3

\* It is the leader from now on.
LEMMA StartFlagInv ==
  ASSUME Inv, StartFlag
  PROVE  Inv'
<1> USE RevisionSyncAssumption DEF Inv, TypeOK, Revisions, StartFlag, serverVars, tsoVars, readVars,
           NoRead, NoFlight
<1>1. TypeOK'
  BY Zenon DEF Waiting
<1>2. Above'
  BY Zenon DEF Above, DealsAboveVersion
<1>3. Shape' /\ Bounded' /\ Follows' /\ Lone' /\ Fresh'
  BY Zenon DEF Shape, Waiting, Bounded, NotAhead, Follows, Lone, Fresh, FreshOf
<1> QED BY Zenon, <1>1, <1>2, <1>3

\* It deals.
LEMMA DealInv ==
  ASSUME Inv, Deal
  PROVE  Inv'
<1> USE RevisionSyncAssumption DEF Inv, TypeOK, Revisions, Deal, serverVars, tsoVars, readVars,
           NoRead, NoFlight
<1>1. TypeOK'
  BY DEF Waiting
<1>2. Above'
  BY DEF Above, DealsAboveVersion
<1>3. Shape' /\ Bounded' /\ Follows' /\ Lone' /\ Fresh'
  BY Zenon DEF Shape, Waiting, Bounded, NotAhead, Follows, Lone, Fresh, FreshOf
<1> QED BY Zenon, <1>1, <1>2, <1>3

\* It commits.
LEMMA CollectInv ==
  ASSUME Inv, Collect
  PROVE  Inv'
<1> USE RevisionSyncAssumption DEF Inv, TypeOK, Revisions, Collect, serverVars, tsoVars, readVars,
           NoRead, NoFlight
<1>1. TypeOK'
  BY DEF Waiting, Reach, Store
<1>2. Bounded'
  BY DEF Bounded, NotAhead, Reach, Store
<1>3. Shape' /\ Follows' /\ Above' /\ Lone' /\ Fresh'
  BY Zenon DEF Shape, Waiting, Follows, Above, DealsAboveVersion, Lone, Fresh, FreshOf,
    Store
<1> QED BY Zenon, <1>1, <1>2, <1>3

\* The leader answers the fetch.
LEMMA FlightAnswerInv ==
  ASSUME Inv, FlightAnswer
  PROVE  Inv'
<1> USE RevisionSyncAssumption DEF Inv, TypeOK, Revisions, FlightAnswer, serverVars, tsoVars, readVars,
           NoRead, NoFlight
<1>1. TypeOK'
  BY Zenon DEF Waiting, Answer
<1>2. Shape'
  BY DEF Shape, Waiting
<1>3. Bounded'
  BY Zenon DEF Bounded, NotAhead, Answer
<1>4. Fresh'
  BY DEF Fresh, FreshOf, Follows, Shape, Answer
<1>5. Follows' /\ Above' /\ Lone'
  BY Zenon DEF Follows, Above, DealsAboveVersion, Lone
<1> QED BY Zenon, <1>1, <1>2, <1>3, <1>4, <1>5

\* The fetch fails.
LEMMA FlightFailInv ==
  ASSUME Inv, FlightFail
  PROVE  Inv'
<1> USE RevisionSyncAssumption DEF Inv, TypeOK, Revisions, FlightFail, serverVars, tsoVars, readVars,
           NoRead, NoFlight
<1>1. TypeOK'
  <2>1. reader' \in [Readers -> Reads]
    BY DEF Waiting, Reads
  <2>2. Waiting' # {} => flight' # NoFlight
    BY Zenon DEF Waiting
  <2> QED BY <2>1, <2>2 DEF Reads
<1>2. Shape'
  BY Zenon DEF Shape, Waiting
<1>3. Bounded'
  BY DEF Bounded, NotAhead
<1>4. Lone'
  BY Zenon DEF Lone, Waiting
<1>5. Fresh'
  BY Zenon DEF Fresh, FreshOf, Waiting
<1>6. Follows' /\ Above'
  BY Zenon DEF Follows, Above, DealsAboveVersion
<1> QED BY Zenon, <1>1, <1>2, <1>3, <1>4, <1>5, <1>6

\* The fetch returns to all requests that wait.
LEMMA FlightReturnInv ==
  ASSUME Inv, FlightReturn
  PROVE  Inv'
<1> USE RevisionSyncAssumption DEF Inv, TypeOK, Revisions, FlightReturn, serverVars, tsoVars, readVars,
           NoRead, NoFlight
<1>1. TypeOK'
  <2>1. reader' \in [Readers -> Reads]
    <3>1. flight.rev \in Revisions
      BY Zenon
    <3>2. [NoRead EXCEPT !.step = "answered", !.rev = flight.rev] \in Reads
      BY Zenon, <3>1, Holding
    <3> QED BY Zenon, <3>1, <3>2 DEF Waiting, Reads
  <2>2. Waiting' # {} => flight' # NoFlight
    BY Zenon DEF Waiting
  <2> QED BY <2>1, <2>2 DEF Reads
<1>2. Shape'
  BY Zenon DEF Shape, Waiting
<1>3. Bounded'
  BY DEF Bounded, NotAhead
<1>4. Lone'
  BY DEF Lone, Waiting
<1>5. Fresh'
  BY Zenon DEF Fresh, FreshOf, Waiting
<1>6. Follows' /\ Above'
  BY Zenon DEF Follows, Above, DealsAboveVersion
<1> QED BY Zenon, <1>1, <1>2, <1>3, <1>4, <1>5, <1>6

\* A request begins.
LEMMA SyncBeginInv ==
  ASSUME Inv, NEW r \in Readers, SyncBegin(r)
  PROVE  Inv'
<1> USE RevisionSyncAssumption DEF Inv, TypeOK, Revisions, SyncBegin, serverVars, tsoVars, readVars,
           NoRead, NoFlight
<1>1. TypeOK'
  <2>1. reader' \in [Readers -> Reads]
    BY DEF Waiting, Reads
  <2>2. Waiting' # {} => flight' # NoFlight
    BY DEF Waiting
  <2>3. ghost' \in [Readers -> [floor : Revisions, alone : BOOLEAN]]
    BY Zenon
  <2>4. flight' \in [step : {"none", "asked", "answered"}, rev : Revisions]
    BY Zenon
  <2> QED BY Zenon, <2>1, <2>2, <2>3, <2>4 DEF Reads
<1>2. Shape'
  BY Zenon DEF Shape, Waiting
<1>3. Bounded'
  BY Zenon DEF Bounded, NotAhead
<1>4. Lone'
  BY Zenon DEF Lone, Shape
<1>5. Fresh'
  BY DEF Fresh, FreshOf, Lone, Shape, Waiting, Follows
<1>6. Follows' /\ Above'
  BY Zenon DEF Follows, Above, DealsAboveVersion
<1> QED BY Zenon, <1>1, <1>2, <1>3, <1>4, <1>5, <1>6

\* A request stores the revision.
LEMMA SyncStoreInv ==
  ASSUME Inv, NEW r \in Readers, SyncStore(r)
  PROVE  Inv'
<1> USE RevisionSyncAssumption DEF Inv, TypeOK, Revisions, SyncStore, serverVars, tsoVars, readVars,
           NoRead, NoFlight
<1>1. TypeOK'
  <2>1. reader' \in [Readers -> Reads]
    <3>1. [reader[r] EXCEPT !.step = "raise", !.pre = deal] \in Reads
      BY Zenon DEF Reads
    <3> QED BY Zenon, <3>1 DEF Waiting, Reads
  <2>2. Waiting' # {} => flight' # NoFlight
    BY DEF Waiting
  <2> QED BY <2>1, <2>2 DEF Reads, Store
<1>2. Shape'
  BY DEF Shape, Waiting, Store
<1>3. Bounded'
  BY Zenon DEF Bounded, NotAhead, Store
<1>4. Lone'
  BY DEF Lone, Store
<1>5. Fresh'
  BY DEF Fresh, FreshOf, Lone, Store
<1>6. Follows' /\ Above'
  BY Zenon DEF Follows, Above, DealsAboveVersion, Store
<1> QED BY Zenon, <1>1, <1>2, <1>3, <1>4, <1>5, <1>6

\* A request raises the dealt revision.
LEMMA SyncRaiseInv ==
  ASSUME Inv, NEW r \in Readers, SyncRaise(r)
  PROVE  Inv'
<1> USE RevisionSyncAssumption DEF Inv, TypeOK, Revisions, SyncRaise, serverVars, tsoVars, readVars,
           NoRead, NoFlight
<1>1. TypeOK'
  <2>1. reader' \in [Readers -> Reads]
    BY DEF Waiting, Reads
  <2>2. Waiting' # {} => flight' # NoFlight
    BY DEF Waiting
  <2> QED BY <2>1, <2>2 DEF Reads, Raise
<1>2. Shape'
  BY Zenon DEF Shape, Waiting, Raise
<1>3. Bounded'
  BY Zenon DEF Bounded, NotAhead, Raise
<1>4. Above'
  BY DEF Above, DealsAboveVersion, Raise
<1>5. Lone'
  BY DEF Lone, Raise
<1>6. Fresh'
  BY DEF Fresh, FreshOf, Raise
<1>7. Follows'
  BY Zenon DEF Follows, Raise
<1> QED BY Zenon, <1>1, <1>2, <1>3, <1>4, <1>5, <1>6, <1>7

\* A request reads.
LEMMA ReadInv ==
  ASSUME Inv, NEW r \in Readers, Read(r)
  PROVE  Inv'
<1> USE RevisionSyncAssumption DEF Inv, TypeOK, Revisions, Read, serverVars, tsoVars, readVars,
           NoRead, NoFlight
<1>1. TypeOK'
  <2>1. reader' \in [Readers -> Reads]
    <3>1. committed \in Revisions
      BY Zenon
    <3>2. [NoRead EXCEPT !.step = "read", !.rev = committed] \in Reads
      BY Zenon, <3>1, Holding
    <3> QED BY Zenon, <3>1, <3>2 DEF Waiting, Reads
  <2>2. Waiting' # {} => flight' # NoFlight
    BY DEF Waiting
  <2> QED BY Zenon, <2>1, <2>2 DEF Reads
<1>2. Shape'
  BY Zenon DEF Shape, Waiting
<1>3. Bounded'
  BY Zenon DEF Bounded, NotAhead
<1>4. Lone'
  BY DEF Lone
<1>5. Fresh'
  BY Zenon DEF Fresh, FreshOf
<1>6. Follows' /\ Above'
  BY Zenon DEF Follows, Above, DealsAboveVersion
<1> QED BY Zenon, <1>1, <1>2, <1>3, <1>4, <1>5, <1>6

\* A request ends.
LEMMA ReplyInv ==
  ASSUME Inv, NEW r \in Readers, Reply(r)
  PROVE  Inv'
<1> USE RevisionSyncAssumption DEF Inv, TypeOK, Revisions, Reply, serverVars, tsoVars, readVars,
           NoRead, NoFlight
<1>1. TypeOK'
  <2>1. reader' \in [Readers -> Reads]
    BY DEF Waiting, Reads
  <2>2. Waiting' # {} => flight' # NoFlight
    BY Zenon DEF Waiting
  <2> QED BY Zenon, <2>1, <2>2 DEF Reads
<1>2. Shape'
  BY Zenon DEF Shape, Waiting
<1>3. Bounded'
  BY DEF Bounded, NotAhead
<1>4. Lone'
  BY Zenon DEF Lone
<1>5. Fresh'
  BY Zenon DEF Fresh, FreshOf
<1>6. Follows' /\ Above'
  BY Zenon DEF Follows, Above, DealsAboveVersion
<1> QED BY Zenon, <1>1, <1>2, <1>3, <1>4, <1>5, <1>6

\* Every step keeps the invariant.
LEMMA NextInv == Inv /\ [Next]_vars => Inv'
<1> SUFFICES ASSUME Inv, [Next]_vars
             PROVE  Inv'
  BY Zenon
<1>1. ASSUME NEW r \in Readers, SyncBegin(r) \/ Serve(r)
      PROVE  Inv'
  BY Zenon, <1>1, SyncBeginInv, SyncStoreInv, SyncRaiseInv, ReadInv, ReplyInv DEF Serve
<1>2. CASE Fetch
  BY Zenon, <1>2, FlightAnswerInv, FlightFailInv, FlightReturnInv DEF Fetch
<1>3. CASE UNCHANGED vars
  BY Zenon, <1>3 DEF vars, serverVars, tsoVars, readVars, Inv, TypeOK, Waiting, Shape,
    Bounded,
              NotAhead, Follows, Above, DealsAboveVersion, Lone, Fresh, FreshOf
<1> QED
  BY Zenon, <1>1, <1>2, <1>3, RemoteDealInv, RemoteCommitInv, RemoteChangeInv, WinInv,
     StartStoreInv, StartRaiseInv, StartFlagInv, DealInv, CollectInv
  DEF Next

-----------------------------------------------------------------------------
(* The theorems.                                                           *)

\* The invariant holds at all times.
LEMMA Invariance == Spec => []Inv
  BY InitInv, NextInv, PTL DEF Spec

\* The variables have their types, and no request waits without a fetch.
THEOREM TypeCorrect == Spec => []TypeOK
<1>1. Inv => TypeOK
  BY Zenon DEF Inv
<1> QED BY <1>1, Invariance, PTL

\* However the syncs of a node interleave with each other and with the change of
\* the leader, the node reads at revisions that are committed
\* (SyncReadRevision, revisionHandler).
THEOREM NeverAhead == Spec => []NotAhead
<1>1. Inv => NotAhead
  BY Zenon DEF Inv, Bounded
<1> QED BY <1>1, Invariance, PTL

\* A read of a follower that has the node for itself sees all that was committed
\* when it began (SyncReadRevision).
THEOREM LoneReadsAreFresh == Spec => []LoneReadFresh
<1>1. Inv => LoneReadFresh
  BY Zenon DEF Inv, Fresh, FreshOf, LoneReadFresh
<1> QED BY <1>1, Invariance, PTL

\* A new leader deals above its version unless a sync has raised the dealt
\* revision in between (naiveTSO.Commit, OnStartedLeading).
THEOREM NewLeaderDealsAbove == Spec => []DealsAboveVersion
<1>1. Inv => DealsAboveVersion
  BY Zenon DEF Inv, Above
<1> QED BY <1>1, Invariance, PTL
==============================================================================
