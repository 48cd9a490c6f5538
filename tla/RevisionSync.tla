---------------------------- MODULE RevisionSync -----------------------------
(***************************************************************************)
(* Reads of a node that is not the leader: before it reads, every request  *)
(* fetches the committed revision of the leader and stores it as its own   *)
(* (service/revision/revision.go, the status handler of server.go); the    *)
(* requests that wait at the same time share one fetch.  Meanwhile the     *)
(* leader goes on, hands over to a third node, or to this one.             *)
(*                                                                         *)
(* This is one node and what it sees of the others.  That a new leader     *)
(* starts above all that was dealt before is what module Leader shows.     *)
(***************************************************************************)
EXTENDS Integers, FiniteSets

CONSTANTS
  Readers,               \* read requests of this node
  MaxRevision            \* bound: the last revision of all

ASSUME RevisionSyncAssumption == MaxRevision \in Nat \ {0}

VARIABLES
  remote,                \* the leader, while it is another node: [on, committed, deal]
  role,                  \* this node: "follower", the steps of OnStartedLeading, "leading"
  start,                 \* its version: [rev, pre]
  committed,             \* its committedRevision
  deal,                  \* its dealRevision
  flight,                \* the fetch in progress: [step, rev]
  reader,                \* each request: [step, rev, pre]
  latest,                \* ghost: the highest revision any leader has committed
  ghost                  \* ghost: of each request [floor, alone]

serverVars == <<remote, role, start, latest>>
tsoVars == <<committed, deal>>
readVars == <<flight, reader, ghost>>
vars == <<serverVars, tsoVars, readVars>>

Revisions == 0 .. MaxRevision
NoFlight == [step |-> "none", rev |-> 0]
NoRead == [step |-> "idle", rev |-> 0, pre |-> 0]
Reach(rev) == IF latest < rev THEN rev ELSE latest

\* naiveTSO.Commit: the store; and the compare and swap that follows the load.
Store(rev) == committed' = rev

\* Mutant of Raise: only a dealt revision that is 0 is raised.
Raise_First(rev, pre) == deal' = IF deal = pre /\ pre = 0 THEN rev ELSE deal

Raise(rev, pre) == deal' = IF deal = pre /\ pre < rev THEN rev ELSE deal

-----------------------------------------------------------------------------
(* The leader elsewhere.                                                   *)

RemoteDeal ==
  /\ remote.on
  /\ remote.deal < MaxRevision
  /\ remote' = [remote EXCEPT !.deal = @ + 1]
  /\ UNCHANGED <<role, start, latest, tsoVars, readVars>>

RemoteCommit ==
  /\ remote.on
  /\ remote.committed < remote.deal
  /\ remote' = [remote EXCEPT !.committed = @ + 1]
  /\ latest' = Reach(remote.committed + 1)
  /\ UNCHANGED <<role, start, tsoVars, readVars>>

\* A third node takes over.
RemoteChange ==
  /\ remote.on
  /\ \E rev \in remote.deal .. MaxRevision :
       /\ remote' = [remote EXCEPT !.committed = rev, !.deal = rev]
       /\ latest' = Reach(rev)
  /\ UNCHANGED <<role, start, tsoVars, readVars>>

-----------------------------------------------------------------------------
(* This node takes over: OnStartedLeading, then writes.                    *)

Win ==
  /\ role = "follower"
  /\ remote.on
  /\ remote' = [remote EXCEPT !.on = FALSE]
  /\ role' = "begin"
  /\ \E rev \in remote.deal .. MaxRevision : start' = [rev |-> rev, pre |-> 0]
  /\ UNCHANGED <<latest, tsoVars, readVars>>

StartStore ==
  /\ role = "begin"
  /\ Store(start.rev)
  /\ latest' = Reach(start.rev)
  /\ start' = [start EXCEPT !.pre = deal]
  /\ role' = "raise"
  /\ UNCHANGED <<remote, deal, readVars>>

StartRaise ==
  /\ role = "raise"
  /\ Raise(start.rev, start.pre)
  /\ role' = "flag"
  /\ UNCHANGED <<remote, start, latest, committed, readVars>>

StartFlag ==
  /\ role = "flag"
  /\ role' = "leading"
  /\ UNCHANGED <<remote, start, latest, tsoVars, readVars>>

Deal ==
  /\ role = "leading"
  /\ deal < MaxRevision
  /\ deal' = deal + 1
  /\ UNCHANGED <<serverVars, committed, readVars>>

\* The collector commits the next revision once this process has dealt it.
Collect ==
  /\ role = "leading"
  /\ committed + 1 \in start.rev + 1 .. deal
  /\ Store(committed + 1)
  /\ latest' = Reach(committed + 1)
  /\ UNCHANGED <<remote, role, start, deal, readVars>>

-----------------------------------------------------------------------------
(* SyncReadRevision and the read that follows.                             *)

\* The check for the leader, and flight.Do: the request waits for the fetch in
\* progress or begins one.
SyncBegin(r) ==
  /\ reader[r].step = "idle"
  /\ reader' = [reader EXCEPT ![r].step = IF role = "leading" THEN "synced" ELSE "waits"]
  /\ flight' = IF role # "leading" /\ flight = NoFlight
               THEN [NoFlight EXCEPT !.step = "asked"]
               ELSE flight
  /\ ghost' = [q \in Readers |->
       IF q = r THEN [floor |-> latest, alone |-> \A p \in Readers \ {r} : reader[p] = NoRead]
                ELSE [ghost[q] EXCEPT !.alone = FALSE]]
  /\ UNCHANGED <<serverVars, tsoVars>>

\* Mutant of Answer: the leader tells the revision it has dealt.
Answer_Dealt == IF role = "leading" THEN deal ELSE remote.deal

\* revisionHandler of the leader, which may be this node by now.
Answer == IF role = "leading" THEN committed ELSE remote.committed

FlightAnswer ==
  /\ flight.step = "asked"
  /\ remote.on \/ role = "leading"
  /\ flight' = [step |-> "answered", rev |-> Answer]
  /\ UNCHANGED <<serverVars, tsoVars, reader, ghost>>

Waiting == {r \in Readers : reader[r].step = "waits"}

\* Mutant of FlightFail: the error reaches one of the requests that wait.
FlightFail_First ==
  /\ flight # NoFlight
  /\ flight' = NoFlight
  /\ \E r \in Waiting : reader' = [reader EXCEPT ![r] = NoRead]
  /\ UNCHANGED <<serverVars, tsoVars, ghost>>

\* A node that is not the leader, an address without one, or no answer in
\* time: the error ends all requests that wait.
FlightFail ==
  /\ flight # NoFlight
  /\ flight' = NoFlight
  /\ reader' = [r \in Readers |-> IF r \in Waiting THEN NoRead ELSE reader[r]]
  /\ UNCHANGED <<serverVars, tsoVars, ghost>>

\* Mutant of FlightReturn: the answer is kept for requests to come.
FlightReturn_Kept ==
  /\ flight.step = "answered"
  /\ Waiting # {}
  /\ reader' = [r \in Readers |-> IF r \in Waiting
                                  THEN [NoRead EXCEPT !.step = "answered", !.rev = flight.rev]
                                  ELSE reader[r]]
  /\ UNCHANGED <<serverVars, tsoVars, flight, ghost>>

\* flight.Do returns to all requests that wait.
FlightReturn ==
  /\ flight.step = "answered"
  /\ flight' = NoFlight
  /\ reader' = [r \in Readers |-> IF r \in Waiting
                                  THEN [NoRead EXCEPT !.step = "answered", !.rev = flight.rev]
                                  ELSE reader[r]]
  /\ UNCHANGED <<serverVars, tsoVars, ghost>>

\* SetCurrentRevision, whatever the node has become: the store and the load.
SyncStore(r) ==
  /\ reader[r].step = "answered"
  /\ Store(reader[r].rev)
  /\ reader' = [reader EXCEPT ![r].step = "raise", ![r].pre = deal]
  /\ UNCHANGED <<serverVars, deal, flight, ghost>>

SyncRaise(r) ==
  /\ reader[r].step = "raise"
  /\ Raise(reader[r].rev, reader[r].pre)
  /\ reader' = [reader EXCEPT ![r].step = "synced"]
  /\ UNCHANGED <<serverVars, committed, flight, ghost>>

\* The backend reads at GetCurrentRevision.
Read(r) ==
  /\ reader[r].step = "synced"
  /\ reader' = [reader EXCEPT ![r] = [NoRead EXCEPT !.step = "read", !.rev = committed]]
  /\ UNCHANGED <<serverVars, tsoVars, flight, ghost>>

Reply(r) ==
  /\ reader[r].step = "read"
  /\ reader' = [reader EXCEPT ![r] = NoRead]
  /\ UNCHANGED <<serverVars, tsoVars, flight, ghost>>

-----------------------------------------------------------------------------
\* This node has just started and follows a leader that starts at revision 1.
Init ==
  /\ remote = [on |-> TRUE, committed |-> 1, deal |-> 1]
  /\ role = "follower"
  /\ start = [rev |-> 0, pre |-> 0]
  /\ committed = 0
  /\ deal = 0
  /\ flight = NoFlight
  /\ reader = [r \in Readers |-> NoRead]
  /\ latest = 1
  /\ ghost = [r \in Readers |-> [floor |-> 0, alone |-> FALSE]]

Fetch == FlightAnswer \/ FlightFail \/ FlightReturn
Serve(r) == SyncStore(r) \/ SyncRaise(r) \/ Read(r) \/ Reply(r)

Next ==
  \/ RemoteDeal
  \/ RemoteCommit
  \/ RemoteChange
  \/ Win
  \/ StartStore
  \/ StartRaise
  \/ StartFlag
  \/ Deal
  \/ Collect
  \/ Fetch
  \/ \E r \in Readers : SyncBegin(r) \/ Serve(r)

\* The client of the fetch has a timeout; a request that has its answer runs.
Fairness == WF_vars(Fetch) /\ \A r \in Readers : WF_vars(Serve(r))

Spec == Init /\ [][Next]_vars /\ Fairness

-----------------------------------------------------------------------------
(* Properties.                                                             *)

\* The variables have their types; a request waits only while there is a fetch.
TypeOK ==
  /\ remote \in [on : BOOLEAN, committed : Revisions, deal : Revisions]
  /\ role \in {"follower", "begin", "raise", "flag", "leading"}
  /\ start \in [rev : Revisions, pre : Revisions]
  /\ {committed, deal, latest} \subseteq Revisions
  /\ flight \in [step : {"none", "asked", "answered"}, rev : Revisions]
  /\ reader \in [Readers -> [step : {"idle", "waits", "answered", "raise", "synced", "read"},
                             rev : Revisions, pre : Revisions]]
  /\ ghost \in [Readers -> [floor : Revisions, alone : BOOLEAN]]
  /\ Waiting # {} => flight # NoFlight

\* The node never reads at a revision no leader has committed
\* (revisionHandler): a write that is still open lies above its reads.
NotAhead == committed <= latest

\* A read of a follower sees all that was committed when it began, provided no
\* other read of the node was in progress (SyncReadRevision "fetch the latest
\* revision from leader").  With others in progress it may join an older fetch,
\* or find the revision set back by one that is slower than itself.
LoneReadFresh ==
  \A r \in Readers :
    reader[r].step = "read" /\ ghost[r].alone /\ role = "follower"
      => reader[r].rev >= ghost[r].floor

\* A new leader deals above the version it starts from, unless a sync of this node
\* has raised the dealt revision between the load and the swap of its Commit,
\* which is tried once (naiveTSO.Commit, OnStartedLeading): then the swap is lost,
\* and the next revisions may be below the version.
DealsAboveVersion == role \in {"flag", "leading"} => deal >= start.rev \/ deal > start.pre

\* Every read ends, with a revision or an error, also those that wait for the
\* fetch of another one (singleFlightGetRevisionFromLeader).
ReadsEnd == \A r \in Readers : reader[r].step # "idle" ~> reader[r].step = "idle"

\* A leader never takes back what it has committed: SyncReadRevision sets the
\* revision "if this instance is follower. otherwise, do nothing"
\* (revision.go:42).
LeaderNeverBack == [][role = "leading" => committed' >= committed]_vars
==============================================================================
