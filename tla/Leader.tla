------------------------------- MODULE Leader --------------------------------
(***************************************************************************)
(* Leader election and the revisions that cross it: the resource lock in   *)
(* the storage engine (election/election.go), what a node does when it     *)
(* starts and stops leading (service/leader/leader.go), and the sequencer  *)
(* it starts from the clock of the engine (tso/tso.go).  The followers     *)
(* that fetch the revision of the leader are in RevisionSync.              *)
(*                                                                         *)
(* The elector that drives the lock is a library: it reads the lock, and   *)
(* updates it when it holds it, when it is free, or when its lease ran     *)
(* out; it runs the callback that starts leading beside its renewals, and  *)
(* gives the lock up (ReleaseOnCancel) before the one that stops.          *)
(*                                                                         *)
(* Races names the narrow races an instance admits:                        *)
(*   "oracle"   a renewal that fails to read the clock resets the version  *)
(*              before the callback has read it                            *)
(*   "release"  another node takes the lock between its release and the    *)
(*              end of the process that gave it up                         *)
(*                                                                         *)
(* The names leave room for those of the module this one is checked with.  *)
(***************************************************************************)
EXTENDS Integers, Sequences, FiniteSets

CONSTANTS
  Nodes,
  Nobody,                \* the holder of a lock that is free
  Races,
  MaxOracle,             \* bound: the last timestamp of the engine
  MaxDeals,              \* bound: revisions dealt by all leaders together
  MaxUpdates,            \* bound: updates of the lock
  MaxCrashes             \* bound: nodes that stop

ASSUME LeaderAssumption ==
  /\ Nobody \notin Nodes
  /\ Races \subseteq {"oracle", "release"}
  /\ MaxOracle \in Nat \ {0}
  /\ {MaxDeals, MaxUpdates, MaxCrashes} \subseteq Nat

VARIABLES
  oracle,                \* the logical clock of the storage engine
  lock,                  \* the election key: [holder, value, expired]
  node,                  \* the resource lock and the callback of each node
  leader,                \* the flag IsLeader returns
  committed,             \* committedRevision of each node
  deal,                  \* dealRevision of each node
  dealt,                 \* every revision dealt to a write, in order
  crashes

tsoVars == <<committed, deal>>
leaderVars == <<oracle, lock, node, leader, tsoVars, dealt, crashes>>

\* A process that has just started.  "lock" is the step of the elector, "call"
\* that of the callback OnStartedLeading, "start" the version it began with.
Fresh == [up |-> TRUE, lock |-> "idle", call |-> "none", lastVal |-> 0, holder |-> Nobody,
          tso |-> 0, start |-> 0, pre |-> 0]

\* naiveTSO.Commit: the committed revision is stored; Raise is what follows,
\* a compare and swap of the dealt one from the value just read.
Store(n, rev) == committed' = [committed EXCEPT ![n] = rev]

Raise(n, rev, pre) ==
  deal' = [deal EXCEPT ![n] = IF @ = pre /\ pre < rev THEN rev ELSE @]

-----------------------------------------------------------------------------
(* The storage engine and the processes.                                   *)

OracleTick ==
  /\ oracle < MaxOracle
  /\ oracle' = oracle + 1
  /\ UNCHANGED <<lock, node, leader, tsoVars, dealt, crashes>>

\* OnStoppedLeading and every other end of a process: it does not go on.
Crash(n) ==
  /\ node[n].up
  /\ crashes < MaxCrashes
  /\ crashes' = crashes + 1
  /\ node' = [node EXCEPT ![n] = [Fresh EXCEPT !.up = FALSE]]
  /\ leader' = [leader EXCEPT ![n] = FALSE]
  /\ committed' = [committed EXCEPT ![n] = 0]
  /\ deal' = [deal EXCEPT ![n] = 0]
  /\ UNCHANGED <<oracle, lock, dealt>>

Restart(n) ==
  /\ ~node[n].up
  /\ node' = [node EXCEPT ![n] = Fresh]
  /\ UNCHANGED <<oracle, lock, leader, tsoVars, dealt, crashes>>

\* The lease runs out.  RenewDeadline is shorter than LeaseDuration, so a
\* holder that does not renew has stopped by then.
LeaseExpires ==
  /\ lock.holder # Nobody
  /\ ~lock.expired
  /\ node[lock.holder].call = "none"
  /\ lock' = [lock EXCEPT !.expired = TRUE]
  /\ UNCHANGED <<oracle, node, leader, tsoVars, dealt, crashes>>

-----------------------------------------------------------------------------
(* The resource lock, driven by the elector.                               *)

\* Get: the record and then the clock are read; of a key that is not there only
\* the absence.  The elector goes on when it may take or renew the lock.
LockGet(n) ==
  /\ node[n].up
  /\ node[n].lock = "idle"
  /\ node' = [node EXCEPT ![n] =
       IF lock.value = 0 THEN [@ EXCEPT !.lock = "got"]
       ELSE [@ EXCEPT
         !.lastVal = lock.value, !.holder = lock.holder, !.tso = oracle,
         !.lock = IF lock.holder \in {Nobody, n} \/ lock.expired THEN "got" ELSE "idle"]]
  /\ UNCHANGED <<oracle, lock, leader, tsoVars, dealt, crashes>>

\* The version that a failed reading of the clock resets is not one the
\* callback is about to read.
VersionRead(n) == "oracle" \in Races \/ node[n].call # "begin"

\* Get, when the clock cannot be read.
LockGetFails(n) ==
  /\ node[n].up
  /\ node[n].lock = "idle"
  /\ lock.value > 0
  /\ VersionRead(n)
  /\ node' = [node EXCEPT ![n].lastVal = lock.value, ![n].holder = lock.holder, ![n].tso = 0]
  /\ UNCHANGED <<oracle, lock, leader, tsoVars, dealt, crashes>>

\* Mutant of LockMatches: the update does not compare.
LockMatches_Blind(n) == TRUE

\* The compare of Update, and PutIfNotExist of Create, with the value of the
\* last Get.
LockMatches(n) == lock.value = node[n].lastVal

\* A node that has given the lock up is gone before another one has it.
ReleaserGone(n) == "release" \in Races \/ \A m \in Nodes \ {n} : node[m].call # "stopping"

\* What Create and Update write when they match.
LockWrite(n, holder) ==
  /\ LockMatches(n)
  /\ lock.value < MaxUpdates
  /\ lock' = [holder |-> holder, value |-> lock.value + 1, expired |-> FALSE]

\* Create and Update.  The clock is read again after the commit.  The first
\* success starts the callback.
LockUpdate(n) ==
  /\ node[n].lock = "got"
  /\ ReleaserGone(n)
  /\ \/ /\ LockWrite(n, n)
        /\ node' = [node EXCEPT ![n].lock = "idle", ![n].tso = oracle,
                                 ![n].call = IF @ = "none" THEN "begin" ELSE @]
     \/ /\ ~LockMatches(n)
        /\ node' = [node EXCEPT ![n].lock = "idle"]
        /\ UNCHANGED lock
  /\ UNCHANGED <<oracle, leader, tsoVars, dealt, crashes>>

\* The record is written, but the commit returned an error or the clock could
\* not be read after it: the elector believes that it failed.
LockUpdateUnnoticed(n) ==
  /\ node[n].lock = "got"
  /\ ReleaserGone(n)
  /\ LockWrite(n, n)
  /\ \/ node' = [node EXCEPT ![n].lock = "idle"]
     \/ /\ VersionRead(n)
        /\ node' = [node EXCEPT ![n].lock = "idle", ![n].tso = 0]
  /\ UNCHANGED <<oracle, leader, tsoVars, dealt, crashes>>

\* An elector that could not renew in time releases the lock, with the value
\* of its last Get; the flag is cleared later, at the end of the process.
Release(n) ==
  /\ node[n].call = "leading"
  /\ node[n].tso # 0
  /\ crashes < MaxCrashes
  /\ LockWrite(n, Nobody)
  /\ node' = [node EXCEPT ![n].call = "stopping", ![n].lock = "stopped"]
  /\ UNCHANGED <<oracle, leader, tsoVars, dealt, crashes>>

-----------------------------------------------------------------------------
(* OnStartedLeading, beside the renewals.                                  *)

\* Mutant of StartStore: the flag is set before the revision.
StartStore_FlagFirst(n) ==
  /\ node[n].call = "begin"
  /\ Store(n, node[n].tso)
  /\ leader' = [leader EXCEPT ![n] = TRUE]
  /\ node' = [node EXCEPT ![n].call = "raise", ![n].start = node[n].tso,
                           ![n].pre = deal[n]]
  /\ UNCHANGED <<oracle, lock, deal, dealt, crashes>>

\* SetCurrentRevision with the version of the lock, up to the load in Commit.
StartStore(n) ==
  /\ node[n].call = "begin"
  /\ Store(n, node[n].tso)
  /\ node' = [node EXCEPT ![n].call = "raise", ![n].start = node[n].tso,
                           ![n].pre = deal[n]]
  /\ UNCHANGED <<oracle, lock, leader, deal, dealt, crashes>>

\* Mutant of StartRaise: the dealt revision stays where it was.
StartRaise_Keep(n) ==
  /\ node[n].call = "raise"
  /\ node' = [node EXCEPT ![n].call = "flag"]
  /\ UNCHANGED <<oracle, lock, leader, tsoVars, dealt, crashes>>

\* The rest of Commit.
StartRaise(n) ==
  /\ node[n].call = "raise"
  /\ Raise(n, node[n].start, node[n].pre)
  /\ node' = [node EXCEPT ![n].call = "flag"]
  /\ UNCHANGED <<oracle, lock, leader, committed, dealt, crashes>>

\* From here on the node admits writes.
StartFlag(n) ==
  /\ node[n].call = "flag"
  /\ leader' = [leader EXCEPT ![n] = TRUE]
  /\ node' = [node EXCEPT ![n].call = "leading"]
  /\ UNCHANGED <<oracle, lock, tsoVars, dealt, crashes>>

-----------------------------------------------------------------------------
(* Writes on the leader.                                                   *)

\* A write is admitted by the flag and dealt a revision.  The clock of the
\* engine runs faster than revisions are dealt.
Deal(n) ==
  /\ leader[n]
  /\ Len(dealt) < MaxDeals
  /\ deal[n] < oracle
  /\ deal' = [deal EXCEPT ![n] = @ + 1]
  /\ dealt' = Append(dealt, deal[n] + 1)
  /\ UNCHANGED <<oracle, lock, node, leader, committed, crashes>>

\* The collector commits the next revision when its result is in the ring:
\* this process has dealt it.
Collect(n) ==
  LET rev == committed[n] + 1 IN
  /\ leader[n]
  /\ rev \in node[n].start + 1 .. deal[n]
  /\ Store(n, rev)
  /\ UNCHANGED <<oracle, lock, node, leader, deal, dealt, crashes>>

-----------------------------------------------------------------------------
LeaderInit ==
  /\ oracle = 1
  /\ lock = [holder |-> Nobody, value |-> 0, expired |-> FALSE]
  /\ node = [n \in Nodes |-> Fresh]
  /\ leader = [n \in Nodes |-> FALSE]
  /\ committed = [n \in Nodes |-> 0]
  /\ deal = [n \in Nodes |-> 0]
  /\ dealt = <<>>
  /\ crashes = 0

LeaderNext ==
  \/ OracleTick
  \/ LeaseExpires
  \/ \E n \in Nodes :
       \/ Crash(n)
       \/ Restart(n)
       \/ LockGet(n)
       \/ LockGetFails(n)
       \/ LockUpdate(n)
       \/ LockUpdateUnnoticed(n)
       \/ Release(n)
       \/ StartStore(n)
       \/ StartRaise(n)
       \/ StartFlag(n)
       \/ Deal(n)
       \/ Collect(n)

LeaderSpec == LeaderInit /\ [][LeaderNext]_leaderVars

-----------------------------------------------------------------------------
(* Properties.                                                             *)

\* The variables have their types; only a node whose callback has run through
\* has the flag.
LeaderTypeOK ==
  /\ oracle \in 1 .. MaxOracle
  /\ lock \in [holder : Nodes \cup {Nobody}, value : 0 .. MaxUpdates, expired : BOOLEAN]
  /\ node \in [Nodes -> [up : BOOLEAN, lock : {"idle", "got", "stopped"},
                         call : {"none", "begin", "raise", "flag", "leading", "stopping"},
                         lastVal : 0 .. MaxUpdates, holder : Nodes \cup {Nobody},
                         tso : 0 .. MaxOracle, start : 0 .. MaxOracle,
                         pre : 0 .. MaxOracle]]
  /\ leader \in [Nodes -> BOOLEAN]
  /\ \A n \in Nodes : leader[n] <=> node[n].call \in {"leading", "stopping"}
  /\ committed \in [Nodes -> 0 .. MaxOracle]
  /\ deal \in [Nodes -> 0 .. MaxOracle]

\* No two nodes admit writes (IsLeader) at the same time.
OneLeader == \A m, n \in Nodes : leader[m] /\ leader[n] => m = n

\* Revisions ascend across every change of leader, restart and crash: what a
\* leader deals lies above all that was dealt before (leader.go:105).
RevisionsAscend ==
  \A i, j \in DOMAIN dealt : i < j => dealt[i] < dealt[j]
==============================================================================
