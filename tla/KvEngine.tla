------------------------------ MODULE KvEngine -------------------------------
(***************************************************************************)
(* The storage engines (storage/memkv, badger, tikv) under concurrent      *)
(* batches.  memkv evaluates a batch as it is built, under the mutex that  *)
(* BeginBatchWrite takes and Commit releases.  badger and tikv evaluate it *)
(* in Commit on the snapshot of its beginning; the database finds out      *)
(* whether another batch came in between: badger when a key that was read  *)
(* has changed, tikv when a key that is to be written has.  Both databases *)
(* are external, as the calls of the engines use them.                     *)
(*                                                                         *)
(* The backend builds batches of different keys only (naive.go, txn.go,    *)
(* compact.go, retry.go, election.go), and DelCurrent alone.               *)
(***************************************************************************)
EXTENDS Naturals, Sequences, FiniteSets

CONSTANTS
  Clients,               \* goroutines that write
  Keys,
  Values,
  Absent,                \* no value
  None,
  Batches,               \* batches the backend builds, but DelCurrent
  MaxVersion             \* bound: number of commits

VARIABLES
  kind,                  \* "memkv", "badger" or "tikv"
  db,                    \* of each key [val, ver]
  version,               \* number of commits
  mu,                    \* memkv: who holds the mutex, a client or None
  txn,                   \* of each client [step, batch, snap, start, err]
  result,                \* of each client, what its last Commit returned: [res, n, val]
  item,                  \* what an iterator found: [key, val, ver] or None
  timers                 \* memkv: the timers that run, [key, ver]

dbVars == <<db, version, timers>>
vars == <<kind, dbVars, mu, txn, result, item>>

S == INSTANCE KvStore WITH
       store <- [k \in Keys |-> db[k].val],
       pending <- [c \in Clients |-> txn[c].batch],
       result <- [c \in Clients |-> result[c].res]

Kinds == {"memkv", "badger", "tikv"}
Versions == 0 .. MaxVersion
Entries == [val : Values \cup {Absent}, ver : Versions]
Fine == [res |-> "ok", n |-> 0, val |-> Absent]
NoTxn == [step |-> "idle", batch |-> <<>>, snap |-> [k \in Keys |-> [val |-> Absent, ver |-> 0]],
          start |-> 0, err |-> Fine]

ASSUME KvEngineAssumption ==
  /\ MaxVersion \in Nat
  /\ Absent \notin Values
  /\ None \notin Clients
  /\ \A batch \in Batches :
       /\ batch # <<>>
       /\ batch \in Seq([kind : {"pine", "cas", "put", "del"}, key : Keys, val : Values,
                         old : Values, ver : {0}, ttl : BOOLEAN])
       /\ \A m, n \in DOMAIN batch : m # n => batch[m].key # batch[n].key

-----------------------------------------------------------------------------
(* BeginBatchWrite.                                                        *)

\* A batch of the backend, or the DelCurrent of what the iterator found.
Chosen ==
  Batches \cup (IF item = None THEN {}
                ELSE {<<S!Op("delcur", item.key, item.val, item.val, item.ver, FALSE)>>})

Busy == {c \in Clients : txn[c].step # "idle"}

Opened(c, batch) ==
  /\ c \notin Busy
  /\ version + Cardinality(Busy) < MaxVersion
  /\ txn' = [txn EXCEPT ![c] = [step |-> "open", batch |-> batch, snap |-> db,
                                start |-> version, err |-> Fine]]
  /\ result' = [result EXCEPT ![c] = Fine]
  /\ UNCHANGED <<kind, dbVars, item>>

\* Mutant of MemBegin: the mutex is left to the commit.
MemBegin_NoLock(c, batch) ==
  /\ kind = "memkv"
  /\ Opened(c, batch)
  /\ UNCHANGED mu

\* memkv: the mutex is held from here on.
MemBegin(c, batch) ==
  /\ kind = "memkv"
  /\ mu = None
  /\ mu' = c
  /\ Opened(c, batch)

BadgerBegin(c, batch) ==
  /\ kind = "badger"
  /\ Opened(c, batch)
  /\ UNCHANGED mu

TikvBegin(c, batch) ==
  /\ kind = "tikv"
  /\ Opened(c, batch)
  /\ UNCHANGED mu

-----------------------------------------------------------------------------
(* The operations of a batch, on the snapshot (memkv: the store itself):   *)
(* Fine, or the error of operation n that finds the entry.                 *)

Conflict(n, val) == [res |-> "cas", n |-> n, val |-> val]

\* A value that differs from the one expected is told as the expected one.
MemOutcome(op, n, entry) ==
  CASE op.kind = "pine" /\ entry.val # Absent -> Conflict(n, entry.val)
    [] op.kind = "cas" /\ entry.val = Absent -> Conflict(n, Absent)
    [] op.kind = "cas" /\ entry.val \notin {Absent, op.old} -> Conflict(n, op.old)
    [] op.kind = "delcur" /\ entry.val # op.old -> Conflict(n, Absent)
    [] OTHER -> Fine

\* DelCurrent compares versions.
BadgerOutcome(op, n, entry) ==
  IF \/ op.kind = "pine" /\ entry.val # Absent
     \/ op.kind = "cas" /\ entry.val # op.old
     \/ op.kind = "delcur" /\ (entry.val = Absent \/ entry.ver # op.ver)
  THEN Conflict(n, entry.val)
  ELSE Fine

\* CAS of a key that does not exist is ErrKeyNotFound.
TikvOutcome(op, n, entry) ==
  CASE op.kind = "cas" /\ entry.val = Absent -> [res |-> "error", n |-> n, val |-> Absent]
    [] op.kind = "cas" /\ entry.val \notin {Absent, op.old} -> Conflict(n, entry.val)
    [] op.kind = "pine" /\ entry.val # Absent -> Conflict(n, entry.val)
    [] op.kind = "delcur" /\ entry.val # op.old -> Conflict(n, entry.val)
    [] OTHER -> Fine

Outcome(op, n, entry) ==
  CASE kind = "memkv" -> MemOutcome(op, n, entry)
    [] kind = "badger" -> BadgerOutcome(op, n, entry)
    [] kind = "tikv" -> TikvOutcome(op, n, entry)

\* What operation n of the client's batch comes to.
OutcomeOf(c, n) ==
  LET op == txn[c].batch[n] IN Outcome(op, n, txn[c].snap[op.key])

\* memkv as the batch is built, badger and tikv at the beginning of Commit: all
\* is fine, or the first error is that of the batch.
Evaluate(c) ==
  /\ txn[c].step = "open"
  /\ \/ /\ \A n \in DOMAIN txn[c].batch : OutcomeOf(c, n) = Fine
        /\ txn' = [txn EXCEPT ![c].step = "evaluated"]
     \/ \E n \in DOMAIN txn[c].batch :
          /\ OutcomeOf(c, n) # Fine
          /\ \A m \in 1 .. n - 1 : OutcomeOf(c, m) = Fine
          /\ txn' = [txn EXCEPT ![c].step = "evaluated", ![c].err = OutcomeOf(c, n)]
  /\ UNCHANGED <<kind, dbVars, mu, result, item>>

-----------------------------------------------------------------------------
(* Commit.                                                                 *)

Changed(c, k) == db[k].ver > txn[c].start
Ready(c, err) == txn[c].step = "evaluated" /\ (txn[c].err = Fine <=> ~err)

Written(batch) ==
  [k \in Keys |-> IF S!Touches(batch, k)
                  THEN [val |-> S!Leaves(S!OpOn(batch, k)), ver |-> version + 1]
                  ELSE db[k]]

Apply(c) ==
  /\ db' = Written(txn[c].batch)
  /\ version' = version + 1

Return(c, res) ==
  /\ txn' = [txn EXCEPT ![c] = NoTxn]
  /\ result' = [result EXCEPT ![c] = res]
  /\ UNCHANGED <<kind, item>>

\* memkv's asyncRemove starts a timer for every value that has a TTL.
Started(batch) ==
  {[key |-> batch[n].key, ver |-> version + 1] : n \in {m \in DOMAIN batch : batch[m].ttl}}

\* memkv: the writes, or the error, and the mutex is released.
MemCommit(c) ==
  /\ kind = "memkv"
  /\ \/ /\ Ready(c, FALSE)
        /\ Apply(c)
        /\ timers' = timers \cup Started(txn[c].batch)
     \/ /\ Ready(c, TRUE)
        /\ UNCHANGED dbVars
  /\ Return(c, txn[c].err)
  /\ mu' = None

\* Mutant of BadgerOvertaken: every write since the beginning is a conflict.
BadgerOvertaken_Any(c) == version > txn[c].start

\* A key that was read has changed.
BadgerOvertaken(c) ==
  \E n \in DOMAIN txn[c].batch :
    txn[c].batch[n].kind \in {"pine", "cas", "delcur"} /\ Changed(c, txn[c].batch[n].key)

\* badger's ErrConflict is returned as it is.
BadgerCommit(c) ==
  /\ kind = "badger"
  /\ \/ /\ Ready(c, FALSE) /\ ~BadgerOvertaken(c)
        /\ Apply(c)
        /\ Return(c, Fine)
     \/ /\ Ready(c, FALSE) /\ BadgerOvertaken(c)
        /\ Return(c, [Fine EXCEPT !.res = "error"])
        /\ UNCHANGED <<db, version>>
     \/ /\ Ready(c, TRUE)
        /\ Return(c, txn[c].err)
        /\ UNCHANGED <<db, version>>
  /\ UNCHANGED <<mu, timers>>

\* A key that is to be written has changed.
TikvOvertaken(c) == \E n \in DOMAIN txn[c].batch : Changed(c, txn[c].batch[n].key)

\* A write conflict is ErrCASFailed.
WriteConflict == [Fine EXCEPT !.res = "cas"]

\* Without an answer in time the result is uncertain, committed or not.
TikvCommit(c) ==
  /\ kind = "tikv"
  /\ \/ /\ Ready(c, FALSE) /\ ~TikvOvertaken(c)
        /\ Apply(c)
        /\ \E res \in {"ok", "uncertain"} : Return(c, [Fine EXCEPT !.res = res])
     \/ /\ Ready(c, FALSE) /\ TikvOvertaken(c)
        /\ Return(c, WriteConflict)
        /\ UNCHANGED <<db, version>>
     \/ /\ Ready(c, FALSE)
        /\ Return(c, [Fine EXCEPT !.res = "uncertain"])
        /\ UNCHANGED <<db, version>>
     \/ /\ Ready(c, TRUE)
        /\ Return(c, txn[c].err)
        /\ UNCHANGED <<db, version>>
  /\ UNCHANGED <<mu, timers>>

-----------------------------------------------------------------------------
(* Timers of memkv, and iterators.                                         *)

\* asyncRemove: del is a batch of its own, under the mutex.
Timer(timer) ==
  /\ kind = "memkv"
  /\ mu = None
  /\ timers' = timers \ {timer}
  /\ db' = [db EXCEPT ![timer.key].val = Absent]
  /\ UNCHANGED <<kind, version, mu, txn, result, item>>

\* The iterator is on an entry of its snapshot, and stays there while others
\* write.
Found(k) == IF db[k].val = Absent THEN None
            ELSE [key |-> k, val |-> db[k].val, ver |-> db[k].ver]

\* memkv copies the range under the mutex.
MemIter(k) ==
  /\ kind = "memkv"
  /\ mu = None
  /\ item' = Found(k)
  /\ UNCHANGED <<kind, dbVars, mu, txn, result>>

BadgerIter(k) ==
  /\ kind = "badger"
  /\ item' = Found(k)
  /\ UNCHANGED <<kind, dbVars, mu, txn, result>>

TikvIter(k) ==
  /\ kind = "tikv"
  /\ item' = Found(k)
  /\ UNCHANGED <<kind, dbVars, mu, txn, result>>

-----------------------------------------------------------------------------
Init ==
  /\ kind \in Kinds
  /\ db = [k \in Keys |-> [val |-> Absent, ver |-> 0]]
  /\ version = 0
  /\ mu = None
  /\ txn = [c \in Clients |-> NoTxn]
  /\ result = [c \in Clients |-> Fine]
  /\ item = None
  /\ timers = {}

Begin(c, batch) == MemBegin(c, batch) \/ BadgerBegin(c, batch) \/ TikvBegin(c, batch)
Commit(c) == MemCommit(c) \/ BadgerCommit(c) \/ TikvCommit(c)
Iter(k) == MemIter(k) \/ BadgerIter(k) \/ TikvIter(k)

Next ==
  \/ \E c \in Clients : \E batch \in Chosen : Begin(c, batch)
  \/ \E c \in Clients : Evaluate(c) \/ Commit(c)
  \/ \E timer \in timers : Timer(timer)
  \/ \E k \in Keys : Iter(k)

Spec == Init /\ [][Next]_vars

-----------------------------------------------------------------------------
(* Properties.                                                             *)

\* The variables have their types; the mutex of memkv is held by a batch in
\* progress.
TypeOK ==
  /\ kind \in Kinds
  /\ db \in [Keys -> Entries]
  /\ version \in Versions
  /\ mu \in Busy \cup {None}
  /\ \A c \in Clients : /\ txn[c].step \in {"idle", "open", "evaluated"}
                        /\ txn[c].snap \in [Keys -> Entries]
                        /\ txn[c].start \in Versions
  /\ \A c \in Clients : result[c].res \in {"ok", "cas", "error", "uncertain"}
  /\ item = None \/ item \in [key : Keys, val : Values, ver : Versions]
  /\ timers \subseteq [key : Keys, ver : Versions]

\* Every engine is a store whose batches are atomic: PutIfNotExist, CAS and
\* DelCurrent are true at the moment of the commit and not only when they were
\* evaluated, so that DelCurrent removes what the iterator found, and a batch
\* that fails leaves nothing behind (Commit "commits batch atomically").
IsStore == S!Spec

\* A batch that fails does so for a reason: a comparison is false of what it
\* found, or a key of it was written since it, or its iterator, began (Commit).
FailsForAReason ==
  [][\A c \in Clients :
       c \in Busy /\ txn'[c].step = "idle" /\ result'[c].res \in {"cas", "error"}
         => \E n \in DOMAIN txn[c].batch :
              LET op == txn[c].batch[n] IN
              \/ Changed(c, op.key) \/ ~S!Allows(op, db[op.key].val)
              \/ op.kind = "delcur" /\ db[op.key].ver # op.ver]_vars
==============================================================================
